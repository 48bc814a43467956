--------------------------- MODULE RouteActivation ---------------------------
(***************************************************************************)
(* The append-only ledger of the decisions that put model artifacts on the *)
(* routes of a project (application/model_route_activation.py).  A writer  *)
(* locks the project row, so activate and rollback are one action each.    *)
(* Readers take no lock: under the READ COMMITTED isolation the engine is  *)
(* created with, each of their statements sees what is committed when it   *)
(* runs, so a read is one action per statement.                            *)
(*                                                                         *)
(* An event is named by its place in the ledger, which stands for its uuid *)
(* and for its SHA-256; 0 is the genesis.                                  *)
(***************************************************************************)
EXTENDS Integers, Sequences, FiniteSetsExt

CONSTANTS
    Routes,         \* (task, cutoff_cycle, role)
    Artifacts,      \* registered candidates
    None,           \* no artifact and no route
    Keys,           \* values of the Idempotency-Key header
    Retirable,      \* artifacts the registry may stop to serve
    MaxDecisions    \* bound: length of the ledger

ASSUME ArtifactAssumption == None \notin Artifacts /\ Retirable \subseteq Artifacts
ASSUME DecisionsAssumption == MaxDecisions \in Nat

VARIABLES
    ledger,     \* ModelRouteActivationEvent rows, in the order of their insertion
    head,       \* ModelRouteActivationStreamHead of each route, 0 when there is none
    source,     \* artifacts the registry resolves and verifies
    reader      \* one read: what it holds between its statements

vars == <<ledger, head, source, reader>>
rows == <<ledger, head>>

NoRead == [pc |-> "idle", call |-> "none", phase |-> "none", route |-> None,
           seen |-> 0, snapshot |-> 0, todo |-> {}, found |-> [r \in Routes |-> 0]]

Init ==
    /\ ledger = <<>>
    /\ head = [r \in Routes |-> 0]
    /\ source = Artifacts
    /\ reader = NoRead
-----------------------------------------------------------------------------
(***************************************************************************)
(* The ledger as its readers check it.  n is how many of its events a      *)
(* statement saw.                                                          *)
(***************************************************************************)
Of(r, n) == {i \in 1..n : ledger[i].request.route = r}
Last(r, n) == Max(Of(r, n) \union {0})

(* history[-1].artifact_id, and the effective artifact of _verify_chain.   *)
Effective(i) == IF i = 0 THEN None ELSE ledger[i].artifact
Sequence(i) == IF i = 0 THEN 0 ELSE ledger[i].sequence

(* One event of _verify_chain, p being the event before it.                *)
Follows(i, p) ==
    LET e == ledger[i] IN
    /\ e.previous = p
    /\ e.sequence = Sequence(p) + 1
    /\ e.artifact # Effective(p)
    /\ e.request.type = "ROLLBACK" =>
          /\ e.request.target \in Of(e.request.route, i - 1)
          /\ ledger[e.request.target].request.type = "ACTIVATE"
          /\ ledger[e.request.target].artifact = e.artifact

ChainVerifies(r, n) == \A i \in Of(r, n) : Follows(i, Last(r, i - 1))

(* _verified_project_ledger: all chains, and the heads read after them.    *)
LedgerVerifies(n) == \A r \in Routes : ChainVerifies(r, n) /\ head[r] = Last(r, n)
-----------------------------------------------------------------------------
(***************************************************************************)
(* Decisions.                                                              *)
(***************************************************************************)
Requests ==
    LET known == 0..Len(ledger) IN
    [type : {"ACTIVATE"}, route : Routes, artifact : Artifacts, target : {0},
     expected : known, key : Keys]
    \union
    [type : {"ROLLBACK"}, route : Routes, artifact : {None}, target : known \ {0},
     expected : known, key : Keys]

Bound(k) == {i \in DOMAIN ledger : ledger[i].request.key = k}

(* Deviation: the retry is looked for behind the check of the head.        *)
RepeatsAtHead(q, i) ==
    /\ q.expected = Last(q.route, Len(ledger))
    /\ i \in Bound(q.key)
    /\ ledger[i].request = q
    /\ LedgerVerifies(Len(ledger))
    /\ ledger[i].artifact \in source

(* _idempotent_event: event i is the one this request has appended before. *)
Repeats(q, i) ==
    /\ i \in Bound(q.key)
    /\ ledger[i].request = q
    /\ LedgerVerifies(Len(ledger))
    /\ ledger[i].artifact \in source

(* Deviation: the head is recognised by its artifact.                      *)
SameArtifact(q) ==
    LET r == q.route IN
    /\ Bound(q.key) = {}
    /\ ChainVerifies(r, Len(ledger))
    /\ Effective(q.expected) = Effective(Last(r, Len(ledger)))
    /\ head[r] = Last(r, Len(ledger))

(* A new key, a chain that verifies, the expected head, the row of the head. *)
OnHead(q) ==
    LET r == q.route IN
    /\ Bound(q.key) = {}
    /\ ChainVerifies(r, Len(ledger))
    /\ q.expected = Last(r, Len(ledger))
    /\ head[r] = Last(r, Len(ledger))

(* _event, _event_row and _advance_stream_head.                            *)
Appends(q, a) ==
    LET last == Last(q.route, Len(ledger)) IN
    /\ ledger' = Append(ledger, [request |-> q, artifact |-> a, previous |-> last,
                                 sequence |-> Sequence(last) + 1])
    /\ head' = [head EXCEPT ![q.route] = Len(ledger) + 1]
    /\ UNCHANGED <<source, reader>>

(* Deviation: the latest artifact may be activated once more.              *)
ActivatableAgain(q) == q.type = "ACTIVATE" /\ q.artifact \in source

Activatable(q) ==
    /\ q.type = "ACTIVATE"
    /\ q.artifact \in source
    /\ q.artifact # Effective(Last(q.route, Len(ledger)))

(* Deviation: a rollback asks for another event, not another artifact.     *)
AnotherEvent(q) ==
    /\ q.type = "ROLLBACK"
    /\ q.target \in Of(q.route, Len(ledger)) \ {Last(q.route, Len(ledger))}
    /\ ledger[q.target].request.type = "ACTIVATE"
    /\ ledger[q.target].artifact \in source

Restorable(q) ==
    /\ q.type = "ROLLBACK"
    /\ q.target \in Of(q.route, Len(ledger))
    /\ ledger[q.target].request.type = "ACTIVATE"
    /\ ledger[q.target].artifact # Effective(Last(q.route, Len(ledger)))
    /\ ledger[q.target].artifact \in source

(* What a request is answered: its new event, the one it appended before,  *)
(* or 0 for a conflict.                                                    *)
Answer(q) ==
    IF OnHead(q) /\ (Activatable(q) \/ Restorable(q)) THEN Len(ledger) + 1
    ELSE IF \E i \in DOMAIN ledger : Repeats(q, i)
           THEN CHOOSE i \in DOMAIN ledger : Repeats(q, i)
           ELSE 0

(* activate and rollback.  A repeated or a refused request changes nothing. *)
Activate(q) ==
    /\ Len(ledger) < MaxDecisions
    /\ OnHead(q) /\ Activatable(q)
    /\ Appends(q, q.artifact)

(* Deviation: the event names the artifact of the request.                 *)
RollbackOfRequest(q) ==
    /\ Len(ledger) < MaxDecisions
    /\ OnHead(q) /\ Restorable(q)
    /\ Appends(q, q.artifact)

Rollback(q) ==
    /\ Len(ledger) < MaxDecisions
    /\ OnHead(q) /\ Restorable(q)
    /\ Appends(q, ledger[q.target].artifact)

(* The registry of the server no longer resolves an artifact.              *)
Retire(a) ==
    /\ a \in source
    /\ source' = source \ {a}
    /\ UNCHANGED <<rows, reader>>
-----------------------------------------------------------------------------
(***************************************************************************)
(* Reads: list_events, resolve_verified_active_model_route, and            *)
(* list_verified_active_model_routes, which calls the second for every     *)
(* route of its snapshot and looks at the snapshot again at the end.       *)
(***************************************************************************)
Ended == {"idle", "answered", "absent", "error"}
End(pc) == reader' = [reader EXCEPT !.pc = pc]

Begin(call, phase, r) ==
    /\ reader.pc \in Ended
    /\ reader' = [NoRead EXCEPT !.pc = "events", !.call = call, !.phase = phase, !.route = r]
    /\ UNCHANGED <<rows, source>>

(* The statement that selects the events.                                  *)
ReadEvents ==
    /\ reader.pc = "events"
    /\ reader' = [reader EXCEPT !.pc = "heads", !.seen = Len(ledger)]
    /\ UNCHANGED <<rows, source>>

(* The next route of the snapshot, and after the last one the comparison.  *)
Proceed(read, todo) ==
    \/ \E r \in todo : reader' = [read EXCEPT !.pc = "events", !.phase = "resolve",
                                             !.route = r, !.todo = todo \ {r}]
    \/ todo = {} /\ reader' = [read EXCEPT !.pc = "events", !.phase = "compare", !.todo = {}]

(* The statement that selects the heads, the checks, and what follows them.*)
ReadHeads ==
    LET r == reader.route
        last == Last(r, reader.seen)
    IN
    /\ reader.pc = "heads"
    /\ \/ ~LedgerVerifies(reader.seen) /\ End("error")
       \/ /\ LedgerVerifies(reader.seen) /\ reader.phase = "history"
          /\ End("rows")
       \/ /\ LedgerVerifies(reader.seen) /\ reader.phase = "snapshot"
          /\ Proceed([reader EXCEPT !.snapshot = reader.seen],
                     {t \in Routes : Last(t, reader.seen) # 0})
       \/ /\ LedgerVerifies(reader.seen) /\ reader.phase = "resolve"
          /\ IF last = 0 THEN End("absent")
             ELSE IF ledger[last].artifact \notin source THEN End("error")
             ELSE reader' = [reader EXCEPT !.pc = "confirm", !.found[r] = last]
    /\ UNCHANGED <<rows, source>>

(* list_events selects the events of its route once more.                  *)
ReadHistory ==
    /\ reader.pc = "rows"
    /\ End(IF ChainVerifies(reader.route, Len(ledger)) THEN "answered" ELSE "error")
    /\ UNCHANGED <<rows, source>>

(* The second transaction of resolve, which locks the project.             *)
Confirm ==
    /\ reader.pc = "confirm"
    /\ IF LedgerVerifies(Len(ledger))
             /\ Last(reader.route, Len(ledger)) = reader.found[reader.route]
         THEN IF reader.call = "list" THEN Proceed(reader, reader.todo) ELSE End("answered")
         ELSE End("error")
    /\ UNCHANGED <<rows, source>>

(* Deviation: the snapshot is not looked at again.                         *)
TrustResolutions ==
    /\ reader.pc = "heads" /\ reader.phase = "compare"
    /\ LedgerVerifies(reader.seen)
    /\ End("answered")
    /\ UNCHANGED <<rows, source>>

(* The end of list_verified_active_model_routes.                           *)
Compare ==
    /\ reader.pc = "heads" /\ reader.phase = "compare"
    /\ LedgerVerifies(reader.seen)
    /\ End(IF \A t \in Routes : Last(t, reader.seen) = Last(t, reader.snapshot)
             THEN "answered" ELSE "error")
    /\ UNCHANGED <<rows, source>>

Read ==
    \/ \E r \in Routes : Begin("events", "history", r) \/ Begin("resolve", "resolve", r)
    \/ Begin("list", "snapshot", None)
    \/ ReadEvents \/ ReadHeads \/ ReadHistory \/ Confirm \/ Compare

Next ==
    \/ \E q \in Requests : Activate(q) \/ Rollback(q)
    \/ \E a \in Retirable : Retire(a)
    \/ Read

Spec == Init /\ [][Next]_vars
-----------------------------------------------------------------------------
(***************************************************************************)
(* Properties.                                                             *)
(***************************************************************************)
Place == 0..MaxDecisions

RequestRow ==
    [type : {"ACTIVATE", "ROLLBACK"}, route : Routes, artifact : Artifacts \union {None},
     target : Place, expected : Place, key : Keys]

EventRow == [request : RequestRow, artifact : Artifacts, previous : Place, sequence : Nat]

ReaderRow ==
    [pc : Ended \union {"events", "heads", "rows", "confirm"},
     call : {"none", "events", "resolve", "list"},
     phase : {"none", "history", "snapshot", "resolve", "compare"},
     route : Routes \union {None}, seen : Place, snapshot : Place,
     todo : SUBSET Routes, found : [Routes -> Place]]

(* Rows and the memory of the read have their types.                       *)
TypeOK ==
    /\ ledger \in Seq(EventRow) /\ Len(ledger) <= MaxDecisions
    /\ head \in [Routes -> Place]
    /\ source \in SUBSET Artifacts
    /\ reader \in ReaderRow

(* Whatever sequence of decisions the writers accept, the committed ledger *)
(* passes the verification of every reader: numbering, links, effective    *)
(* changes, rollback targets and stream heads.                             *)
LedgerIsSound == LedgerVerifies(Len(ledger))

(* Optimistic concurrency: of the decisions made on one head of a route at *)
(* most one is in the ledger, also when a rollback has brought back the    *)
(* artifact that head served.                                              *)
OneDecisionPerHead ==
    \A i, j \in DOMAIN ledger :
        /\ ledger[i].request.route = ledger[j].request.route
        /\ ledger[i].request.expected = ledger[j].request.expected
        => i = j

(* A request whose answer was lost can be repeated at any later time: it is*)
(* answered with its own event and appends nothing, as long as the artifact*)
(* of the event can still be resolved.                                     *)
RetryIsAnswered ==
    \A i \in DOMAIN ledger : ledger[i].artifact \in source => Answer(ledger[i].request) = i

(* The routes a list returns were active together, at one instant during   *)
(* the call, although they were resolved one after the other.              *)
ListedTogether ==
    reader.pc = "answered" /\ reader.call = "list" =>
        \E n \in reader.snapshot..Len(ledger) : \A r \in Routes : reader.found[r] = Last(r, n)

(* The stream heads implement the versions others rely on.                 *)
Heads == INSTANCE RouteHead WITH
    version <- [r \in Routes |-> Sequence(head[r])],
    active <- [r \in Routes |-> Effective(head[r])]

ImplementsRouteHead == Heads!HSpec
=============================================================================
