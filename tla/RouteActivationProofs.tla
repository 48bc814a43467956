----------------------- MODULE RouteActivationProofs -----------------------
(***************************************************************************)
(* Theorems about RouteActivation for every set of routes, artifacts and   *)
(* keys and every length of the ledger: types, soundness of the ledger, at *)
(* most one decision on a head, the versions of RouteHead, the answers to  *)
(* repeated requests, and the consistency of a list of routes.             *)
(***************************************************************************)
EXTENDS RouteActivation, TLAPS

USE ArtifactAssumption, DecisionsAssumption

(* The inductive invariant.  What Last selects is found by a CHOOSE, so    *)
(* the invariant says where it is: the head of a route is its greatest     *)
(* place, and each event links to the greatest place of its route below.   *)
Greatest(h, S) == h \in S \union {0} /\ \A k \in S : k <= h

Chained ==
    /\ \A r \in Routes : Greatest(head[r], Of(r, Len(ledger)))
    /\ \A i \in 1..Len(ledger) :
          /\ Greatest(ledger[i].previous, Of(ledger[i].request.route, i - 1))
          /\ ledger[i].request.expected = ledger[i].previous
          /\ Follows(i, ledger[i].previous)

Inv == TypeOK /\ Chained
-----------------------------------------------------------------------------
(* The greatest element of a set of places is the one Last selects.        *)
LEMMA GreatestIsMax ==
    ASSUME NEW S \in SUBSET Nat, NEW h, Greatest(h, S)
    PROVE  Max(S \union {0}) = h
<1>1. h \in S \union {0} /\ \A y \in S \union {0} : h >= y
  BY DEF Greatest
<1>2. \A x \in S \union {0} : (\A y \in S \union {0} : x >= y) => x = h
  BY <1>1
<1>3. QED
  BY <1>1, <1>2 DEF Max

(* The heads are the last events of their routes.                          *)
LEMMA HeadIsLast ==
    ASSUME Chained, TypeOK, NEW r \in Routes
    PROVE  head[r] = Last(r, Len(ledger)) /\ head[r] \in 0..Len(ledger)
<1>1. Of(r, Len(ledger)) \in SUBSET Nat
  BY DEF Of
<1>2. Greatest(head[r], Of(r, Len(ledger)))
  BY DEF Chained
<1>3. head[r] \in 0..Len(ledger)
  BY <1>2 DEF Greatest, Of, TypeOK
<1>4. QED
  BY <1>1, <1>2, <1>3, GreatestIsMax DEF Last

(* The invariant contains what the readers verify.                         *)
LEMMA ChainedIsSound ==
    ASSUME Chained, TypeOK
    PROVE  LedgerIsSound
<1>1. SUFFICES ASSUME NEW r \in Routes, NEW i \in Of(r, Len(ledger))
               PROVE  Follows(i, Last(r, i - 1))
  BY HeadIsLast DEF LedgerIsSound, LedgerVerifies, ChainVerifies
<1>2. i \in 1..Len(ledger) /\ ledger[i].request.route = r
  BY DEF Of
<1>3. Of(r, i - 1) \in SUBSET Nat
  BY DEF Of
<1>4. Greatest(ledger[i].previous, Of(r, i - 1))
  BY <1>2 DEF Chained
<1>5. Last(r, i - 1) = ledger[i].previous
  BY <1>3, <1>4, GreatestIsMax DEF Last
<1>6. QED
  BY <1>2, <1>5 DEF Chained

(* Two events of a route never share the head they were decided on.        *)
LEMMA ChainedIsOnce ==
    ASSUME Chained, TypeOK
    PROVE  OneDecisionPerHead
<1>1. \A i, j \in 1..Len(ledger) :
          ledger[i].request.route = ledger[j].request.route /\ i < j =>
              ledger[i].request.expected # ledger[j].request.expected
  <2>1. TAKE i, j \in 1..Len(ledger)
  <2>2. HAVE ledger[i].request.route = ledger[j].request.route /\ i < j
  <2>3. i \in Of(ledger[j].request.route, j - 1)
    BY <2>2 DEF Of
  <2>4. i <= ledger[j].previous
    BY <2>3 DEF Chained, Greatest
  <2>5. ledger[i].previous \in Of(ledger[i].request.route, i - 1) \union {0}
    BY DEF Chained, Greatest
  <2>6. ledger[i].previous < i
    BY <2>5 DEF Of
  <2>7. ledger[i].request.expected = ledger[i].previous
        /\ ledger[j].request.expected = ledger[j].previous
    BY DEF Chained
  <2>8. ledger[i].previous \in Int /\ ledger[j].previous \in Int
    <3>1. ledger[i] \in EventRow /\ ledger[j] \in EventRow
      BY DEF TypeOK
    <3>2. QED
      BY <3>1 DEF EventRow, Place
  <2>9. QED
    BY <2>4, <2>6, <2>7, <2>8
<1>2. DOMAIN ledger = 1..Len(ledger)
  BY DEF TypeOK
<1>3. QED
  BY <1>1, <1>2 DEF OneDecisionPerHead

LEMMA InitInv == Init => Inv
  BY DEF Init, Inv, TypeOK, Chained, Greatest, Of, NoRead, ReaderRow, Place, Ended
-----------------------------------------------------------------------------
(***************************************************************************)
(* A decision.                                                             *)
(***************************************************************************)
(* An appended event leaves the events before it where they are.           *)
LEMMA AppendKeeps ==
    ASSUME TypeOK, NEW e, ledger' = Append(ledger, e)
    PROVE  /\ Len(ledger') = Len(ledger) + 1
           /\ ledger'[Len(ledger) + 1] = e
           /\ \A i \in 1..Len(ledger) : ledger'[i] = ledger[i]
  BY DEF TypeOK

(* The places of a route, before and after the append.                     *)
LEMMA OfKept ==
    ASSUME TypeOK, NEW e, ledger' = Append(ledger, e), NEW r, NEW n \in Nat
    PROVE  /\ n <= Len(ledger) => Of(r, n)' = Of(r, n)
           /\ n = Len(ledger) + 1 =>
                 Of(r, n)' = Of(r, Len(ledger))
                               \union (IF e.request.route = r THEN {n} ELSE {})
  BY AppendKeeps DEF Of, TypeOK

(* What a request asks, and the event it becomes.                          *)
LEMMA EventType ==
    ASSUME TypeOK, Len(ledger) < MaxDecisions, NEW q \in Requests
    PROVE  /\ q \in RequestRow /\ q.route \in Routes
           /\ \A a \in Artifacts, p \in 0..Len(ledger) :
                 [request |-> q, artifact |-> a, previous |-> p,
                  sequence |-> Sequence(p) + 1] \in EventRow
<1>1. q \in RequestRow /\ q.route \in Routes
  BY DEF Requests, RequestRow, Place, TypeOK
<1>2. ASSUME NEW p \in 0..Len(ledger)
      PROVE  p \in Place /\ Sequence(p) + 1 \in Nat
  <2>1. p # 0 => ledger[p] \in EventRow
    BY DEF TypeOK
  <2>2. QED
    BY <2>1 DEF Sequence, EventRow, Place, TypeOK
<1>3. QED
  BY <1>1, <1>2 DEF EventRow

(* Events already in the ledger keep following the ones before them.       *)
LEMMA FollowsKept ==
    ASSUME Inv, NEW e, ledger' = Append(ledger, e), NEW i, i \in 1..Len(ledger),
           NEW p, p = ledger[i].previous, NEW r, r = ledger[i].request.route,
           NEW t, t = ledger[i].request.target
    PROVE  /\ ledger'[i] = ledger[i]
           /\ Greatest(p, Of(r, i - 1))'
           /\ Follows(i, p)'
<1>1. ledger'[i] = ledger[i]
  BY AppendKeeps DEF Inv
<1>2. Of(r, i - 1)' = Of(r, i - 1)
  <2>1. i - 1 \in Nat /\ i - 1 <= Len(ledger)
    BY DEF Inv, TypeOK
  <2>2. QED
    BY <2>1, OfKept DEF Inv
<1>3. Greatest(p, Of(r, i - 1)) /\ Follows(i, p)
  BY DEF Inv, Chained
<1>4. p # 0 => p \in 1..Len(ledger)
  BY <1>3 DEF Greatest, Of, Inv, TypeOK
<1>5. Effective(p)' = Effective(p) /\ Sequence(p)' = Sequence(p)
  BY <1>4, AppendKeeps DEF Inv, Effective, Sequence
<1>6. t \in Of(r, i - 1) => ledger'[t] = ledger[t]
  BY AppendKeeps DEF Inv, Of, TypeOK
<1>7. Follows(i, p)'
  BY <1>1, <1>2, <1>3, <1>5, <1>6 DEF Follows
<1>8. QED
  BY <1>1, <1>2, <1>3, <1>7

(* A decision on the head of its route keeps the invariant, gives the route*)
(* its next version and changes the artifact that is active.               *)
LEMMA DecisionStep ==
    ASSUME Inv, NEW q \in Requests, NEW a \in Artifacts, Len(ledger) < MaxDecisions,
           OnHead(q), Appends(q, a),
           NEW n, n = Len(ledger), NEW p, p = Last(q.route, n),
           NEW e, e = [request |-> q, artifact |-> a, previous |-> p,
                       sequence |-> Sequence(p) + 1],
           a # Effective(p),
           q.type = "ROLLBACK" =>
               /\ q.target \in Of(q.route, n)
               /\ ledger[q.target].request.type = "ACTIVATE"
               /\ ledger[q.target].artifact = a
    PROVE  Inv' /\ Heads!Change(q.route, a)
<1> DEFINE r == q.route
<1>1. TypeOK /\ Chained /\ n \in Nat
  BY DEF Inv, TypeOK
<1>2. r \in Routes /\ q \in RequestRow
  BY <1>1, EventType
<1>3. p = head[r] /\ p \in 0..n
  BY <1>1, <1>2, HeadIsLast
<1>4. ledger' = Append(ledger, e) /\ head' = [head EXCEPT ![r] = n + 1]
      /\ source' = source /\ reader' = reader
  BY DEF Appends
<1>5. e \in EventRow
  BY <1>1, <1>3, EventType
<1>6. n + 1 \in Place
  BY <1>1 DEF Place
<1>7. /\ Len(ledger') = n + 1 /\ ledger'[n + 1] = e
      /\ \A i \in 1..n : ledger'[i] = ledger[i]
  BY <1>1, <1>4, AppendKeeps
<1>8. TypeOK'
  <2>1. ledger' \in Seq(EventRow) /\ Len(ledger') <= MaxDecisions
    BY <1>1, <1>4, <1>5, <1>7 DEF TypeOK
  <2>2. head' \in [Routes -> Place]
    BY <1>1, <1>4, <1>6 DEF TypeOK
  <2>3. QED
    BY <1>1, <1>4, <2>1, <2>2 DEF TypeOK, EventRow, RequestRow, ReaderRow, Place, Ended
<1>9. Effective(p)' = Effective(p) /\ Sequence(p)' = Sequence(p)
  BY <1>3, <1>7 DEF Effective, Sequence
<1>10. Of(r, n)' = Of(r, n)
  BY <1>1, <1>4, OfKept
<1>11. Greatest(p, Of(r, n))
  BY <1>1, <1>2, <1>3 DEF Chained
<1>12. ASSUME NEW s \in Routes
       PROVE  Greatest(head[s], Of(s, Len(ledger)))'
  <2>1. Of(s, n + 1)' = Of(s, n) \union (IF r = s THEN {n + 1} ELSE {})
    BY <1>1, <1>4, OfKept
  <2>2. Greatest(head[s], Of(s, n))
    BY <1>1 DEF Chained
  <2>3. head'[s] = IF r = s THEN n + 1 ELSE head[s]
    BY <1>1, <1>2, <1>4 DEF TypeOK
  <2>4. \A k \in Of(s, n) : k \in 1..n
    BY DEF Of
  <2>5. QED
    BY <1>1, <1>7, <2>1, <2>2, <2>3, <2>4 DEF Greatest
<1>13. ASSUME NEW i \in 1..n
       PROVE  /\ Greatest(ledger[i].previous, Of(ledger[i].request.route, i - 1))'
              /\ (ledger[i].request.expected = ledger[i].previous)'
              /\ Follows(i, ledger[i].previous)'
  <2>1. ledger[i].request.expected = ledger[i].previous
    BY <1>1 DEF Chained
  <2>2. ledger'[i] = ledger[i]
    BY <1>7
  <2>3. PICK u : u = ledger[i].previous
    OBVIOUS
  <2>4. PICK s : s = ledger[i].request.route
    OBVIOUS
  <2>5. PICK t : t = ledger[i].request.target
    OBVIOUS
  <2>6. Greatest(u, Of(s, i - 1))' /\ Follows(i, u)'
    BY <1>4, <1>1, <2>3, <2>4, <2>5, FollowsKept
  <2>7. ledger'[i].previous = u /\ ledger'[i].request.route = s
    BY <2>2, <2>3, <2>4
  <2>8. QED
    BY <2>1, <2>2, <2>6, <2>7
<1>14. Follows(n + 1, p)'
  <2>1. q.type = "ROLLBACK" => ledger'[q.target] = ledger[q.target]
    BY <1>7 DEF Of
  <2>2. (n + 1) - 1 = n
    BY <1>1
  <2>3. QED
    BY <1>7, <1>9, <1>10, <2>1, <2>2 DEF Follows
<1>15. q.expected = p
  BY DEF OnHead
<1>16. Chained'
  <2>1. ASSUME NEW i \in 1..(n + 1)
        PROVE  /\ Greatest(ledger[i].previous, Of(ledger[i].request.route, i - 1))'
               /\ (ledger[i].request.expected = ledger[i].previous)'
               /\ Follows(i, ledger[i].previous)'
    <3>1. CASE i \in 1..n
      BY <1>13, <3>1
    <3>2. CASE i = n + 1
      <4>1. ledger'[i].previous = p /\ ledger'[i].request = q /\ i - 1 = n
        BY <1>1, <1>7, <3>2
      <4>2. QED
        BY <1>10, <1>11, <1>14, <1>15, <3>2, <4>1
    <3>3. QED
      BY <1>1, <3>1, <3>2
  <2>2. QED
    BY <1>7, <1>12, <2>1 DEF Chained
<1>17. Heads!Change(r, a)
  <2>1. a # [s \in Routes |-> Effective(head[s])][r]
    BY <1>2, <1>3
  <2>2. ASSUME NEW s \in Routes
        PROVE  /\ s # r => head'[s] = head[s] /\ Sequence(head[s])' = Sequence(head[s])
                           /\ Effective(head[s])' = Effective(head[s])
               /\ s = r => Sequence(head[s])' = Sequence(head[s]) + 1
                           /\ Effective(head[s])' = a
    <3>1. head[s] \in 0..n
      BY <1>1, HeadIsLast
    <3>2. head'[s] = IF s = r THEN n + 1 ELSE head[s]
      BY <1>1, <1>2, <1>4 DEF TypeOK
    <3>3. CASE s # r
      BY <1>7, <3>1, <3>2, <3>3 DEF Sequence, Effective
    <3>4. CASE s = r
      <4>1. head'[s] = n + 1 /\ n + 1 # 0 /\ p = head[s]
        BY <1>1, <1>3, <3>2, <3>4
      <4>2. QED
        BY <1>7, <3>4, <4>1 DEF Sequence, Effective
    <3>5. QED
      BY <3>3, <3>4
  <2>3. [s \in Routes |-> Sequence(head[s])]'
          = [[s \in Routes |-> Sequence(head[s])] EXCEPT ![r] = @ + 1]
    BY <1>2, <2>2
  <2>4. [s \in Routes |-> Effective(head[s])]'
          = [[s \in Routes |-> Effective(head[s])] EXCEPT ![r] = a]
    BY <1>2, <2>2
  <2>5. QED
    BY <2>1, <2>3, <2>4 DEF Heads!Change
<1>18. QED
  BY <1>8, <1>16, <1>17 DEF Inv
-----------------------------------------------------------------------------
(***************************************************************************)
(* Steps that leave the ledger alone.                                      *)
(***************************************************************************)
LEMMA QuietStep ==
    ASSUME Inv, UNCHANGED rows, source' \in SUBSET Artifacts, reader' \in ReaderRow
    PROVE  Inv' /\ UNCHANGED Heads!hvars
<1>1. ledger' = ledger /\ head' = head
  BY DEF rows
<1>2. TypeOK'
  BY <1>1 DEF Inv, TypeOK, EventRow, RequestRow, ReaderRow, Place, Ended
<1>3. Chained'
  BY <1>1 DEF Inv, Chained, Greatest, Of, Follows, Sequence, Effective
<1>4. UNCHANGED Heads!hvars
  BY <1>1 DEF Heads!hvars, Sequence, Effective
<1>5. QED
  BY <1>2, <1>3, <1>4 DEF Inv

(* A read that goes on keeps its shape.                                    *)
LEMMA ProceedType ==
    ASSUME NEW read \in ReaderRow, NEW todo \in SUBSET Routes, Proceed(read, todo)
    PROVE  reader' \in ReaderRow
<1>1. CASE todo = {} /\ reader' = [read EXCEPT !.pc = "events", !.phase = "compare", !.todo = {}]
  BY <1>1 DEF ReaderRow
<1>2. ASSUME NEW r \in todo,
             reader' = [read EXCEPT !.pc = "events", !.phase = "resolve",
                                    !.route = r, !.todo = todo \ {r}]
      PROVE  reader' \in ReaderRow
  <2>1. r \in Routes /\ todo \ {r} \in SUBSET Routes
    OBVIOUS
  <2>2. QED
    BY <1>2, <2>1 DEF ReaderRow
<1>3. QED
  BY <1>1, <1>2 DEF Proceed

LEMMA EndType ==
    ASSUME TypeOK, NEW pc \in Ended \union {"rows"}, End(pc)
    PROVE  reader' \in ReaderRow
  BY DEF TypeOK, End, ReaderRow

LEMMA ReadStep ==
    ASSUME Inv, Read
    PROVE  reader' \in ReaderRow /\ UNCHANGED <<rows, source>>
<1>1. reader \in ReaderRow /\ Len(ledger) \in Place /\ TypeOK /\ head \in [Routes -> Place]
  BY DEF Inv, TypeOK, Place
<1>2. ASSUME NEW call \in {"events", "resolve", "list"},
             NEW phase \in {"history", "resolve", "snapshot"},
             NEW r \in Routes \union {None}, Begin(call, phase, r)
      PROVE  reader' \in ReaderRow /\ UNCHANGED <<rows, source>>
  <2>1. NoRead \in ReaderRow
    BY DEF NoRead, ReaderRow, Place, Ended
  <2>2. reader' = [NoRead EXCEPT !.pc = "events", !.call = call, !.phase = phase, !.route = r]
    BY <1>2 DEF Begin
  <2>3. reader' \in ReaderRow
    BY <2>1, <2>2 DEF ReaderRow
  <2>4. QED
    BY <1>2, <2>3 DEF Begin
<1>3. CASE ReadEvents
  BY <1>1, <1>3 DEF ReadEvents, ReaderRow
<1>4. CASE ReadHeads
  <2> DEFINE last == Last(reader.route, reader.seen)
  <2>1. UNCHANGED <<rows, source>>
    BY <1>4 DEF ReadHeads
  <2>2. CASE End("error") \/ End("rows") \/ End("absent")
    BY <1>1, <2>1, <2>2, EndType DEF Ended
  <2>3. CASE Proceed([reader EXCEPT !.snapshot = reader.seen],
                     {t \in Routes : Last(t, reader.seen) # 0})
    <3>1. [reader EXCEPT !.snapshot = reader.seen] \in ReaderRow
      BY <1>1 DEF ReaderRow
    <3>2. QED
      BY <2>1, <2>3, <3>1, ProceedType
  <2>4. CASE /\ LedgerVerifies(reader.seen)
             /\ reader' = [reader EXCEPT !.pc = "confirm", !.found[reader.route] = last]
    <3>1. reader.route \in Routes => last \in Place
      BY <1>1, <2>4 DEF LedgerVerifies
    <3>2. [reader.found EXCEPT ![reader.route] = last] \in [Routes -> Place]
      BY <1>1, <3>1 DEF ReaderRow
    <3>3. reader' = [reader EXCEPT !.pc = "confirm",
                       !.found = [reader.found EXCEPT ![reader.route] = last]]
      BY <2>4
    <3>4. QED
      BY <1>1, <2>1, <3>2, <3>3 DEF ReaderRow
  <2>5. QED
    BY <1>4, <2>2, <2>3, <2>4 DEF ReadHeads
<1>5. CASE ReadHistory
  BY <1>1, <1>5, EndType DEF ReadHistory, Ended
<1>6. CASE Confirm
  <2>1. reader.todo \in SUBSET Routes
    BY <1>1 DEF ReaderRow
  <2>2. QED
    BY <1>1, <1>6, <2>1, EndType, ProceedType DEF Confirm, Ended
<1>7. CASE Compare
  BY <1>1, <1>7, EndType DEF Compare, Ended
<1>8. QED
  BY <1>2, <1>3, <1>4, <1>5, <1>6, <1>7 DEF Read

LEMMA RollbackTarget ==
    ASSUME Inv, NEW q \in Requests, Restorable(q)
    PROVE  ledger[q.target].artifact \in Artifacts
<1>1. ledger[q.target] \in EventRow
  BY DEF Inv, TypeOK, Restorable, Of
<1>2. QED
  BY <1>1 DEF EventRow

(* Every step keeps the invariant and is a step of RouteHead or a stutter. *)
LEMMA NextStep ==
    ASSUME Inv, [Next]_vars
    PROVE  Inv' /\ [Heads!HNext]_Heads!hvars
<1>1. PICK n : n = Len(ledger)
  OBVIOUS
<1>2. ASSUME NEW q \in Requests, Activate(q)
      PROVE  Inv' /\ \E r \in Routes, a \in Artifacts : Heads!Change(r, a)
  <2>1. PICK p : p = Last(q.route, n)
    OBVIOUS
  <2>2. PICK e : e = [request |-> q, artifact |-> q.artifact, previous |-> p,
                      sequence |-> Sequence(p) + 1]
    OBVIOUS
  <2>3. q.artifact \in Artifacts /\ q.artifact # Effective(p) /\ q.type # "ROLLBACK"
    BY <1>1, <1>2, <2>1 DEF Activate, Activatable, Inv, TypeOK
  <2>4. Len(ledger) < MaxDecisions /\ OnHead(q) /\ Appends(q, q.artifact)
    BY <1>2 DEF Activate
  <2>5. Inv' /\ Heads!Change(q.route, q.artifact)
    BY <1>1, <2>1, <2>2, <2>3, <2>4, DecisionStep
  <2>6. q.route \in Routes
    BY DEF Requests
  <2>7. QED
    BY <2>3, <2>5, <2>6
<1>3. ASSUME NEW q \in Requests, Rollback(q)
      PROVE  Inv' /\ \E r \in Routes, a \in Artifacts : Heads!Change(r, a)
  <2>1. PICK p : p = Last(q.route, n)
    OBVIOUS
  <2>2. PICK a \in Artifacts : a = ledger[q.target].artifact
    BY <1>3, RollbackTarget DEF Rollback
  <2>3. PICK e : e = [request |-> q, artifact |-> a, previous |-> p,
                      sequence |-> Sequence(p) + 1]
    OBVIOUS
  <2>4. a # Effective(p) /\ q.target \in Of(q.route, n)
        /\ ledger[q.target].request.type = "ACTIVATE"
    BY <1>1, <1>3, <2>1, <2>2 DEF Rollback, Restorable
  <2>5. Len(ledger) < MaxDecisions /\ OnHead(q) /\ Appends(q, a)
    BY <1>3, <2>2 DEF Rollback
  <2>6. Inv' /\ Heads!Change(q.route, a)
    BY <1>1, <2>1, <2>2, <2>3, <2>4, <2>5, DecisionStep
  <2>7. q.route \in Routes
    BY DEF Requests
  <2>8. QED
    BY <2>6, <2>7
<1>4. ASSUME NEW a \in Retirable, Retire(a)
      PROVE  Inv' /\ UNCHANGED Heads!hvars
  BY <1>4, QuietStep DEF Retire, Inv, TypeOK
<1>5. CASE Read
  BY <1>5, ReadStep, QuietStep DEF Inv, TypeOK
<1>6. CASE UNCHANGED vars
  BY <1>6, QuietStep DEF vars, rows, Inv, TypeOK
<1>7. QED
  BY <1>2, <1>3, <1>4, <1>5, <1>6 DEF Next, Heads!HNext
-----------------------------------------------------------------------------
THEOREM LedgerInvariant == Spec => []Inv
<1>1. Inv /\ [Next]_vars => Inv'
  BY NextStep
<1>2. QED
  BY <1>1, InitInv, PTL DEF Spec

(* Rows and the memory of a read keep their types, for every number of     *)
(* routes, artifacts, keys and decisions.                                  *)
THEOREM TypeCorrect == Spec => []TypeOK
<1>1. Inv => TypeOK
  BY DEF Inv
<1>2. QED
  BY <1>1, LedgerInvariant, PTL

(* No sequence of decisions writes a ledger its readers would reject.      *)
THEOREM LedgerStaysSound == Spec => []LedgerIsSound
<1>1. Inv => LedgerIsSound
  BY ChainedIsSound DEF Inv
<1>2. QED
  BY <1>1, LedgerInvariant, PTL

(* Of concurrent decisions on one head at most one is ever appended.       *)
THEOREM HeadsAreDecidedOnce == Spec => []OneDecisionPerHead
<1>1. Inv => OneDecisionPerHead
  BY ChainedIsOnce DEF Inv
<1>2. QED
  BY <1>1, LedgerInvariant, PTL

(* The stream heads are versions that grow by one, each with another       *)
(* artifact: the detailed ledger implements RouteHead.                     *)
THEOREM HeadsAreVersions == Spec => ImplementsRouteHead
<1>1. Init => Heads!HInit
  BY DEF Init, Heads!HInit, Sequence, Effective
<1>2. Inv /\ [Next]_vars => [Heads!HNext]_Heads!hvars
  BY NextStep
<1>3. QED
  BY <1>1, <1>2, LedgerInvariant, PTL DEF Spec, ImplementsRouteHead, Heads!HSpec
-----------------------------------------------------------------------------
(***************************************************************************)
(* Repeated requests.  A key is bound to one event for ever, so a request  *)
(* with a bound key never meets the head and finds only its own event.     *)
(***************************************************************************)
OneKey ==
    \A i, j \in 1..Len(ledger) : ledger[i].request.key = ledger[j].request.key => i = j

LEMMA KeyStep ==
    ASSUME Inv, OneKey, [Next]_vars
    PROVE  OneKey'
<1>1. DOMAIN ledger = 1..Len(ledger) /\ Len(ledger) \in Nat
  BY DEF Inv, TypeOK
<1>2. ASSUME NEW q \in Requests, OnHead(q), NEW a, Appends(q, a)
      PROVE  OneKey'
  <2>1. PICK e : /\ e.request = q
                 /\ ledger' = Append(ledger, e)
    BY <1>2 DEF Appends
  <2>2. /\ Len(ledger') = Len(ledger) + 1
        /\ ledger'[Len(ledger) + 1] = e
        /\ \A i \in 1..Len(ledger) : ledger'[i] = ledger[i]
    BY <2>1, AppendKeeps DEF Inv
  <2>3. \A i \in 1..Len(ledger) : ledger[i].request.key # q.key
    BY <1>1, <1>2 DEF OnHead, Bound
  <2>4. ASSUME NEW i \in 1..(Len(ledger) + 1), NEW j \in 1..(Len(ledger) + 1),
               ledger'[i].request.key = ledger'[j].request.key
        PROVE  i = j
    <3>1. i \in 1..Len(ledger) \/ i = Len(ledger) + 1
      BY <1>1
    <3>2. j \in 1..Len(ledger) \/ j = Len(ledger) + 1
      BY <1>1
    <3>3. QED
      BY <2>1, <2>2, <2>3, <2>4, <3>1, <3>2 DEF OneKey
  <2>5. QED
    BY <2>2, <2>4 DEF OneKey
<1>3. CASE \E q \in Requests : Activate(q) \/ Rollback(q)
  BY <1>2, <1>3 DEF Activate, Rollback
<1>4. CASE UNCHANGED ledger
  BY <1>4 DEF OneKey
<1>5. QED
  BY <1>3, <1>4, ReadStep DEF Next, Retire, vars, rows

LEMMA OneAnswer ==
    ASSUME Inv, OneKey
    PROVE  RetryIsAnswered
<1>1. DOMAIN ledger = 1..Len(ledger)
  BY DEF Inv, TypeOK
<1>2. SUFFICES ASSUME NEW i \in 1..Len(ledger), ledger[i].artifact \in source
               PROVE  Answer(ledger[i].request) = i
  BY <1>1 DEF RetryIsAnswered
<1> DEFINE q == ledger[i].request
<1>3. i \in Bound(q.key) /\ LedgerVerifies(Len(ledger))
  BY <1>1, ChainedIsSound DEF Bound, Inv, LedgerIsSound
<1>4. ~OnHead(q)
  BY <1>3 DEF OnHead
<1>5. Repeats(q, i)
  BY <1>2, <1>3 DEF Repeats
<1>6. ASSUME NEW j \in DOMAIN ledger, Repeats(q, j) PROVE j = i
  BY <1>1, <1>6 DEF Repeats, Bound, OneKey
<1>7. (CHOOSE j \in DOMAIN ledger : Repeats(q, j)) = i
  BY <1>1, <1>5, <1>6
<1>8. QED
  BY <1>1, <1>4, <1>5, <1>7 DEF Answer

(* A request whose answer was lost is answered with its own event whenever *)
(* it is repeated, whatever decisions were made since, as long as the      *)
(* artifact of the event resolves.                                         *)
THEOREM RetriesAreAnswered == Spec => []RetryIsAnswered
<1>1. Init => OneKey
  BY DEF Init, OneKey
<1>2. Inv /\ OneKey /\ [Next]_vars => OneKey'
  BY KeyStep
<1>3. Inv /\ OneKey => RetryIsAnswered
  BY OneAnswer
<1>4. QED
  BY <1>1, <1>2, <1>3, LedgerInvariant, PTL DEF Spec
-----------------------------------------------------------------------------
(***************************************************************************)
(* The list.  Each route is resolved at another instant, and the last look *)
(* at the snapshot shows that none of them has moved since the first: the  *)
(* event found for a route lies between its last event in the snapshot and *)
(* its last event now.                                                     *)
(***************************************************************************)
KnownAt(n) ==
    n \in 0..Len(ledger) /\ \A r \in Routes : Greatest(Last(r, n), Of(r, n))

Resolved(r) ==
    reader.phase = "compare" \/ (r \notin reader.todo /\ r # reader.route)

FoundBetween(r) ==
    /\ Last(r, reader.snapshot) <= reader.found[r]
    /\ reader.found[r] <= head[r]
    /\ reader.phase = "compare" /\ reader.pc = "heads" =>
          reader.found[r] <= Last(r, reader.seen)

Listing == reader.call = "list" /\ reader.phase \in {"resolve", "compare"}

ListInv ==
    /\ reader.call = "list" =>
          reader.phase \in {"snapshot", "resolve", "compare"} /\ reader.pc # "rows"
    /\ reader.pc = "confirm" => reader.phase = "resolve"
    /\ reader.pc = "heads" => KnownAt(reader.seen)
    /\ reader.call = "list" /\ reader.phase = "snapshot" =>
          \A r \in Routes : reader.found[r] = 0
    /\ Listing => KnownAt(reader.snapshot)
    /\ Listing => \A r \in Routes : Resolved(r) => FoundBetween(r)
    /\ ListedTogether

(* What a statement saw is not changed by later decisions.                 *)
LEMMA KnownKept ==
    ASSUME Inv, NEW e, ledger' = Append(ledger, e), NEW n, KnownAt(n)
    PROVE  /\ KnownAt(n)'
           /\ \A r \in Routes : Last(r, n)' = Last(r, n)
<1>1. n \in Nat /\ n <= Len(ledger) /\ Len(ledger) \in Nat
  BY DEF KnownAt, Inv, TypeOK
<1>2. ASSUME NEW r \in Routes PROVE Of(r, n)' = Of(r, n)
  BY <1>1, OfKept DEF Inv
<1>3. \A r \in Routes : Last(r, n)' = Last(r, n)
  BY <1>2 DEF Last
<1>4. Len(ledger') = Len(ledger) + 1
  BY AppendKeeps DEF Inv
<1>5. n \in 0..Len(ledger')
  BY <1>1, <1>4
<1>6. ASSUME NEW r \in Routes PROVE Greatest(Last(r, n), Of(r, n))'
  <2>1. Greatest(Last(r, n), Of(r, n))
    BY DEF KnownAt
  <2>2. QED
    BY <1>2, <1>3, <2>1 DEF Greatest
<1>7. QED
  BY <1>3, <1>5, <1>6 DEF KnownAt

(* The whole ledger is known, and its last events are the heads.           *)
LEMMA KnownNow ==
    ASSUME Inv
    PROVE  KnownAt(Len(ledger)) /\ \A r \in Routes : Last(r, Len(ledger)) = head[r]
<1>1. \A r \in Routes : Last(r, Len(ledger)) = head[r]
  BY HeadIsLast DEF Inv
<1>2. \A r \in Routes : Greatest(Last(r, Len(ledger)), Of(r, Len(ledger)))
  BY <1>1 DEF Inv, Chained
<1>3. QED
  BY <1>1, <1>2 DEF KnownAt, Inv, TypeOK

(* The last event known earlier is not after the head.                     *)
LEMMA KnownIsBelow ==
    ASSUME Inv, NEW n, KnownAt(n), NEW r \in Routes
    PROVE  Last(r, n) \in Nat /\ Last(r, n) <= head[r]
<1>1. Last(r, n) \in Of(r, n) \union {0}
  BY DEF KnownAt, Greatest
<1>2. Greatest(head[r], Of(r, Len(ledger))) /\ head[r] \in 0..Len(ledger)
  BY HeadIsLast DEF Inv, Chained
<1>3. Of(r, n) \subseteq Of(r, Len(ledger))
  BY DEF Of, KnownAt, Inv, TypeOK
<1>4. QED
  BY <1>1, <1>2, <1>3 DEF Greatest, Of

(* Decisions move heads forward.                                           *)
LEMMA ListMeetsDecision ==
    ASSUME Inv, Inv', ListInv, NEW q \in Requests, NEW a, Appends(q, a)
    PROVE  ListInv'
<1>1. PICK e : ledger' = Append(ledger, e)
  BY DEF Appends
<1>2. reader' = reader
  BY DEF Appends
<1>3. Len(ledger') = Len(ledger) + 1 /\ Len(ledger) \in Nat
  BY <1>1, AppendKeeps DEF Inv, TypeOK
<1>4. ASSUME NEW r \in Routes PROVE head[r] <= head'[r] /\ head[r] \in Nat /\ head'[r] \in Nat
  <2>1. head[r] \in 0..Len(ledger)
    BY HeadIsLast DEF Inv
  <2>2. head'[r] = IF r = q.route THEN Len(ledger) + 1 ELSE head[r]
    BY DEF Appends, Inv, TypeOK
  <2>3. QED
    BY <1>3, <2>1, <2>2
<1>5. PICK n : n = reader.seen
  OBVIOUS
<1>6. PICK m : m = reader.snapshot
  OBVIOUS
<1>7. reader.pc = "heads" =>
         KnownAt(n)' /\ \A r \in Routes : Last(r, n)' = Last(r, n)
  BY <1>1, <1>5, KnownKept DEF ListInv
<1>8. Listing =>
         KnownAt(m)' /\ \A r \in Routes : Last(r, m)' = Last(r, m)
  BY <1>1, <1>6, KnownKept DEF ListInv
<1>9. (reader.pc = "heads" => KnownAt(reader.seen))'
  BY <1>2, <1>5, <1>7 DEF KnownAt, Greatest, Last, Of
<1>10. (Listing => KnownAt(reader.snapshot))'
  BY <1>2, <1>6, <1>8 DEF Listing, KnownAt, Greatest, Last, Of
<1>11. ASSUME Listing, NEW r \in Routes, FoundBetween(r) PROVE FoundBetween(r)'
  <2>1. Last(r, m)' = Last(r, m)
    BY <1>8, <1>11
  <2>2. reader.pc = "heads" => Last(r, n)' = Last(r, n)
    BY <1>7
  <2>3. reader.found[r] \in Nat
    BY DEF Inv, TypeOK, ReaderRow, Place
  <2>4. Last(r, m) <= reader.found[r] /\ reader.found[r] <= head[r]
    BY <1>6, <1>11 DEF FoundBetween
  <2>5. reader.phase = "compare" /\ reader.pc = "heads" => reader.found[r] <= Last(r, n)
    BY <1>5, <1>11 DEF FoundBetween
  <2>6. reader.found[r] <= head'[r]
    BY <1>4, <2>3, <2>4
  <2>7. Last(r, m)' <= reader.found[r]
    BY <2>1, <2>4
  <2>8. reader.phase = "compare" /\ reader.pc = "heads" => reader.found[r] <= Last(r, n)'
    BY <2>2, <2>5
  <2>9. QED
    BY <1>2, <1>5, <1>6, <2>6, <2>7, <2>8 DEF FoundBetween, Last, Of
<1>12. (Listing => \A r \in Routes : Resolved(r) => FoundBetween(r))'
  BY <1>2, <1>11 DEF ListInv, Listing, Resolved
<1>13. ListedTogether'
  <2>1. SUFFICES ASSUME reader.pc = "answered", reader.call = "list"
                 PROVE  \E k \in m..Len(ledger') : \A r \in Routes : reader.found[r] = Last(r, k)'
    BY <1>2, <1>6 DEF ListedTogether, Last, Of
  <2>2. PICK k \in m..Len(ledger) : \A r \in Routes : reader.found[r] = Last(r, k)
    BY <1>6, <2>1 DEF ListInv, ListedTogether
  <2>3. k \in Nat /\ k <= Len(ledger) /\ k \in m..Len(ledger')
    BY <1>3, <1>6 DEF Inv, TypeOK, ReaderRow, Place
  <2>4. ASSUME NEW r \in Routes PROVE Last(r, k)' = Last(r, k)
    BY <1>1, <2>3, OfKept DEF Last, Inv
  <2>5. QED
    BY <2>2, <2>3, <2>4
<1>14. QED
  BY <1>2, <1>9, <1>10, <1>12, <1>13 DEF ListInv

(* A read that ends, other than with the answer of a list, keeps what it   *)
(* has found.                                                              *)
LEMMA ListEnds ==
    ASSUME Inv, ListInv, UNCHANGED rows, NEW pc, End(pc),
           pc \in {"answered", "absent", "error", "rows"},
           pc \in {"answered", "rows"} => reader.call # "list"
    PROVE  ListInv'
<1>1. reader' = [reader EXCEPT !.pc = pc] /\ reader \in ReaderRow
  BY DEF End, Inv, TypeOK
<1>2. /\ reader'.pc = pc /\ reader'.call = reader.call /\ reader'.phase = reader.phase
      /\ reader'.route = reader.route /\ reader'.todo = reader.todo
      /\ reader'.found = reader.found /\ reader'.snapshot = reader.snapshot
  BY <1>1 DEF ReaderRow
<1>3. QED
  BY <1>2 DEF ListInv, Listing, Resolved, FoundBetween, ListedTogether, KnownAt, Greatest,
              Last, Of, rows

(* A list that goes on with the next route, or with its last look.         *)
LEMMA ListGoesOn ==
    ASSUME Inv, UNCHANGED rows, NEW read \in ReaderRow, NEW todo, Proceed(read, todo),
           read.call = "list", KnownAt(read.snapshot),
           \A r \in Routes \ todo : /\ Last(r, read.snapshot) <= read.found[r]
                                    /\ read.found[r] <= head[r]
    PROVE  ListInv'
<1>1. /\ reader'.pc = "events" /\ reader'.call = "list"
      /\ reader'.found = read.found /\ reader'.snapshot = read.snapshot
  BY DEF Proceed, ReaderRow
<1>2. \/ reader'.phase = "compare" /\ todo = {}
      \/ reader'.phase = "resolve" /\ \A r \in todo : r \in reader'.todo \/ r = reader'.route
  <2>1. ASSUME NEW r \in todo,
               reader' = [read EXCEPT !.pc = "events", !.phase = "resolve",
                                      !.route = r, !.todo = todo \ {r}]
        PROVE  /\ reader'.phase = "resolve" /\ reader'.todo = todo \ {r}
               /\ reader'.route = r
    BY <2>1 DEF ReaderRow
  <2>2. CASE todo = {}
    BY <2>2 DEF Proceed, ReaderRow
  <2>3. QED
    BY <2>1, <2>2 DEF Proceed
<1>3. PICK m : m = read.snapshot
  OBVIOUS
<1>4. ledger' = ledger /\ head' = head
  BY DEF rows
<1>5. KnownAt(reader.snapshot)'
  BY <1>1, <1>4 DEF KnownAt, Greatest, Last, Of
<1>6. ASSUME NEW r \in Routes, Resolved(r)' PROVE FoundBetween(r)'
  <2>1. r \notin todo
    BY <1>2, <1>6 DEF Resolved
  <2>2. Last(r, read.snapshot) <= read.found[r] /\ read.found[r] <= head[r]
    BY <2>1
  <2>3. QED
    BY <1>1, <1>4, <2>2 DEF FoundBetween, Last, Of
<1>7. QED
  BY <1>1, <1>2, <1>5, <1>6 DEF ListInv, Listing, ListedTogether

LEMMA ListReads ==
    ASSUME Inv, ListInv, Read
    PROVE  ListInv'
<1>0. reader \in ReaderRow /\ UNCHANGED rows /\ ledger' = ledger /\ head' = head
  BY ReadStep DEF Inv, TypeOK, rows
<1>1. ASSUME NEW call \in {"events", "resolve", "list"}, NEW phase, NEW r,
             call = "list" => phase = "snapshot", Begin(call, phase, r)
      PROVE  ListInv'
  <2>1. reader' = [NoRead EXCEPT !.pc = "events", !.call = call, !.phase = phase, !.route = r]
    BY <1>1 DEF Begin
  <2>2. /\ reader'.pc = "events" /\ reader'.call = call /\ reader'.phase = phase
        /\ \A t \in Routes : reader'.found[t] = 0
    BY <2>1 DEF NoRead
  <2>3. QED
    BY <1>1, <2>2 DEF ListInv, Listing, ListedTogether
<1>2. CASE ReadEvents
  <2>1. reader' = [reader EXCEPT !.pc = "heads", !.seen = Len(ledger)] /\ reader.pc = "events"
    BY <1>2 DEF ReadEvents
  <2>2. /\ reader'.pc = "heads" /\ reader'.seen = Len(ledger)
        /\ reader'.call = reader.call /\ reader'.phase = reader.phase
        /\ reader'.route = reader.route /\ reader'.todo = reader.todo
        /\ reader'.found = reader.found /\ reader'.snapshot = reader.snapshot
    BY <1>0, <2>1 DEF ReaderRow
  <2>3. KnownAt(Len(ledger)) /\ \A r \in Routes : Last(r, Len(ledger)) = head[r]
    BY KnownNow
  <2>4. KnownAt(reader.seen)'
    BY <1>0, <2>2, <2>3 DEF KnownAt, Greatest, Last, Of
  <2>5. (Listing => KnownAt(reader.snapshot))'
    BY <1>0, <2>2 DEF ListInv, Listing, KnownAt, Greatest, Last, Of
  <2>6. ASSUME Listing, NEW r \in Routes, FoundBetween(r) PROVE FoundBetween(r)'
    <3>1. Last(r, reader.snapshot) <= reader.found[r] /\ reader.found[r] <= Last(r, Len(ledger))
      BY <2>3, <2>6 DEF FoundBetween
    <3>2. reader.found[r] <= head[r]
      BY <2>6 DEF FoundBetween
    <3>3. QED
      BY <1>0, <2>2, <3>1, <3>2 DEF FoundBetween, Last, Of
  <2>7. (Listing => \A r \in Routes : Resolved(r) => FoundBetween(r))'
    BY <2>2, <2>6 DEF ListInv, Listing, Resolved
  <2>8. QED
    BY <2>1, <2>2, <2>4, <2>5, <2>7 DEF ListInv, ListedTogether
<1>3. CASE ReadHeads
  <2>0. reader.pc = "heads" /\ KnownAt(reader.seen)
    BY <1>3 DEF ReadHeads, ListInv
  <2>1. CASE End("error") \/ End("absent")
    BY <1>0, <2>1, ListEnds
  <2>2. CASE reader.phase = "history" /\ End("rows")
    BY <1>0, <2>2, ListEnds DEF ListInv
  <2>3. CASE /\ reader.phase = "snapshot"
             /\ Proceed([reader EXCEPT !.snapshot = reader.seen],
                        {t \in Routes : Last(t, reader.seen) # 0})
    <3> DEFINE read == [reader EXCEPT !.snapshot = reader.seen]
               todo == {t \in Routes : Last(t, reader.seen) # 0}
    <3>1. /\ read \in ReaderRow /\ read.call = reader.call /\ read.found = reader.found
          /\ read.snapshot = reader.seen
      BY <1>0 DEF ReaderRow
    <3>2. CASE reader.call = "list"
      <4>1. KnownAt(read.snapshot)
        BY <2>0, <3>1
      <4>2. ASSUME NEW r \in Routes \ todo
            PROVE  Last(r, read.snapshot) <= read.found[r] /\ read.found[r] <= head[r]
        <5>1. Last(r, read.snapshot) = 0
          BY <3>1
        <5>2. read.found[r] = 0
          BY <2>3, <3>1, <3>2 DEF ListInv
        <5>3. head[r] \in 0..Len(ledger)
          BY HeadIsLast DEF Inv
        <5>4. QED
          BY <5>1, <5>2, <5>3
      <4>3. Proceed(read, todo)
        BY <2>3
      <4> HIDE DEF read, todo
      <4>4. read.call = "list"
        BY <3>1, <3>2
      <4>5. QED
        BY <1>0, <3>1, <4>1, <4>2, <4>3, <4>4, ListGoesOn
    <3>3. CASE reader.call # "list"
      <4>1. reader'.pc = "events" /\ reader'.call = reader.call
        BY <1>0, <2>3 DEF Proceed, ReaderRow
      <4>2. QED
        BY <3>3, <4>1 DEF ListInv, Listing, ListedTogether
    <3>4. QED
      BY <3>2, <3>3
  <2>4. CASE /\ reader.phase = "resolve"
             /\ reader' = [reader EXCEPT !.pc = "confirm",
                             !.found[reader.route] = Last(reader.route, reader.seen)]
    <3>1. /\ reader'.pc = "confirm" /\ reader'.phase = "resolve"
          /\ reader'.call = reader.call /\ reader'.todo = reader.todo
          /\ reader'.route = reader.route /\ reader'.snapshot = reader.snapshot
          /\ \A r \in Routes : r # reader.route => reader'.found[r] = reader.found[r]
      BY <1>0, <2>4 DEF ReaderRow
    <3>2. (Listing => KnownAt(reader.snapshot))'
      BY <1>0, <2>4, <3>1 DEF ListInv, Listing, KnownAt, Greatest, Last, Of
    <3>3. ASSUME Listing, NEW r \in Routes, r \notin reader.todo, r # reader.route
          PROVE  FoundBetween(r)'
      <4>1. FoundBetween(r)
        BY <2>4, <3>3 DEF ListInv, Resolved
      <4>2. QED
        BY <1>0, <3>1, <3>3, <4>1 DEF FoundBetween, Last, Of
    <3>4. (Listing => \A r \in Routes : Resolved(r) => FoundBetween(r))'
      BY <2>4, <3>1, <3>3 DEF Listing, Resolved
    <3>5. QED
      BY <3>1, <3>2, <3>4 DEF ListInv, ListedTogether
  <2>5. QED
    BY <1>3, <2>1, <2>2, <2>3, <2>4 DEF ReadHeads
<1>4. CASE ReadHistory
  BY <1>0, <1>4, ListEnds DEF ReadHistory, ListInv
<1>5. CASE Confirm
  <2>0. reader.pc = "confirm" /\ reader.phase = "resolve"
    BY <1>5 DEF Confirm, ListInv
  <2>1. CASE End("error") \/ (reader.call # "list" /\ End("answered"))
    BY <1>0, <2>1, ListEnds
  <2>2. CASE /\ reader.call = "list" /\ Proceed(reader, reader.todo)
             /\ Last(reader.route, Len(ledger)) = reader.found[reader.route]
    <3>1. Listing /\ KnownAt(reader.snapshot)
      BY <2>0, <2>2 DEF Listing, ListInv
    <3>2. ASSUME NEW r \in Routes \ reader.todo
          PROVE  /\ Last(r, reader.snapshot) <= reader.found[r]
                 /\ reader.found[r] <= head[r]
      <4>1. CASE r = reader.route
        <5>1. reader.found[r] = head[r] /\ head[r] \in 0..Len(ledger)
          BY <2>2, <4>1, HeadIsLast DEF Inv
        <5>2. Last(r, reader.snapshot) <= head[r]
          BY <3>1, KnownIsBelow
        <5>3. QED
          BY <5>1, <5>2 DEF Inv, TypeOK
      <4>2. CASE r # reader.route
        BY <3>1, <4>2 DEF ListInv, Resolved, FoundBetween
      <4>3. QED
        BY <4>1, <4>2
    <3>3. QED
      BY <1>0, <2>2, <3>1, <3>2, ListGoesOn
  <2>3. QED
    BY <1>5, <2>1, <2>2 DEF Confirm
<1>6. CASE Compare
  <2>0. reader.pc = "heads" /\ reader.phase = "compare"
    BY <1>6 DEF Compare
  <2>1. CASE End("error")
    BY <1>0, <2>1, ListEnds
  <2>2. CASE reader.call # "list" /\ End("answered")
    BY <1>0, <2>2, ListEnds
  <2>3. CASE /\ reader.call = "list" /\ End("answered")
             /\ \A t \in Routes : Last(t, reader.seen) = Last(t, reader.snapshot)
    <3>1. Listing /\ KnownAt(reader.snapshot) /\ \A r \in Routes : FoundBetween(r)
      BY <2>0, <2>3 DEF Listing, ListInv, Resolved
    <3>2. ASSUME NEW r \in Routes PROVE reader.found[r] = Last(r, reader.snapshot)
      <4>1. Last(r, reader.snapshot) \in Nat /\ reader.found[r] \in Nat
        BY <1>0, <3>1, KnownIsBelow DEF ReaderRow, Place
      <4>2. /\ Last(r, reader.snapshot) <= reader.found[r]
            /\ reader.found[r] <= Last(r, reader.snapshot)
        BY <2>0, <2>3, <3>1 DEF FoundBetween
      <4>3. QED
        BY <4>1, <4>2
    <3>3. /\ reader'.pc = "answered" /\ reader'.call = "list" /\ reader'.phase = "compare"
          /\ reader'.found = reader.found /\ reader'.snapshot = reader.snapshot
      BY <1>0, <2>0, <2>3 DEF End, ReaderRow
    <3>4. ListedTogether'
      <4>1. reader.snapshot \in reader.snapshot..Len(ledger)
        BY <3>1 DEF KnownAt, Inv, TypeOK
      <4>2. QED
        BY <1>0, <3>2, <3>3, <4>1 DEF ListedTogether, Last, Of
    <3>5. (\A r \in Routes : FoundBetween(r))' /\ KnownAt(reader.snapshot)'
      BY <1>0, <3>1, <3>3 DEF FoundBetween, KnownAt, Greatest, Last, Of
    <3>6. QED
      BY <3>3, <3>4, <3>5 DEF ListInv, Listing, Resolved
  <2>4. QED
    BY <1>6, <2>1, <2>2, <2>3 DEF Compare
<1>7. QED
  BY <1>1, <1>2, <1>3, <1>4, <1>5, <1>6 DEF Read

(* The routes a list returns were active together, at one instant during   *)
(* the call, whatever was activated between its statements.                *)
THEOREM ListsAreConsistent == Spec => []ListedTogether
<1>1. Init => ListInv
  BY DEF Init, ListInv, Listing, ListedTogether, NoRead
<1>2. Inv /\ Inv' /\ ListInv /\ [Next]_vars => ListInv'
  <2> SUFFICES ASSUME Inv, Inv', ListInv, [Next]_vars PROVE ListInv'
      OBVIOUS
  <2>1. CASE \E q \in Requests : Activate(q) \/ Rollback(q)
    BY <2>1, ListMeetsDecision DEF Activate, Rollback
  <2>2. CASE UNCHANGED <<rows, reader>>
    <3>1. ledger' = ledger /\ head' = head /\ reader' = reader
      BY <2>2 DEF rows
    <3>2. \A r \in Routes : Resolved(r)' = Resolved(r) /\ FoundBetween(r)' = FoundBetween(r)
      BY <3>1 DEF Resolved, FoundBetween, Last, Of
    <3>3. /\ KnownAt(reader.seen)' = KnownAt(reader.seen)
          /\ KnownAt(reader.snapshot)' = KnownAt(reader.snapshot)
      BY <3>1 DEF KnownAt, Greatest, Last, Of
    <3>4. ListedTogether'
      BY <3>1 DEF ListInv, ListedTogether, Last, Of
    <3>5. QED
      BY <3>1, <3>2, <3>3, <3>4 DEF ListInv, Listing
  <2>3. CASE Read
    BY <2>3, ListReads
  <2>4. QED
    BY <2>1, <2>2, <2>3 DEF Next, Retire, vars, rows
<1>3. ListInv => ListedTogether
  BY DEF ListInv
<1>4. QED
  BY <1>1, <1>2, <1>3, LedgerInvariant, PTL DEF Spec
=============================================================================
