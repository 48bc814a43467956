------------------------- MODULE CalibrationProofs -------------------------
(***************************************************************************)
(* Calibration for every number of workers, requests, decisions, retries   *)
(* and faults: what the status of a row says of the rest of it, that       *)
(* published samples are final, that an unexpired claim is respected, that *)
(* rows, messages and memories keep their types, and, where the broker's   *)
(* retries outlast the faults, that live evidence is somebody's duty.      *)
(*                                                                         *)
(* The first half rests on the row alone.  A token is the attempt that set *)
(* it and the attempts only grow, so the fence of a transaction identifies *)
(* the claim, and the status is what each transaction looks at first.  The *)
(* second half counts the retries that a message still has.                *)
(***************************************************************************)
EXTENDS Calibration, TLAPS

(* The tables and processes have their shape; a request past its lookup    *)
(* and a worker with a message speak of a decision of the ledger.          *)
Shape ==
    /\ head \in 0..MaxHead
    /\ row \in [Decisions -> Rows]
    /\ request \in [Clients -> Requests]
    /\ worker \in [Workers -> WorkerStates]
    /\ \A c \in Clients :
          request[c].pc \in {"insert", "enqueue"} => request[c].decision \in Decisions
    /\ \A w \in Workers : worker[w].pc # "idle" => worker[w].decision \in Decisions
    /\ \A w \in Workers : worker[w].beating => worker[w].pc = "produce"

RowsSound == row' \in [Decisions -> Rows] /\ StatePayload' /\ Publishes /\ Respects
Sound == Shape' /\ StatePayload' /\ Publishes /\ Respects

USE CalibrationBounds, LeaseAssumption DEF Decisions

LEMMA InitShape == Init => Shape /\ StatePayload
BY DEF Init, Shape, StatePayload, Payload, NoRow, NoRequest, Idle, Rows, Requests, WorkerStates, Status
-----------------------------------------------------------------------------
(* Ways a transaction leaves the table of materializations.                *)
LEMMA RowUntouched ==
    ASSUME Shape, StatePayload, UNCHANGED row
    PROVE  RowsSound
BY DEF Shape, StatePayload, Publishes, Respects, RowsSound

LEMMA RowWritten ==
    ASSUME Shape, StatePayload, NEW d \in Decisions, NEW r \in Rows, Payload(r),
           row' = [row EXCEPT ![d] = r],
           r.cohort # row[d].cohort => row[d].cohort = 0 /\ head = d,
           Busy(d) /\ r.token # row[d].token =>
              \E w \in Workers : /\ worker[w].decision = d
                                 /\ worker[w].token = row[d].token
                                 /\ worker'[w] = Idle
    PROVE  RowsSound
BY DEF Shape, StatePayload, Publishes, Respects, RowsSound

LEMMA RowAged ==
    ASSUME NEW d \in Decisions, Shape, StatePayload, row' = Aged(d)
    PROVE  RowsSound
<1>1. CASE row[d].status = "READY" /\ head # d
  <2> DEFINE r == [row[d] EXCEPT !.status = "STALE"]
  <2>1. row' = [row EXCEPT ![d] = r]
    BY <1>1 DEF Aged
  <2>2. r \in Rows /\ Payload(r) /\ r.cohort = row[d].cohort /\ r.token = row[d].token
    BY <1>1 DEF Shape, StatePayload, Payload, Rows, Status
  <2>3. QED
    BY <2>1, <2>2, RowWritten
<1>2. CASE ~(row[d].status = "READY" /\ head # d)
  BY <1>2, RowUntouched DEF Aged
<1>3. QED
  BY <1>1, <1>2

(* Ways it leaves the requests and the workers.                            *)
LEMMA RequestMoves ==
    ASSUME Shape, RowsSound, NEW c \in Clients, NEW r \in Requests,
           r.pc \in {"insert", "enqueue"} => r.decision \in Decisions,
           request' = [request EXCEPT ![c] = r], UNCHANGED <<head, worker>>
    PROVE  Sound
BY DEF Shape, RowsSound, Sound

LEMMA WorkerMoves ==
    ASSUME Shape, RowsSound, NEW w \in Workers, NEW m \in WorkerStates,
           m.pc # "idle" => m.decision \in Decisions, m.beating => m.pc = "produce",
           worker' = [worker EXCEPT ![w] = m], UNCHANGED <<head, request>>
    PROVE  Sound
BY DEF Shape, RowsSound, Sound

LEMMA WorkerAcknowledges ==
    ASSUME Shape, RowsSound, NEW w \in Workers, Acknowledge(w), UNCHANGED <<head, request>>
    PROVE  Sound
<1>1. Idle \in WorkerStates /\ Idle.pc = "idle" /\ ~Idle.beating
  BY DEF Idle, WorkerStates
<1>2. QED
  BY <1>1, WorkerMoves DEF Acknowledge

LEMMA NothingMoves ==
    ASSUME Shape, RowsSound, UNCHANGED <<head, request, worker>>
    PROVE  Sound
BY DEF Shape, RowsSound, Sound
-----------------------------------------------------------------------------
(* The HTTP side.                                                          *)
LEMMA AnsweredMoves ==
    ASSUME Shape, RowsSound, NEW c \in Clients, NEW d \in Decisions, NEW table,
           table \in [Decisions -> Rows], Answered(c, d, table), UNCHANGED <<head, worker>>
    PROVE  Sound
<1> DEFINE r == [request[c] EXCEPT !.pc = "enqueue", !.decision = d,
                                   !.answer = table[d].status]
<1>1. table[d].status \in Status
  BY DEF Rows
<1>2. request[c] \in Requests /\ d \in 0..MaxHead
  BY DEF Shape
<1>3. r \in Requests /\ r.decision = d
  BY <1>1, <1>2 DEF Requests
<1>4. QED
  BY <1>3, RequestMoves DEF Answered

LEMMA RequestEnds ==
    ASSUME Shape, RowsSound, NEW c \in Clients,
           request' = [request EXCEPT ![c] = NoRequest], UNCHANGED <<head, worker>>
    PROVE  Sound
<1>1. NoRequest \in Requests /\ NoRequest.pc = "idle"
  BY DEF NoRequest, Requests, Status
<1>2. QED
  BY <1>1, RequestMoves

LEMMA LookupStep ==
    ASSUME Shape, StatePayload, NEW c \in Clients, NEW k \in Keys, Lookup(c, k)
    PROVE  Sound
<1>1. CASE request' = [request EXCEPT ![c] = [@ EXCEPT !.pc = "resolve", !.key = k]]
           /\ UNCHANGED row
  <2> DEFINE r == [request[c] EXCEPT !.pc = "resolve", !.key = k]
  <2>1. r \in Requests /\ r.pc = "resolve"
    BY DEF Shape, Requests
  <2>2. RowsSound
    BY <1>1, RowUntouched
  <2>3. QED
    BY <1>1, <2>1, <2>2, RequestMoves DEF Lookup
<1>2. CASE \E d \in Made(k) : row' = Aged(d) /\ Answered(c, d, Aged(d))
  <2>1. PICK d \in Decisions : row' = Aged(d) /\ Answered(c, d, Aged(d))
    BY <1>2 DEF Made
  <2>2. RowsSound /\ Aged(d) \in [Decisions -> Rows]
    BY <2>1, RowAged DEF RowsSound
  <2>3. QED
    BY <2>1, <2>2, AnsweredMoves DEF Lookup
<1>3. QED
  BY <1>1, <1>2 DEF Lookup

LEMMA ResolveStep ==
    ASSUME Shape, StatePayload, NEW c \in Clients, Resolve(c)
    PROVE  Sound
<1>1. RowsSound
  BY RowUntouched DEF Resolve
<1>2. CASE head = 0
  BY <1>1, <1>2, RequestEnds DEF Resolve
<1>3. CASE head # 0
  <2> DEFINE r == [request[c] EXCEPT !.pc = "insert", !.decision = head]
  <2>1. request[c] \in Requests /\ head \in Decisions /\ head \in 0..MaxHead
    BY <1>3 DEF Shape
  <2>2. r \in Requests /\ r.decision \in Decisions
    BY <2>1 DEF Requests
  <2>3. request' = [request EXCEPT ![c] = r]
    BY <1>3 DEF Resolve
  <2>4. QED
    BY <1>1, <2>2, <2>3, RequestMoves DEF Resolve
<1>4. QED
  BY <1>2, <1>3

LEMMA InsertStep ==
    ASSUME Shape, StatePayload, NEW c \in Clients, Insert(c)
    PROVE  Sound
<1> DEFINE h == request[c].decision
           created == [NoRow EXCEPT !.status = "PENDING", !.key = request[c].key]
<1>1. CASE request' = [request EXCEPT ![c] = NoRequest] /\ UNCHANGED row
  BY <1>1, RowUntouched, RequestEnds DEF Insert
<1>2. CASE \E d \in Made(request[c].key) : Answered(c, d, row) /\ UNCHANGED row
  <2>1. PICK d \in Decisions : Answered(c, d, row) /\ UNCHANGED row
    BY <1>2 DEF Made
  <2>2. RowsSound
    BY <2>1, RowUntouched
  <2>3. row \in [Decisions -> Rows]
    BY DEF Shape
  <2>4. QED
    BY <2>1, <2>2, <2>3, AnsweredMoves DEF Insert
<1>3. CASE row' = (IF row[h] = NoRow THEN [row EXCEPT ![h] = created] ELSE row)
           /\ Answered(c, h, row')
  <2>1. h \in Decisions
    BY DEF Insert, Shape
  <2>2. created \in Rows /\ Payload(created)
    <3>1. request[c].key \in Keys \cup {NoKey}
      BY DEF Shape, Requests
    <3>2. 0 \in 0..LeaseTTL /\ 0 \in Nat /\ "PENDING" \in Status
      BY DEF Status
    <3>3. created \in Rows
      BY <3>1, <3>2 DEF Rows, NoRow
    <3>4. Payload(created)
      BY DEF Payload, NoRow
    <3>5. QED
      BY <3>3, <3>4
  <2>3. row[h] = NoRow => created.cohort = row[h].cohort /\ ~Busy(h)
    BY <2>1 DEF NoRow, Busy
  <2>4. RowsSound
    <3>1. CASE row[h] = NoRow
      <4>1. row' = [row EXCEPT ![h] = created]
        BY <1>3, <3>1
      <4>2. QED
        BY <2>1, <2>2, <2>3, <3>1, <4>1, RowWritten
    <3>2. CASE row[h] # NoRow
      BY <1>3, <3>2, RowUntouched
    <3>3. QED
      BY <3>1, <3>2
  <2>5. row' \in [Decisions -> Rows]
    BY <2>4 DEF RowsSound
  <2>6. UNCHANGED <<head, worker>>
    BY DEF Insert
  <2>7. Answered(c, h, row')
    BY <1>3
  <2>8. QED
    BY <2>1, <2>4, <2>5, <2>6, <2>7, AnsweredMoves
<1>4. QED
  BY <1>1, <1>2, <1>3 DEF Insert

LEMMA SubmitStep ==
    ASSUME Shape, StatePayload, NEW c \in Clients, Submit(c) \/ RequestLost(c)
    PROVE  Sound
<1>1. CASE Enqueue(c) \/ RequestLost(c)
  BY <1>1, RowUntouched, RequestEnds DEF Enqueue, RequestLost
<1>2. QED
  BY <1>1, LookupStep, ResolveStep, InsertStep DEF Submit
-----------------------------------------------------------------------------
(* The worker.                                                             *)
LEMMA ReceiveStep ==
    ASSUME Shape, StatePayload, NEW w \in Workers, Receive(w)
    PROVE  Sound
<1>1. PICK d \in Decisions, r \in 0..MaxRetries :
         worker' = [worker EXCEPT ![w] =
                      [Idle EXCEPT !.pc = "claim", !.decision = d, !.retries = r]]
  BY DEF Receive
<1> DEFINE m == [Idle EXCEPT !.pc = "claim", !.decision = d, !.retries = r]
<1>2. 0 \in 0..LeaseTTL /\ 0 \in Nat /\ d \in 0..MaxHead
  OBVIOUS
<1>3. m \in WorkerStates /\ m.decision = d /\ ~m.beating
  BY <1>2 DEF Idle, WorkerStates
<1>4. RowsSound
  BY RowUntouched DEF Receive
<1>5. QED
  BY <1>1, <1>3, <1>4, WorkerMoves DEF Receive

LEMMA FailedPayload ==
    ASSUME NEW r, r.status = "FAILED", r.attempts \in Nat, r.attempts > 0,
           r.token = 0, r.lease = 0, r.cohort = 0
    PROVE  Payload(r)
BY DEF Payload

LEMMA ClaimStep ==
    ASSUME Shape, StatePayload, NEW w \in Workers, Claim(w)
    PROVE  Sound
<1> DEFINE d == worker[w].decision
<1>1. d \in Decisions /\ row[d] \in Rows /\ Payload(row[d]) /\ worker[w] \in WorkerStates
  BY DEF Claim, Shape, StatePayload
<1>2. UNCHANGED <<head, request>>
  BY DEF Claim
<1>3. CASE row' = Aged(d) /\ Acknowledge(w)
  BY <1>1, <1>2, <1>3, RowAged, WorkerAcknowledges
<1>4. CASE UNCHANGED row /\ Acknowledge(w)
  BY <1>2, <1>4, RowUntouched, WorkerAcknowledges
<1>5. CASE /\ row[d].status \in {"PENDING", "RUNNING", "FAILED"} /\ ~Busy(d)
           /\ row' = [row EXCEPT ![d] = [@ EXCEPT !.status = "FAILED", !.token = 0, !.lease = 0,
                                                  !.attempts = row[d].attempts + 1]]
           /\ Acknowledge(w)
  <2> DEFINE r == [row[d] EXCEPT !.status = "FAILED", !.token = 0, !.lease = 0,
                                 !.attempts = row[d].attempts + 1]
  <2>1. 0 \in 0..LeaseTTL /\ 0 \in Nat /\ "FAILED" \in Status /\ row[d].attempts + 1 \in Nat
    BY <1>1 DEF Rows, Status
  <2>2. r \in Rows
    BY <1>1, <2>1 DEF Rows
  <2>3. Payload(r) /\ r.cohort = row[d].cohort
    <3>1. row[d].cohort = 0 /\ row[d].attempts \in Nat
      BY <1>1, <1>5 DEF Payload, Rows
    <3>2. /\ r.status = "FAILED" /\ r.attempts = row[d].attempts + 1 /\ r.token = 0
          /\ r.lease = 0 /\ r.cohort = row[d].cohort
      BY <1>1 DEF Rows
    <3>3. r.attempts \in Nat /\ r.attempts > 0
      BY <3>1, <3>2
    <3>4. QED
      BY <3>1, <3>2, <3>3, FailedPayload
  <2>4. row' = [row EXCEPT ![d] = r]
    BY <1>5
  <2>5. RowsSound
    BY <1>1, <1>5, <2>2, <2>3, <2>4, RowWritten
  <2>6. QED
    BY <1>2, <1>5, <2>5, WorkerAcknowledges
<1>6. CASE /\ row[d].status \in {"PENDING", "RUNNING", "FAILED"} /\ ~Busy(d)
           /\ TakeClaim(w, d)
  <2> DEFINE n == row[d].attempts + 1
             r == [row[d] EXCEPT !.status = "RUNNING", !.attempts = n,
                                 !.token = n, !.lease = LeaseTTL]
             m == [worker[w] EXCEPT !.pc = "produce", !.token = n,
                     !.lease = LeaseTTL, !.renewed = LeaseTTL, !.beating = TRUE]
  <2>1. LeaseTTL \in 0..LeaseTTL /\ "RUNNING" \in Status /\ n \in Nat /\ n > 0
    BY <1>1 DEF Rows, Status
  <2>2. r \in Rows
    BY <1>1, <2>1 DEF Rows
  <2>3. Payload(r) /\ r.cohort = row[d].cohort
    BY <1>1, <1>6, <2>1 DEF Payload, Rows
  <2>4. row' = [row EXCEPT ![d] = r] /\ worker' = [worker EXCEPT ![w] = m]
    BY <1>6 DEF TakeClaim
  <2>5. RowsSound
    BY <1>1, <1>6, <2>2, <2>3, <2>4, RowWritten
  <2>6. m \in WorkerStates /\ m.decision \in Decisions /\ m.pc = "produce"
    BY <1>1, <2>1 DEF WorkerStates
  <2>7. QED
    BY <1>2, <2>4, <2>5, <2>6, WorkerMoves
<1>7. QED
  BY <1>3, <1>4, <1>5, <1>6 DEF Claim

(* A renewal changes the lease of the row and nothing else of it.          *)
LEMMA RowRenewed ==
    ASSUME Shape, StatePayload, NEW d \in Decisions, row[d].status = "RUNNING",
           row' = [row EXCEPT ![d].lease = LeaseTTL]
    PROVE  RowsSound
<1> DEFINE r == [row[d] EXCEPT !.lease = LeaseTTL]
<1>1. row[d] \in Rows /\ Payload(row[d]) /\ LeaseTTL \in 0..LeaseTTL
  BY DEF Shape, StatePayload
<1>2. r \in Rows /\ r.cohort = row[d].cohort /\ r.token = row[d].token
  BY <1>1 DEF Rows
<1>3. Payload(r)
  BY <1>1 DEF Payload, Rows
<1>4. row' = [row EXCEPT ![d] = r]
  OBVIOUS
<1>5. QED
  BY <1>2, <1>3, <1>4, RowWritten

LEMMA HeartbeatStep ==
    ASSUME Shape, StatePayload, NEW w \in Workers, Renew(w) \/ RenewFails(w)
    PROVE  Sound
<1> DEFINE renewal == [worker[w] EXCEPT !.renewed = LeaseTTL]
           stopped == [worker[w] EXCEPT !.beating = FALSE]
<1>1. /\ worker[w] \in WorkerStates /\ worker[w].beating /\ worker[w].pc = "produce"
      /\ worker[w].decision \in Decisions /\ LeaseTTL \in 0..LeaseTTL
  BY DEF Renew, RenewFails, Shape
<1>2. /\ renewal \in WorkerStates /\ renewal.pc = "produce" /\ renewal.decision \in Decisions
      /\ stopped \in WorkerStates /\ ~stopped.beating /\ stopped.decision \in Decisions
  BY <1>1 DEF WorkerStates
<1>3. \/ UNCHANGED row
      \/ /\ row[worker[w].decision].status = "RUNNING"
         /\ row' = [row EXCEPT ![worker[w].decision].lease = LeaseTTL]
  BY DEF Renew, RenewFails, ClaimStands
<1>4. RowsSound
  BY <1>1, <1>3, RowUntouched, RowRenewed
<1>5. /\ UNCHANGED <<head, request>>
      /\ \/ worker' = [worker EXCEPT ![w] = renewal]
         \/ worker' = [worker EXCEPT ![w] = stopped]
  BY DEF Renew, RenewFails
<1>6. QED
  BY <1>2, <1>4, <1>5, WorkerMoves

LEMMA FinishStep ==
    ASSUME Shape, StatePayload, NEW w \in Workers, FinishProduction(w)
    PROVE  Sound
<1> DEFINE m == [worker[w] EXCEPT !.beating = FALSE, !.renewed = 0,
                   !.pc = IF worker[w].beating THEN "commit" ELSE "fail",
                   !.lease = IF worker[w].beating THEN worker[w].renewed ELSE worker[w].lease]
<1>1. worker[w] \in WorkerStates /\ worker[w].decision \in Decisions /\ 0 \in 0..LeaseTTL
  BY DEF FinishProduction, Shape
<1>2. m \in WorkerStates /\ ~m.beating /\ m.decision \in Decisions
  <2>1. CASE worker[w].beating
    BY <1>1, <2>1 DEF WorkerStates
  <2>2. CASE ~worker[w].beating
    BY <1>1, <2>2 DEF WorkerStates
  <2>3. QED
    BY <2>1, <2>2
<1>3. RowsSound
  BY RowUntouched DEF FinishProduction
<1>4. worker' = [worker EXCEPT ![w] = m] /\ UNCHANGED <<head, request>>
  BY DEF FinishProduction
<1>5. QED
  BY <1>2, <1>3, <1>4, WorkerMoves

(* A fenced write ends the claim of the worker that makes it.              *)
LEMMA FencedWrite ==
    ASSUME Shape, StatePayload, NEW w \in Workers, worker[w].decision \in Decisions,
           ClaimStands(w, worker[w].lease), Acknowledge(w),
           UNCHANGED <<head, request>>,
           \/ Unclaimed(worker[w].decision, "FAILED")
           \/ head = worker[w].decision /\ Publish(w, worker[w].decision)
    PROVE  Sound
<1> DEFINE d == worker[w].decision
           failed == [row[d] EXCEPT !.status = "FAILED", !.token = 0, !.lease = 0]
           ready == [row[d] EXCEPT !.status = "READY", !.cohort = worker[w].token,
                                   !.token = 0, !.lease = 0]
<1>1. row[d] \in Rows /\ Payload(row[d]) /\ worker[w].token \in Nat
  BY DEF Shape, StatePayload, WorkerStates
<1>2. row[d].status = "RUNNING" /\ row[d].token = worker[w].token
  BY DEF ClaimStands
<1>3. worker'[w] = Idle
  BY DEF Acknowledge, Shape
<1>4. 0 \in 0..LeaseTTL /\ 0 \in Nat /\ "FAILED" \in Status /\ "READY" \in Status
  BY DEF Status
<1>5. CASE row' = [row EXCEPT ![d] = failed]
  <2>1. failed \in Rows /\ failed.cohort = row[d].cohort
    BY <1>1, <1>4 DEF Rows
  <2>2. Payload(failed)
    BY <1>1, <1>2 DEF Payload, Rows
  <2>3. RowsSound
    BY <1>2, <1>3, <1>5, <2>1, <2>2, RowWritten
  <2>4. QED
    BY <2>3, WorkerAcknowledges
<1>6. CASE head = d /\ row' = [row EXCEPT ![d] = ready]
  <2>1. ready \in Rows /\ row[d].cohort = 0
    BY <1>1, <1>2, <1>4 DEF Rows, Payload
  <2>2. Payload(ready)
    BY <1>1, <1>2 DEF Payload, Rows
  <2>3. RowsSound
    BY <1>2, <1>3, <1>6, <2>1, <2>2, RowWritten
  <2>4. QED
    BY <2>3, WorkerAcknowledges
<1>7. QED
  BY <1>5, <1>6 DEF Unclaimed, Publish

LEMMA CommitStep ==
    ASSUME Shape, StatePayload, NEW w \in Workers, Commit(w)
    PROVE  Sound
<1>1. worker[w] \in WorkerStates /\ worker[w].decision \in Decisions /\ ~worker[w].beating
  BY DEF Commit, Shape
<1>2. CASE worker' = [worker EXCEPT ![w] = [@ EXCEPT !.pc = "fail"]] /\ UNCHANGED row
  <2> DEFINE m == [worker[w] EXCEPT !.pc = "fail"]
  <2>1. m \in WorkerStates /\ m.decision \in Decisions /\ ~m.beating
    BY <1>1 DEF WorkerStates
  <2>2. QED
    BY <1>2, <2>1, RowUntouched, WorkerMoves DEF Commit
<1>3. QED
  BY <1>1, <1>2, FencedWrite DEF Commit

LEMMA MarkFailedStep ==
    ASSUME Shape, StatePayload, NEW w \in Workers, MarkFailed(w)
    PROVE  Sound
<1>1. worker[w].decision \in Decisions
  BY DEF MarkFailed, Shape
<1>2. CASE ClaimStands(w, worker[w].lease)
  BY <1>1, <1>2, FencedWrite DEF MarkFailed
<1>3. CASE ~ClaimStands(w, worker[w].lease)
  BY <1>3, RowUntouched, WorkerAcknowledges DEF MarkFailed
<1>4. QED
  BY <1>2, <1>3
-----------------------------------------------------------------------------
(* The environment.                                                        *)
LEMMA CrashStep ==
    ASSUME Shape, StatePayload, NEW w \in Workers, Crash(w) \/ Redeliver(w)
    PROVE  Sound
BY RowUntouched, WorkerAcknowledges, NothingMoves DEF Crash, Redeliver

LEMMA RefreshStep ==
    ASSUME Shape, StatePayload, NEW d \in Decisions, RefreshRecord(d)
    PROVE  Sound
BY RowAged, NothingMoves DEF RefreshRecord

LEMMA RouteStep ==
    ASSUME Shape, StatePayload, RouteMoves
    PROVE  Sound
BY RowUntouched DEF RouteMoves, RowsSound, Sound, Shape

LEMMA TickStep ==
    ASSUME Shape, StatePayload, Tick
    PROVE  Sound
<1>1. ASSUME NEW n \in 0..LeaseTTL
      PROVE  Less(n) \in 0..LeaseTTL
  BY DEF Less
<1>2. ASSUME NEW d \in Decisions
      PROVE  /\ row'[d] \in Rows /\ Payload(row'[d])
             /\ row'[d].cohort = row[d].cohort /\ row'[d].token = row[d].token
  <2>1. row[d] \in Rows /\ Payload(row[d])
    BY DEF Shape, StatePayload
  <2>2. row'[d] = [row[d] EXCEPT !.lease = Less(row[d].lease)]
    BY DEF Tick
  <2>3. row[d].lease \in 0..LeaseTTL /\ Less(row[d].lease) \in 0..LeaseTTL
    BY <1>1, <2>1 DEF Rows
  <2>4. row'[d] \in Rows
    BY <2>1, <2>2, <2>3 DEF Rows
  <2>5. row[d].lease = 0 => Less(row[d].lease) = 0
    BY DEF Less
  <2>6. QED
    BY <2>1, <2>2, <2>4, <2>5 DEF Rows, Payload
<1>3. row' \in [Decisions -> Rows]
  BY <1>2 DEF Tick
<1>4. RowsSound
  BY <1>2, <1>3 DEF RowsSound, StatePayload, Publishes, Respects
<1>5. ASSUME NEW w \in Workers
      PROVE  /\ worker'[w] \in WorkerStates /\ worker'[w].pc = worker[w].pc
             /\ worker'[w].decision = worker[w].decision
             /\ worker'[w].beating = worker[w].beating
  <2>1. worker[w] \in WorkerStates
    BY DEF Shape
  <2>2. worker'[w] = [worker[w] EXCEPT !.lease = Less(worker[w].lease),
                                       !.renewed = Less(worker[w].renewed)]
    BY DEF Tick
  <2>3. Less(worker[w].lease) \in 0..LeaseTTL /\ Less(worker[w].renewed) \in 0..LeaseTTL
    BY <1>1, <2>1 DEF WorkerStates
  <2>4. QED
    BY <2>1, <2>2, <2>3 DEF WorkerStates
<1>6. worker' \in [Workers -> WorkerStates]
  BY <1>5 DEF Tick
<1>7. QED
  BY <1>4, <1>5, <1>6 DEF Tick, Shape, RowsSound, Sound

LEMMA StepIsSound ==
    ASSUME Shape, StatePayload, [Next]_vars
    PROVE  Sound
<1>1. CASE UNCHANGED vars
  BY <1>1, RowUntouched, NothingMoves DEF vars
<1>2. CASE Next
  <2>1. CASE \E c \in Clients : Submit(c) \/ RequestLost(c)
    BY <2>1, SubmitStep
  <2>2. CASE \E d \in Decisions : RefreshRecord(d)
    BY <2>2, RefreshStep
  <2>3. CASE \E w \in Workers : Execute(w) \/ Fault(w)
    BY <2>3, ReceiveStep, ClaimStep, HeartbeatStep, FinishStep, CommitStep,
       MarkFailedStep, CrashStep DEF Execute, Fault
  <2>4. QED
    BY <1>2, <2>1, <2>2, <2>3, RouteStep, TickStep DEF Next
<1>3. QED
  BY <1>1, <1>2

(* Shape and StatePayload together are inductive.                          *)
LEMMA RowsAgree == Spec => [](Shape /\ StatePayload)
<1>1. Shape /\ StatePayload /\ [Next]_vars => (Shape /\ StatePayload)'
  BY StepIsSound DEF Sound
<1>2. QED
  BY <1>1, InitShape, PTL DEF Spec

(* The rows always satisfy the CHECK constraint that the database declares *)
(* on them: claim fields exactly while RUNNING, samples exactly once READY *)
(* and of the latest attempt.                                              *)
THEOREM PayloadFollowsStatus == Spec => []StatePayload
BY RowsAgree, PTL

(* Samples are published only for the decision that is the head and are    *)
(* never replaced, whoever retries, crashes, is redelivered or comes late. *)
THEOREM CohortsAreFinal == Spec => CohortIsFinal
<1>1. Shape /\ StatePayload /\ [Next]_vars => [Publishes]_vars
  BY StepIsSound DEF Sound
<1>2. QED
  BY <1>1, RowsAgree, PTL DEF Spec, CohortIsFinal

(* An unexpired claim is given up only by the worker that holds it, in the *)
(* step that ends its work.                                                *)
THEOREM ClaimsAreRespected == Spec => LeaseRespected
<1>1. Shape /\ StatePayload /\ [Next]_vars => [Respects]_vars
  BY StepIsSound DEF Sound
<1>2. QED
  BY <1>1, RowsAgree, PTL DEF Spec, LeaseRespected
-----------------------------------------------------------------------------
(* The broker and the counters, the part of the type invariant that Shape  *)
(* leaves out.                                                             *)
Counters ==
    /\ queue \in [Messages -> Nat]
    /\ requests \in 0..MaxRequests /\ faults \in 0..MaxFaults

(* The broker after a message was put into it or taken out of it.          *)
LEMMA MessageMoves ==
    ASSUME queue \in [Messages -> Nat], NEW d \in Decisions, NEW r \in 0..MaxRetries,
           NEW b \in {0, 1},
           \/ queue' = [queue EXCEPT ![<<d, r, b>>] = @ + 1]
           \/ queue[<<d, r, b>>] > 0 /\ queue' = [queue EXCEPT ![<<d, r, b>>] = @ - 1]
    PROVE  queue' \in [Messages -> Nat]
<1>1. <<d, r, b>> \in Messages
  BY DEF Messages
<1> DEFINE m == <<d, r, b>>
<1> HIDE DEF m
<1>2. m \in Messages /\ queue[m] \in Nat
  BY <1>1 DEF m
<1>3. \/ queue' = [queue EXCEPT ![m] = queue[m] + 1]
      \/ queue[m] > 0 /\ queue' = [queue EXCEPT ![m] = queue[m] - 1]
  BY DEF m
<1>4. QED
  BY <1>2, <1>3

LEMMA SubmitCounts ==
    ASSUME Shape, Counters, NEW c \in Clients, Submit(c) \/ RequestLost(c)
    PROVE  Counters'
<1>1. ASSUME NEW k \in Keys, Lookup(c, k) PROVE Counters'
  BY <1>1 DEF Lookup, Counters
<1>2. CASE Resolve(c) \/ Insert(c) \/ RequestLost(c)
  BY <1>2 DEF Resolve, Insert, RequestLost, Counters
<1>3. CASE Enqueue(c)
  <2>1. request[c].decision \in Decisions /\ 0 \in 0..MaxRetries
    BY <1>3 DEF Enqueue, Shape
  <2>2. queue' = [queue EXCEPT ![<<request[c].decision, 0, 0>>] = @ + 1]
    BY <1>3 DEF Enqueue
  <2>3. queue' \in [Messages -> Nat]
    BY <2>1, <2>2, MessageMoves DEF Counters
  <2>4. QED
    BY <1>3, <2>3 DEF Enqueue, Counters
<1>4. QED
  BY <1>1, <1>2, <1>3 DEF Submit

LEMMA WorkerCounts ==
    ASSUME Shape, Counters, NEW w \in Workers, Execute(w) \/ Fault(w)
    PROVE  Counters'
<1>1. worker[w] \in WorkerStates /\ queue \in [Messages -> Nat]
  BY DEF Shape, Counters
<1>2. CASE Receive(w)
  <2>1. PICK d \in Decisions, r \in 0..MaxRetries :
           queue[<<d, r, 0>>] > 0 /\ queue' = [queue EXCEPT ![<<d, r, 0>>] = @ - 1]
    BY <1>2 DEF Receive
  <2>2. queue' \in [Messages -> Nat]
    BY <1>1, <2>1, MessageMoves
  <2>3. QED
    BY <1>2, <2>2 DEF Receive, Counters
<1>3. CASE Claim(w)
  <2>1. CASE UNCHANGED queue
    BY <1>3, <2>1 DEF Claim, Counters
  <2>2. CASE RetryLater(w) /\ worker[w].retries < MaxRetries
    <3>0. worker[w].retries \in 0..MaxRetries /\ worker[w].retries < MaxRetries
      BY <1>1, <2>2 DEF WorkerStates
    <3>1. worker[w].decision \in Decisions /\ worker[w].retries + 1 \in 0..MaxRetries
      BY <1>3, <3>0 DEF Claim, Shape
    <3>2. queue' = [queue EXCEPT ![<<worker[w].decision, worker[w].retries + 1, 1>>] = @ + 1]
      BY <2>2 DEF RetryLater
    <3>3. queue' \in [Messages -> Nat]
      BY <1>1, <3>1, <3>2, MessageMoves
    <3>4. QED
      BY <1>3, <3>3 DEF Claim, Counters
  <2>3. QED
    BY <1>3, <2>1, <2>2 DEF Claim, RetryLater
<1>4. CASE Renew(w) \/ FinishProduction(w) \/ Commit(w) \/ MarkFailed(w) \/ RenewFails(w)
  BY <1>4 DEF Renew, FinishProduction, Commit, MarkFailed, RenewFails, Counters
<1>5. CASE Crash(w) \/ Redeliver(w)
  <2>1. worker[w].decision \in Decisions /\ worker[w].retries \in 0..MaxRetries
    BY <1>1, <1>5 DEF Crash, Redeliver, Shape, WorkerStates
  <2>2. queue' = [queue EXCEPT ![<<worker[w].decision, worker[w].retries, 0>>] = @ + 1]
    BY <1>5 DEF Crash, Redeliver, Returned
  <2>3. queue' \in [Messages -> Nat]
    BY <1>1, <2>1, <2>2, MessageMoves
  <2>4. QED
    BY <1>5, <2>3 DEF Crash, Redeliver, Counters
<1>6. QED
  BY <1>2, <1>3, <1>4, <1>5 DEF Execute, Fault

(* A tick makes the messages whose countdown ends deliverable.             *)
LEMMA TickCounts ==
    ASSUME Counters, Tick
    PROVE  Counters'
<1>1. ASSUME NEW m \in Messages
      PROVE  queue[m] \in Nat /\ queue[<<m[1], m[2], 1>>] \in Nat
  <2>1. <<m[1], m[2], 1>> \in Messages
    BY DEF Messages
  <2>2. QED
    BY <2>1 DEF Counters
<1>2. \A m \in Messages :
         (IF m[3] = 0 THEN queue[m] + queue[<<m[1], m[2], 1>>] ELSE 0) \in Nat
  <2>1. ASSUME NEW m \in Messages, NEW p \in Nat, NEW q \in Nat
        PROVE  (IF m[3] = 0 THEN p + q ELSE 0) \in Nat
    OBVIOUS
  <2>2. QED
    BY <1>1, <2>1, Zenon
<1>3. queue' \in [Messages -> Nat]
  BY <1>2 DEF Tick
<1>4. QED
  BY <1>3 DEF Tick, Counters

(* Type correctness: tables, broker, requests and workers keep their       *)
(* shape, for every number of them, every route and every bound.           *)
THEOREM TypeCorrect == Spec => []TypeOK
<1>1. Init => Counters
  BY DEF Init, Counters
<1>2. Shape /\ Counters /\ [Next]_vars => Counters'
  <2> SUFFICES ASSUME Shape, Counters, [Next]_vars PROVE Counters'
      OBVIOUS
  <2>1. CASE UNCHANGED vars \/ RouteMoves \/ (\E d \in Decisions : RefreshRecord(d))
    BY <2>1 DEF vars, RouteMoves, RefreshRecord, Counters
  <2>2. QED
    BY <2>1, SubmitCounts, WorkerCounts, TickCounts DEF Next
<1>3. Shape /\ Counters => TypeOK
  BY DEF Shape, Counters, TypeOK
<1>4. QED
  BY <1>1, <1>2, <1>3, RowsAgree, PTL DEF Spec

-----------------------------------------------------------------------------
(***************************************************************************)
(* Responsibility.  Unfinished evidence of the active route is somebody's  *)
(* duty while workers renew in time and calls do not fail, if nothing      *)
(* crashes or, for a single request, if one process dies or one message is *)
(* delivered twice and the retries outlast a lease.  Not every worker that *)
(* has the evidence in hand is of use: one that is late may find its fence *)
(* stale.  The invariant names the one that will not, or, after a crash,   *)
(* the message that is retried until the lease of the dead has run out.    *)
(***************************************************************************)
Orderly ==
    /\ Prompt /\ ~CallsMayFail
    /\ \/ MaxFaults = 0
       \/ MaxFaults = 1 /\ MaxRequests <= 1 /\ LeaseTTL <= MaxRetries

(* Worker w holds the live claim of d, and its fence holds.                *)
Holder(w, d) ==
    /\ worker[w].decision = d /\ worker[w].token = row[d].token /\ row[d].lease > 0
    /\ \/ /\ worker[w].pc = "produce" /\ worker[w].beating
          /\ worker[w].renewed = row[d].lease
       \/ worker[w].pc \in {"commit", "fail"} /\ worker[w].lease = row[d].lease

AtClaim(w, d) == worker[w].pc = "claim" /\ worker[w].decision = d
AboutToSend(c, d) == request[c].pc = "enqueue" /\ request[c].decision = d

Taken(d) ==
    \/ \E c \in Clients : AboutToSend(c, d)
    \/ \E m \in Messages : m[1] = d /\ queue[m] > 0
    \/ \E w \in Workers : AtClaim(w, d)

(* The retries that are left outlast the lease.                            *)
InTime(r, d) == row[d].lease = 0 \/ r + row[d].lease <= LeaseTTL

Patient(d) ==
    \/ \E m \in Messages : m[1] = d /\ queue[m] > 0 /\ InTime(m[2] - m[3], d)
    \/ \E w \in Workers : AtClaim(w, d) /\ InTime(worker[w].retries, d)

Unseen == \A d \in Decisions : d > head => row[d] = NoRow
Expected == head > 0 /\ row[head].status = "PENDING" => Taken(head)
Attended ==
    head > 0 /\ row[head].status = "RUNNING" =>
        (\E w \in Workers : Holder(w, head)) \/ (faults = 1 /\ Patient(head))

DutyInv == Unseen /\ Expected /\ Attended

Facts == Shape /\ StatePayload /\ Counters

(* One request is one message: before the first fault it is with a client, *)
(* at the broker or with a worker, and for the active route never retried. *)
NoRequests == \A c \in Clients : request[c].pc = "idle"
NoMessages == \A m \in Messages : queue[m] = 0
NoWork == \A w \in Workers : worker[w].pc = "idle"
Fresh(d, r) == d <= head /\ (d = head => r = 0)

Sensible(r) ==
    /\ r.pc \in {"resolve", "insert"} => r.key \in Keys
    /\ r.pc \in {"insert", "enqueue"} => r.decision <= head

OneRequest ==
    \E c \in Clients : /\ Sensible(request[c])
                       /\ \A b \in Clients \ {c} : request[b].pc = "idle"
OneMessage ==
    \E m \in Messages : /\ Fresh(m[1], m[2]) /\ queue[m] = 1
                        /\ \A n \in Messages \ {m} : queue[n] = 0
OneWorker ==
    \E w \in Workers : /\ Fresh(worker[w].decision, worker[w].retries)
                       /\ \A v \in Workers \ {w} : worker[v].pc = "idle"

Solo ==
    \/ NoRequests /\ NoMessages /\ NoWork
    \/ requests > 0 /\ OneRequest /\ NoMessages /\ NoWork
    \/ requests > 0 /\ NoRequests /\ OneMessage /\ NoWork
    \/ requests > 0 /\ NoRequests /\ NoMessages /\ OneWorker

SoloInv == MaxRequests <= 1 /\ faults = 0 => Solo

-----------------------------------------------------------------------------
LEMMA MessageAt ==
    ASSUME NEW d \in Decisions, NEW r \in 0..MaxRetries, NEW p \in {0, 1}
    PROVE  /\ <<d, r, p>> \in Messages
           /\ <<d, r, p>>[1] = d /\ <<d, r, p>>[2] = r /\ <<d, r, p>>[3] = p
  BY DEF Messages

LEMMA MessageExists ==
    ASSUME NEW d \in Decisions, NEW r \in 0..MaxRetries
    PROVE  /\ \E m \in Messages : m = <<d, r, 0>> /\ m[1] = d /\ m[2] = r /\ m[3] = 0
           /\ \E m \in Messages : m = <<d, r, 1>> /\ m[1] = d /\ m[2] = r /\ m[3] = 1
<1>1. 0 \in {0, 1} /\ 1 \in {0, 1}
  OBVIOUS
<1>2. /\ <<d, r, 0>> \in Messages
      /\ <<d, r, 0>>[1] = d /\ <<d, r, 0>>[2] = r /\ <<d, r, 0>>[3] = 0
  BY <1>1, MessageAt
<1>3. /\ <<d, r, 1>> \in Messages
      /\ <<d, r, 1>>[1] = d /\ <<d, r, 1>>[2] = r /\ <<d, r, 1>>[3] = 1
  BY <1>1, MessageAt
<1>4. QED
  BY <1>2, <1>3, Zenon

(* A message was put into the broker, or taken out of it.                  *)
LEMMA MessageSent ==
    ASSUME queue \in [Messages -> Nat], NEW m \in Messages, queue' = [queue EXCEPT ![m] = @ + 1]
    PROVE  /\ queue'[m] = queue[m] + 1 /\ \A n \in Messages \ {m} : queue'[n] = queue[n]
           /\ queue'[m] > 0 /\ \A n \in Messages : queue[n] > 0 => queue'[n] > 0
  OBVIOUS

LEMMA MessageTaken ==
    ASSUME queue \in [Messages -> Nat], NEW m \in Messages, queue' = [queue EXCEPT ![m] = @ - 1]
    PROVE  queue'[m] = queue[m] - 1 /\ \A n \in Messages \ {m} : queue'[n] = queue[n]
  OBVIOUS

(* Nothing of decision d got lost.                                         *)
LEMMA TakenKept ==
    ASSUME NEW d, \A c \in Clients : AboutToSend(c, d) => AboutToSend(c, d)',
           \A m \in Messages : m[1] = d /\ queue[m] > 0 => queue'[m] > 0,
           \A w \in Workers : AtClaim(w, d) => AtClaim(w, d)', Taken(d)
    PROVE  Taken(d)'
  BY DEF Taken

LEMMA PatientKept ==
    ASSUME NEW d, row'[d].lease = row[d].lease,
           \A m \in Messages : m[1] = d /\ queue[m] > 0 => queue'[m] > 0,
           \A w \in Workers : AtClaim(w, d) => worker'[w] = worker[w], Patient(d)
    PROVE  Patient(d)'
  BY DEF Patient, InTime, AtClaim

(* A transaction that leaves the row of the head alone and the duty with   *)
(* those that have it.                                                     *)
LEMMA DutyKept ==
    ASSUME DutyInv, head' = head, faults' = faults, head > 0 => row'[head] = row[head],
           \A c \in Clients : AboutToSend(c, head) => AboutToSend(c, head)',
           \A m \in Messages : m[1] = head /\ queue[m] > 0 => queue'[m] > 0,
           \A w \in Workers : /\ AtClaim(w, head) => worker'[w] = worker[w]
                              /\ head > 0 /\ Holder(w, head) => Holder(w, head)'
    PROVE  Expected' /\ Attended'
<1>0. \A w \in Workers : AtClaim(w, head) => AtClaim(w, head)'
  BY DEF AtClaim
<1>1. Expected'
  BY <1>0, TakenKept DEF DutyInv, Expected, AboutToSend, AtClaim, Taken
<1>2. Attended'
  <2>1. SUFFICES ASSUME head > 0, row[head].status = "RUNNING"
                 PROVE  (\E w \in Workers : Holder(w, head)') \/ (faults = 1 /\ Patient(head)')
    BY DEF Attended, Holder, Patient, InTime, AtClaim
  <2>2. QED
    BY <2>1, PatientKept DEF DutyInv, Attended
<1>3. QED
  BY <1>1, <1>2

-----------------------------------------------------------------------------
(* The HTTP side.                                                          *)
LEMMA AgedKeepsHead ==
    ASSUME Facts, Unseen, NEW d \in Decisions, row' = Aged(d), head' = head
    PROVE  Unseen' /\ (head > 0 => row'[head] = row[head])
  BY DEF Facts, Shape, Unseen, Aged, NoRow

(* The requests that are about to send keep their place.                   *)
LEMMA OthersSend ==
    ASSUME Facts, NEW c \in Clients, NEW r, request' = [request EXCEPT ![c] = r],
           request[c].pc # "enqueue", NEW d
    PROVE  \A b \in Clients : AboutToSend(b, d) => AboutToSend(b, d)'
  BY DEF Facts, Shape, AboutToSend

LEMMA SubmitDuty ==
    ASSUME Orderly, Facts, DutyInv, NEW c \in Clients, Submit(c) \/ RequestLost(c)
    PROVE  DutyInv'
<1>0. /\ request \in [Clients -> Requests] /\ request[c] \in Requests
      /\ row \in [Decisions -> Rows] /\ head \in 0..MaxHead
      /\ Unseen /\ queue \in [Messages -> Nat]
  BY DEF Facts, Shape, Counters, DutyInv
<1>1. ASSUME NEW k \in Keys, Lookup(c, k) PROVE DutyInv'
  <2>1. UNCHANGED <<head, queue, worker, faults>> /\ request[c].pc = "idle"
    BY <1>1 DEF Lookup
  <2>2. PICK r : request' = [request EXCEPT ![c] = r]
    BY <1>1 DEF Lookup, Answered
  <2>3. \A b \in Clients : AboutToSend(b, head) => AboutToSend(b, head)'
    BY <2>1, <2>2, OthersSend
  <2>4. Unseen' /\ (head > 0 => row'[head] = row[head])
    <3>1. CASE UNCHANGED row
      BY <1>0, <2>1, <3>1 DEF Unseen
    <3>2. ASSUME NEW d \in Made(k), row' = Aged(d)
          PROVE  Unseen' /\ (head > 0 => row'[head] = row[head])
      BY <2>1, <3>2, AgedKeepsHead DEF Made, DutyInv
    <3>3. QED
      BY <1>1, <3>1, <3>2 DEF Lookup
  <2>5. QED
    BY <2>1, <2>3, <2>4, DutyKept DEF DutyInv, AtClaim, Holder
<1>2. CASE Resolve(c)
  <2>1. UNCHANGED <<head, row, queue, worker, faults>> /\ request[c].pc = "resolve"
    BY <1>2 DEF Resolve
  <2>2. PICK r : request' = [request EXCEPT ![c] = r]
    BY <1>2 DEF Resolve
  <2>3. \A b \in Clients : AboutToSend(b, head) => AboutToSend(b, head)'
    BY <2>1, <2>2, OthersSend
  <2>4. QED
    BY <2>1, <2>3, DutyKept DEF DutyInv, AtClaim, Holder, Unseen
<1>3. CASE Insert(c)
  <2>1. UNCHANGED <<head, queue, worker, faults>> /\ request[c].pc = "insert"
    BY <1>3 DEF Insert
  <2>2. PICK r : request' = [request EXCEPT ![c] = r]
    BY <1>3 DEF Insert, Answered
  <2>3. \A b \in Clients : AboutToSend(b, head) => AboutToSend(b, head)'
    BY <2>1, <2>2, OthersSend
  <2>4. CASE UNCHANGED row
    BY <2>1, <2>3, <2>4, DutyKept DEF DutyInv, AtClaim, Holder, Unseen
  <2>5. CASE ~UNCHANGED row
    <3>1. PICK h \in Decisions : h = head
      BY <1>0, <1>3, <2>5 DEF Insert, Facts, Shape
    <3>2. /\ row' = [row EXCEPT ![h] = [NoRow EXCEPT !.status = "PENDING",
                                                     !.key = request[c].key]]
          /\ Answered(c, h, row')
      BY <1>3, <2>5, <3>1 DEF Insert
    <3>3. row'[h].status = "PENDING" /\ \A d \in Decisions \ {h} : row'[d] = row[d]
      BY <1>0, <3>2 DEF NoRow
    <3>4. AboutToSend(c, h)'
      BY <1>0, <3>2 DEF AboutToSend, Answered, Requests
    <3>5. Unseen' /\ Expected' /\ Attended'
      BY <1>0, <2>1, <3>1, <3>3, <3>4 DEF Unseen, Expected, Attended, Taken
    <3>6. QED
      BY <3>5 DEF DutyInv
  <2>6. QED
    BY <2>4, <2>5
<1>4. CASE Enqueue(c)
  <2>1. UNCHANGED <<head, row, worker, faults>>
    BY <1>4 DEF Enqueue
  <2>2. PICK d \in Decisions : d = request[c].decision
    BY <1>4 DEF Enqueue, Facts, Shape
  <2>3. PICK m \in Messages : m = <<d, 0, 0>> /\ m[1] = d
    <3>1. 0 \in 0..MaxRetries /\ 0 \in {0, 1}
      OBVIOUS
    <3>2. <<d, 0, 0>> \in Messages /\ <<d, 0, 0>>[1] = d
      BY <3>1, MessageAt
    <3>3. QED
      BY <3>2
  <2>4. queue' = [queue EXCEPT ![m] = @ + 1]
    BY <1>4, <2>2, <2>3 DEF Enqueue
  <2>5. queue'[m] > 0 /\ \A n \in Messages : queue[n] > 0 => queue'[n] > 0
    BY <1>0, <2>4, MessageSent
  <2>6. CASE d = head
    <3>1. Taken(head)'
      BY <2>1, <2>3, <2>5, <2>6 DEF Taken
    <3>2. Attended'
      BY <2>1, <2>5, PatientKept DEF DutyInv, Attended, Holder
    <3>3. QED
      BY <2>1, <3>1, <3>2 DEF DutyInv, Unseen, Expected
  <2>7. CASE d # head
    <3>1. \A b \in Clients : AboutToSend(b, head) => AboutToSend(b, head)'
      BY <1>0, <1>4, <2>2, <2>7 DEF AboutToSend, Enqueue
    <3>2. QED
      BY <2>1, <2>5, <3>1, DutyKept DEF DutyInv, AtClaim, Holder, Unseen
  <2>8. QED
    BY <2>6, <2>7
<1>5. ~RequestLost(c)
  BY DEF RequestLost, Orderly
<1>6. QED
  BY <1>1, <1>2, <1>3, <1>4, <1>5 DEF Submit

LEMMA RefreshDuty ==
    ASSUME Facts, DutyInv, NEW d \in Decisions, RefreshRecord(d)
    PROVE  DutyInv'
<1>1. UNCHANGED <<head, queue, request, worker, faults>> /\ row' = Aged(d)
  BY DEF RefreshRecord
<1>2. Unseen' /\ (head > 0 => row'[head] = row[head])
  BY <1>1, AgedKeepsHead DEF DutyInv
<1>3. QED
  BY <1>1, <1>2, DutyKept DEF DutyInv, AtClaim, Holder, AboutToSend

-----------------------------------------------------------------------------
(* The workers.                                                            *)
LEMMA ReceiveDuty ==
    ASSUME Facts, DutyInv, NEW w \in Workers, Receive(w)
    PROVE  DutyInv'
<1>0. worker \in [Workers -> WorkerStates] /\ queue \in [Messages -> Nat]
      /\ UNCHANGED <<head, row, request, faults>> /\ worker[w].pc = "idle"
  BY DEF Facts, Shape, Counters, Receive
<1>1. PICK d \in Decisions, r \in 0..MaxRetries :
          /\ queue[<<d, r, 0>>] > 0
          /\ queue' = [queue EXCEPT ![<<d, r, 0>>] = @ - 1]
          /\ worker' = [worker EXCEPT ![w] =
                [Idle EXCEPT !.pc = "claim", !.decision = d, !.retries = r]]
  BY DEF Receive
<1>2. PICK m \in Messages : m = <<d, r, 0>> /\ m[1] = d /\ m[2] = r /\ m[3] = 0
  BY MessageExists
<1>3. \A n \in Messages \ {m} : queue'[n] = queue[n]
  BY <1>0, <1>1, <1>2, MessageTaken
<1>4. /\ worker'[w].pc = "claim" /\ worker'[w].decision = d /\ worker'[w].retries = r
      /\ \A v \in Workers \ {w} : worker'[v] = worker[v]
  BY <1>0, <1>1 DEF Idle
<1>5. \A v \in Workers : /\ AtClaim(v, head) => worker'[v] = worker[v]
                         /\ Holder(v, head) => Holder(v, head)'
  BY <1>0, <1>4 DEF AtClaim, Holder
<1>6. CASE d = head
  <2>1. Taken(head)'
    BY <1>0, <1>4, <1>6 DEF Taken, AtClaim
  <2>2. Patient(head) => Patient(head)'
    <3>1. ASSUME NEW n \in Messages, n[1] = head, queue[n] > 0, InTime(n[2] - n[3], head)
          PROVE  Patient(head)'
      <4>1. CASE n = m
        <5>1. InTime(r, head)
          BY <1>2, <3>1, <4>1 DEF InTime
        <5>2. QED
          BY <1>0, <1>4, <1>6, <5>1 DEF Patient, AtClaim, InTime
      <4>2. CASE n # m
        BY <1>0, <1>3, <3>1, <4>2 DEF Patient, InTime
      <4>3. QED
        BY <4>1, <4>2
    <3>2. ASSUME NEW v \in Workers, AtClaim(v, head), InTime(worker[v].retries, head)
          PROVE  Patient(head)'
      BY <1>0, <1>5, <3>2 DEF Patient, InTime, AtClaim
    <3>3. QED
      BY <3>1, <3>2 DEF Patient
  <2>3. Attended'
    BY <1>0, <1>5, <2>2 DEF DutyInv, Attended
  <2>4. QED
    BY <1>0, <2>1, <2>3 DEF DutyInv, Unseen, Expected
<1>7. CASE d # head
  <2>1. \A n \in Messages : n[1] = head /\ queue[n] > 0 => queue'[n] > 0
    BY <1>2, <1>3, <1>7
  <2>2. QED
    BY <1>0, <1>5, <2>1, DutyKept DEF DutyInv, AboutToSend, Unseen
<1>8. QED
  BY <1>6, <1>7

(* A Busy claim loses no message, and sends its own again while it may.    *)
LEMMA RetrySent ==
    ASSUME Facts, NEW w \in Workers, worker[w].decision \in Decisions, RetryLater(w)
    PROVE  /\ \A n \in Messages : queue[n] > 0 => queue'[n] > 0
           /\ worker[w].retries < MaxRetries =>
                 \E m \in Messages : /\ m[1] = worker[w].decision
                                     /\ m[2] - m[3] = worker[w].retries
                                     /\ queue'[m] > 0
<1>0. worker[w].retries \in 0..MaxRetries /\ queue \in [Messages -> Nat]
  BY DEF Facts, Shape, Counters, WorkerStates
<1>1. CASE worker[w].retries < MaxRetries
  <2>1. PICK r \in 0..MaxRetries, d \in Decisions :
            r = worker[w].retries + 1 /\ d = worker[w].decision
    BY <1>0, <1>1
  <2>2. PICK m \in Messages : m = <<d, r, 1>> /\ m[1] = d /\ m[2] = r /\ m[3] = 1
    BY MessageExists
  <2>3. queue' = [queue EXCEPT ![m] = @ + 1]
    BY <1>1, <2>1, <2>2 DEF RetryLater
  <2>4. queue'[m] > 0 /\ \A n \in Messages : queue[n] > 0 => queue'[n] > 0
    BY <1>0, <2>3, MessageSent
  <2>5. m[2] - m[3] = worker[w].retries
    BY <1>0, <2>1, <2>2
  <2>6. QED
    BY <2>1, <2>2, <2>4, <2>5
<1>2. CASE ~(worker[w].retries < MaxRetries)
  BY <1>2 DEF RetryLater
<1>3. QED
  BY <1>1, <1>2

(* A claim of the head is granted, or found held, or tried again in time.  *)
LEMMA ClaimDuty ==
    ASSUME Orderly, Facts, DutyInv, NEW w \in Workers, Claim(w)
    PROVE  DutyInv'
<1>0. /\ worker \in [Workers -> WorkerStates] /\ worker[w] \in WorkerStates
      /\ row \in [Decisions -> Rows] /\ queue \in [Messages -> Nat] /\ head \in 0..MaxHead
      /\ UNCHANGED <<head, request, faults>> /\ worker[w].pc = "claim"
  BY DEF Facts, Shape, Counters, Claim
<1>1. PICK d \in Decisions : d = worker[w].decision
  BY <1>0 DEF Facts, Shape
<1>2. \A v \in Workers \ {w} : worker'[v] = worker[v]
  BY <1>0 DEF Claim, Acknowledge, TakeClaim
<1>3. \A c \in Clients : AboutToSend(c, head) => AboutToSend(c, head)'
  BY <1>0 DEF AboutToSend
<1>4. ~\E e \in Decisions : Holder(w, e)
  BY <1>0 DEF Holder
<1>5. CASE TakeClaim(w, d) /\ head = d /\ UNCHANGED queue
  <2> DEFINE n == row[d].attempts + 1
  <2>1. /\ row'[d].status = "RUNNING" /\ row'[d].token = n /\ row'[d].lease = LeaseTTL
        /\ \A e \in Decisions \ {d} : row'[e] = row[e]
    BY <1>0, <1>5 DEF TakeClaim, Rows
  <2>2. /\ worker'[w].decision = d /\ worker'[w].token = n /\ worker'[w].pc = "produce"
        /\ worker'[w].beating /\ worker'[w].renewed = LeaseTTL
    BY <1>0, <1>1, <1>5 DEF TakeClaim, WorkerStates
  <2>3. Holder(w, head)'
    BY <1>0, <1>5, <2>1, <2>2 DEF Holder
  <2>4. Unseen'
    BY <1>0, <1>5, <2>1 DEF DutyInv, Unseen
  <2>5. QED
    BY <1>0, <1>5, <2>1, <2>3, <2>4 DEF DutyInv, Expected, Attended
<1>6. CASE head # d
  <2>1. \A e \in Decisions \ {d} : row'[e] = row[e]
    BY <1>0, <1>1 DEF Claim, Aged, TakeClaim
  <2>2. row[d] = NoRow => row'[d] = row[d]
    BY <1>0, <1>1 DEF Claim, Aged, TakeClaim, NoRow, Busy
  <2>3. \A m \in Messages : m[1] = head /\ queue[m] > 0 => queue'[m] > 0
    <3>1. CASE UNCHANGED queue
      BY <3>1
    <3>2. CASE RetryLater(w)
      BY <1>1, <3>2, RetrySent
    <3>3. QED
      BY <3>1, <3>2 DEF Claim
  <2>4. \A v \in Workers : /\ AtClaim(v, head) => worker'[v] = worker[v]
                           /\ head > 0 /\ Holder(v, head) => Holder(v, head)'
    BY <1>0, <1>1, <1>2, <1>4, <1>6, <2>1 DEF AtClaim, Holder
  <2>5. Unseen'
    BY <1>0, <2>1, <2>2 DEF DutyInv, Unseen
  <2>6. QED
    BY <1>0, <1>3, <1>6, <2>1, <2>3, <2>4, <2>5, DutyKept DEF DutyInv
<1>7. CASE row[d].status \in {"READY", "STALE"} /\ head = d
  <2>1. UNCHANGED row
    BY <1>1, <1>7 DEF Claim, Aged, Busy
  <2>2. QED
    BY <1>0, <1>7, <2>1 DEF DutyInv, Unseen, Expected, Attended
<1>8. CASE Busy(d) /\ head = d
  <2>1. RetryLater(w) /\ UNCHANGED row
    BY <1>1, <1>8 DEF Claim, Busy
  <2>2. CASE \E v \in Workers : Holder(v, head)
    <3>1. \E v \in Workers : Holder(v, head)'
      BY <1>0, <1>2, <1>4, <1>8, <2>1, <2>2 DEF Holder
    <3>2. QED
      BY <1>0, <1>8, <2>1, <3>1 DEF DutyInv, Unseen, Expected, Attended, Busy
  <2>3. CASE ~\E v \in Workers : Holder(v, head)
    <3>1. faults = 1 /\ Patient(head) /\ LeaseTTL <= MaxRetries
      BY <1>8, <2>3 DEF DutyInv, Attended, Busy, Orderly, Facts, Counters
    <3>2. row[d].lease \in 1..LeaseTTL
      BY <1>0, <1>8 DEF Rows, Busy
    <3>3. Patient(head)'
      <4>1. CASE InTime(worker[w].retries, head)
        <5>1. worker[w].retries < MaxRetries /\ worker[w].retries + 1 \in 0..MaxRetries
          BY <1>0, <1>8, <3>1, <3>2, <4>1 DEF InTime, WorkerStates
        <5>2. PICK m \in Messages : /\ m[1] = d /\ m[2] - m[3] = worker[w].retries
                                    /\ queue'[m] > 0
          BY <1>1, <2>1, <5>1, RetrySent
        <5>3. QED
          BY <1>0, <1>8, <2>1, <4>1, <5>2 DEF Patient, InTime
      <4>2. ASSUME NEW v \in Workers \ {w}, AtClaim(v, head), InTime(worker[v].retries, head)
            PROVE  Patient(head)'
        BY <1>0, <1>2, <2>1, <4>2 DEF Patient, InTime, AtClaim
      <4>3. ASSUME NEW n \in Messages, n[1] = head, queue[n] > 0, InTime(n[2] - n[3], head)
            PROVE  Patient(head)'
        <5>1. queue'[n] > 0
          BY <1>1, <2>1, <4>3, RetrySent
        <5>2. QED
          BY <1>0, <2>1, <4>3, <5>1 DEF Patient, InTime
      <4>4. QED
        BY <3>1, <4>1, <4>2, <4>3 DEF Patient
    <3>4. QED
      BY <1>0, <1>8, <2>1, <3>1, <3>3 DEF DutyInv, Unseen, Expected, Attended, Busy
  <2>4. QED
    BY <2>2, <2>3
<1>9. QED
  BY <1>1, <1>5, <1>6, <1>7, <1>8 DEF Claim

(* A worker past its claim that leaves the row of the head alone.          *)
LEMMA WorkerKept ==
    ASSUME Facts, DutyInv, NEW w \in Workers, NEW m, worker' = [worker EXCEPT ![w] = m],
           worker[w].pc # "claim", UNCHANGED <<head, queue, request, faults>>, Unseen',
           head > 0 => row'[head] = row[head],
           head > 0 /\ Holder(w, head) => Holder(w, head)'
    PROVE  DutyInv'
<1>1. \A v \in Workers \ {w} : worker'[v] = worker[v]
  BY DEF Facts, Shape
<1>2. \A v \in Workers : /\ AtClaim(v, head) => worker'[v] = worker[v]
                         /\ head > 0 /\ Holder(v, head) => Holder(v, head)'
  BY <1>1 DEF AtClaim, Holder
<1>3. QED
  BY <1>2, DutyKept DEF DutyInv, AboutToSend

(* The heartbeat of the holder finds its claim standing, and whoever       *)
(* renews a claim is its holder.                                           *)
LEMMA RenewDuty ==
    ASSUME Facts, DutyInv, NEW w \in Workers, Renew(w)
    PROVE  DutyInv'
<1>0. /\ worker \in [Workers -> WorkerStates] /\ worker[w] \in WorkerStates
      /\ row \in [Decisions -> Rows] /\ head \in 0..MaxHead
      /\ UNCHANGED <<head, queue, request, faults>>
      /\ worker[w].pc = "produce" /\ worker[w].beating
  BY DEF Facts, Shape, Renew
<1>1. PICK d \in Decisions : d = worker[w].decision
  BY <1>0 DEF Facts, Shape
<1>2. CASE /\ head = d /\ ClaimStands(w, worker[w].renewed)
           /\ row' = [row EXCEPT ![d].lease = LeaseTTL]
           /\ worker' = [worker EXCEPT ![w].renewed = LeaseTTL]
  <2>1. /\ row'[d].lease = LeaseTTL /\ row'[d].token = row[d].token
        /\ row'[d].status = "RUNNING" /\ row[d].token = worker[w].token
        /\ \A e \in Decisions \ {d} : row'[e] = row[e]
    BY <1>0, <1>1, <1>2 DEF Rows, ClaimStands
  <2>2. /\ worker'[w].renewed = LeaseTTL /\ worker'[w].token = worker[w].token
        /\ worker'[w].decision = d /\ worker'[w].pc = "produce" /\ worker'[w].beating
    BY <1>0, <1>1, <1>2 DEF WorkerStates
  <2>3. Holder(w, head)'
    BY <1>0, <1>2, <2>1, <2>2 DEF Holder
  <2>4. Unseen'
    BY <1>0, <1>2, <2>1 DEF DutyInv, Unseen
  <2>5. QED
    BY <1>0, <1>2, <2>1, <2>3, <2>4 DEF DutyInv, Expected, Attended
<1>3. CASE /\ ~(head = d /\ ClaimStands(w, worker[w].renewed))
           /\ worker' = [worker EXCEPT ![w].beating = FALSE] /\ UNCHANGED row
  <2>1. ~(head > 0 /\ Holder(w, head))
    <3> SUFFICES ASSUME head > 0, Holder(w, head) PROVE FALSE
        OBVIOUS
    <3>1. row[d].token = worker[w].token /\ row[d].lease = worker[w].renewed /\ head = d
          /\ row[d].lease > 0
      BY <1>0, <1>1 DEF Holder
    <3>2. row[d].status = "RUNNING"
      BY <1>0, <3>1 DEF Facts, StatePayload, Payload
    <3>3. QED
      BY <1>1, <1>3, <3>1, <3>2 DEF ClaimStands
  <2>2. worker' = [worker EXCEPT ![w] = [worker[w] EXCEPT !.beating = FALSE]]
    BY <1>0, <1>3
  <2>3. Unseen'
    BY <1>0, <1>3 DEF DutyInv, Unseen
  <2>4. QED
    BY <1>0, <1>3, <2>1, <2>2, <2>3, WorkerKept
<1>4. QED
  BY <1>1, <1>2, <1>3 DEF Renew

LEMMA FinishDuty ==
    ASSUME Facts, DutyInv, NEW w \in Workers, FinishProduction(w)
    PROVE  DutyInv'
<1>0. /\ worker \in [Workers -> WorkerStates] /\ worker[w] \in WorkerStates
      /\ UNCHANGED <<head, row, queue, request, faults>> /\ worker[w].pc = "produce"
  BY DEF Facts, Shape, FinishProduction
<1>1. PICK m : /\ worker' = [worker EXCEPT ![w] = m]
               /\ m = [worker[w] EXCEPT !.beating = FALSE, !.renewed = 0,
                      !.pc = IF worker[w].beating THEN "commit" ELSE "fail",
                      !.lease = IF worker[w].beating THEN worker[w].renewed
                                                     ELSE worker[w].lease]
  BY DEF FinishProduction
<1>2. /\ m.decision = worker[w].decision /\ m.token = worker[w].token
      /\ worker[w].beating => m.pc = "commit" /\ m.lease = worker[w].renewed
  BY <1>0, <1>1 DEF WorkerStates
<1>3. head > 0 /\ Holder(w, head) => Holder(w, head)'
  BY <1>0, <1>1, <1>2 DEF Holder
<1>4. Unseen'
  BY <1>0 DEF DutyInv, Unseen
<1>5. QED
  BY <1>0, <1>1, <1>3, <1>4, WorkerKept

(* The end of a claim: READY or FAILED is nobody's duty any more.          *)
LEMMA EndDuty ==
    ASSUME Facts, DutyInv, NEW w \in Workers, Commit(w) \/ MarkFailed(w)
    PROVE  DutyInv'
<1>0. /\ worker \in [Workers -> WorkerStates] /\ worker[w] \in WorkerStates
      /\ row \in [Decisions -> Rows] /\ head \in 0..MaxHead
      /\ UNCHANGED <<head, queue, request, faults>> /\ worker[w].pc \in {"commit", "fail"}
  BY DEF Facts, Shape, Commit, MarkFailed
<1>1. PICK d \in Decisions : d = worker[w].decision
  BY <1>0 DEF Facts, Shape
<1>2. CASE ~UNCHANGED row
  <2>1. ClaimStands(w, worker[w].lease)
    BY <1>2 DEF Commit, MarkFailed
  <2>2. /\ row'[d].status \in {"READY", "FAILED"}
        /\ \A e \in Decisions \ {d} : row'[e] = row[e]
    BY <1>0, <1>1, <1>2 DEF Commit, MarkFailed, Publish, Unclaimed, Rows
  <2>3. Unseen'
    BY <1>0, <1>1, <2>1, <2>2 DEF DutyInv, Unseen, ClaimStands, NoRow
  <2>4. CASE d = head
    BY <1>0, <2>2, <2>3, <2>4 DEF DutyInv, Expected, Attended
  <2>5. CASE d # head
    <3>1. PICK m : worker' = [worker EXCEPT ![w] = m]
      BY <1>2 DEF Commit, MarkFailed, Acknowledge
    <3>2. ~Holder(w, head)
      BY <1>1, <2>5 DEF Holder
    <3>3. head > 0 => row'[head] = row[head]
      BY <1>0, <2>2, <2>5
    <3>4. QED
      BY <1>0, <2>3, <3>1, <3>2, <3>3, WorkerKept
  <2>6. QED
    BY <2>4, <2>5
<1>3. CASE Commit(w) /\ UNCHANGED row /\ worker' = [worker EXCEPT ![w].pc = "fail"]
  <2>1. PICK m : worker' = [worker EXCEPT ![w] = m] /\ m = [worker[w] EXCEPT !.pc = "fail"]
    BY <1>0, <1>3
  <2>2. m.pc = "fail" /\ m.decision = worker[w].decision /\ m.token = worker[w].token
        /\ m.lease = worker[w].lease /\ worker'[w] = m
    BY <1>0, <2>1 DEF WorkerStates
  <2>3. head > 0 /\ Holder(w, head) => Holder(w, head)'
    BY <1>0, <1>3, <2>2 DEF Holder
  <2>4. Unseen'
    BY <1>0, <1>3 DEF DutyInv, Unseen
  <2>5. QED
    BY <1>0, <1>3, <2>1, <2>3, <2>4, WorkerKept
<1>4. CASE UNCHANGED row /\ Acknowledge(w) /\ ~ClaimStands(w, worker[w].lease)
  <2>1. ~(head > 0 /\ Holder(w, head))
    <3> SUFFICES ASSUME head > 0, Holder(w, head) PROVE FALSE
        OBVIOUS
    <3>1. row[d].token = worker[w].token /\ row[d].lease = worker[w].lease
          /\ row[d].lease > 0
      BY <1>0, <1>1 DEF Holder
    <3>2. row[d].status = "RUNNING"
      BY <1>0, <3>1 DEF Facts, StatePayload, Payload
    <3>3. QED
      BY <1>1, <1>4, <3>1, <3>2 DEF ClaimStands
  <2>2. Unseen'
    BY <1>0, <1>4 DEF DutyInv, Unseen
  <2>3. QED
    BY <1>0, <1>4, <2>1, <2>2, WorkerKept DEF Acknowledge
<1>5. CASE UNCHANGED row /\ Acknowledge(w) /\ ClaimStands(w, worker[w].lease)
  <2>1. row[d].status = "RUNNING" /\ row[d] \in Rows
    BY <1>0, <1>1, <1>5 DEF ClaimStands
  <2>2. ~Publish(w, d) /\ ~Unclaimed(d, "FAILED")
    <3>1. d \in Decisions /\ row'[d] = row[d]
      BY <1>0, <1>5
    <3>2. Publish(w, d) => row'[d].status = "READY"
      BY <1>0, <2>1, <3>1 DEF Publish, Rows
    <3>3. Unclaimed(d, "FAILED") => row'[d].status = "FAILED"
      BY <1>0, <2>1, <3>1 DEF Unclaimed, Rows
    <3>4. QED
      BY <2>1, <3>1, <3>2, <3>3
  <2>3. worker' # [worker EXCEPT ![w].pc = "fail"]
    BY <1>0, <1>5 DEF Acknowledge, Idle, WorkerStates
  <2>4. QED
    BY <1>1, <1>5, <2>2, <2>3 DEF Commit, MarkFailed
<1>6. QED
  BY <1>2, <1>3, <1>4, <1>5 DEF Commit, MarkFailed

-----------------------------------------------------------------------------
(* The first fault returns a message that has never been retried, so its   *)
(* retries outlast whatever is left of the lease.                          *)
LEMMA FaultDuty ==
    ASSUME Orderly, Facts, DutyInv, SoloInv, NEW w \in Workers, Fault(w)
    PROVE  DutyInv'
<1>0. /\ worker \in [Workers -> WorkerStates] /\ worker[w] \in WorkerStates
      /\ row \in [Decisions -> Rows] /\ queue \in [Messages -> Nat] /\ head \in 0..MaxHead
      /\ faults \in 0..MaxFaults
  BY DEF Facts, Shape, Counters
<1>1. Crash(w) \/ Redeliver(w)
  BY DEF Fault, RenewFails, Orderly
<1>2. /\ UNCHANGED <<head, row, request>> /\ queue' = Returned(w) /\ worker[w].pc # "idle"
      /\ worker' = worker \/ Acknowledge(w)
  BY <1>1 DEF Crash, Redeliver
<1>3. MaxRequests <= 1 /\ LeaseTTL <= MaxRetries /\ faults = 0 /\ faults' = 1
  BY <1>0, <1>1 DEF Orderly, Crash, Redeliver
<1>4. Fresh(worker[w].decision, worker[w].retries)
      /\ \A v \in Workers \ {w} : worker[v].pc = "idle"
  BY <1>2, <1>3 DEF SoloInv, Solo, NoWork, OneWorker
<1>5. PICK d \in Decisions, r \in 0..MaxRetries :
          d = worker[w].decision /\ r = worker[w].retries
  BY <1>0, <1>2 DEF Facts, Shape, WorkerStates
<1>6. PICK m \in Messages : m = <<d, r, 0>> /\ m[1] = d /\ m[2] = r /\ m[3] = 0
  BY MessageExists
<1>7. queue'[m] > 0 /\ \A n \in Messages : queue[n] > 0 => queue'[n] > 0
  <2>1. queue' = [queue EXCEPT ![m] = @ + 1]
    BY <1>2, <1>5, <1>6 DEF Returned
  <2>2. QED
    BY <1>0, <2>1, MessageSent
<1>8. Unseen'
  BY <1>2 DEF DutyInv, Unseen
<1>9. CASE d = head
  <2>1. Taken(head)'
    BY <1>2, <1>6, <1>7, <1>9 DEF Taken
  <2>2. InTime(m[2] - m[3], head)
    <3>1. m[2] - m[3] = 0 /\ row[head].lease \in 0..LeaseTTL
      BY <1>0, <1>4, <1>5, <1>6, <1>9 DEF Fresh, Rows
    <3>2. QED
      BY <3>1 DEF InTime
  <2>3. Patient(head)'
    BY <1>2, <1>6, <1>7, <1>9, <2>2 DEF Patient, InTime
  <2>4. QED
    BY <1>2, <1>3, <1>8, <2>1, <2>3 DEF DutyInv, Expected, Attended
<1>10. CASE d # head
  <2>1. \A v \in Workers : ~AtClaim(v, head) /\ ~Holder(v, head)
    BY <1>4, <1>5, <1>10 DEF AtClaim, Holder
  <2>2. head > 0 => row[head].status # "RUNNING"
    BY <1>3, <2>1 DEF DutyInv, Attended
  <2>3. Taken(head) => Taken(head)'
    BY <1>2, <1>7, <2>1, TakenKept DEF AboutToSend
  <2>4. QED
    BY <1>2, <1>8, <2>2, <2>3 DEF DutyInv, Expected, Attended
<1>11. QED
  BY <1>9, <1>10

LEMMA RouteDuty ==
    ASSUME Facts, DutyInv, RouteMoves
    PROVE  DutyInv'
<1>1. head \in 0..MaxHead /\ head' = head + 1 /\ head' \in Decisions /\ row' = row
  BY DEF Facts, Shape, RouteMoves
<1>2. row[head'].status = "NONE"
  BY <1>1 DEF DutyInv, Unseen, NoRow
<1>3. QED
  BY <1>1, <1>2 DEF DutyInv, Unseen, Expected, Attended

(* A message whose countdown still runs, and the one it becomes.           *)
LEMMA Countdown ==
    ASSUME NEW m \in Messages
    PROVE  \E n, o \in Messages :
              /\ n = <<m[1], m[2], 0>> /\ n[1] = m[1] /\ n[2] = m[2] /\ n[3] = 0
              /\ o = <<m[1], m[2], 1>> /\ o[1] = m[1] /\ o[2] = m[2] /\ o[3] = 1
              /\ m = n \/ m = o
<1>1. PICK d \in Decisions, r \in 0..MaxRetries, p \in {0, 1} : m = <<d, r, p>>
  BY DEF Messages
<1>2. 0 \in {0, 1} /\ 1 \in {0, 1}
  OBVIOUS
<1>3. m[1] = d /\ m[2] = r /\ m[3] = p
  BY <1>1
<1>4. <<d, r, 0>> \in Messages /\ <<d, r, 1>> \in Messages
  BY <1>2 DEF Messages
<1>5. m = <<d, r, 0>> \/ m = <<d, r, 1>>
  BY <1>1
<1>6. QED
  BY <1>3, <1>4, <1>5

(* A tick takes no claim from its holder, and brings a waiting message as  *)
(* much nearer to its delivery as the lease is to its end.                 *)
LEMMA TickDuty ==
    ASSUME Orderly, Facts, DutyInv, Tick
    PROVE  DutyInv'
<1>0. /\ worker \in [Workers -> WorkerStates] /\ row \in [Decisions -> Rows]
      /\ queue \in [Messages -> Nat] /\ head \in 0..MaxHead
      /\ UNCHANGED <<head, request, faults>>
  BY DEF Facts, Shape, Counters, Tick
<1>1. ASSUME NEW d \in Decisions
      PROVE  /\ row'[d] = [row[d] EXCEPT !.lease = Less(row[d].lease)]
             /\ row'[d].status = row[d].status /\ row'[d].token = row[d].token
             /\ row'[d].lease = Less(row[d].lease) /\ row[d].lease \in Nat
  <2>1. row[d] \in Rows
    BY <1>0
  <2>2. row'[d] = [row[d] EXCEPT !.lease = Less(row[d].lease)]
    BY DEF Tick
  <2>3. QED
    BY <2>1, <2>2 DEF Rows
<1>2. ASSUME NEW w \in Workers
      PROVE  /\ worker'[w].pc = worker[w].pc /\ worker'[w].decision = worker[w].decision
             /\ worker'[w].retries = worker[w].retries
             /\ worker'[w].token = worker[w].token
             /\ worker'[w].beating = worker[w].beating
             /\ worker'[w].lease = Less(worker[w].lease)
             /\ worker'[w].renewed = Less(worker[w].renewed)
             /\ worker[w].retries \in Nat
  <2>1. worker[w] \in WorkerStates
    BY <1>0
  <2>2. worker'[w] = [worker[w] EXCEPT !.lease = Less(worker[w].lease),
                                       !.renewed = Less(worker[w].renewed)]
    BY DEF Tick
  <2>3. QED
    BY <2>1, <2>2 DEF WorkerStates
<1>3. ASSUME NEW m \in Messages, queue[m] > 0
      PROVE  \E n \in Messages : n[1] = m[1] /\ n[2] = m[2] /\ n[3] = 0 /\ queue'[n] > 0
  <2>1. PICK n \in Messages, o \in Messages :
            /\ n = <<m[1], m[2], 0>> /\ n[1] = m[1] /\ n[2] = m[2] /\ n[3] = 0
            /\ o = <<m[1], m[2], 1>>
            /\ m = n \/ m = o
    BY Countdown
  <2>2. queue'[n] = queue[n] + queue[o]
    BY <2>1 DEF Tick
  <2>3. queue'[n] > 0
    <3>1. queue[n] \in Nat /\ queue[o] \in Nat
      BY <1>0
    <3>2. queue[n] > 0 \/ queue[o] > 0
      BY <1>3, <2>1, Zenon
    <3>3. QED
      BY <2>2, <3>1, <3>2
  <2>4. QED
    BY <2>1, <2>3
<1>4. Unseen'
  <2>1. [NoRow EXCEPT !.lease = Less(NoRow.lease)] = NoRow
    BY DEF NoRow, Less
  <2>2. QED
    BY <1>0, <1>1, <2>1 DEF DutyInv, Unseen
<1>5. Taken(head) => Taken(head)'
  <2>1. \A w \in Workers : AtClaim(w, head) => AtClaim(w, head)'
    BY <1>0, <1>2 DEF AtClaim
  <2>2. \A c \in Clients : AboutToSend(c, head) => AboutToSend(c, head)'
    BY <1>0 DEF AboutToSend
  <2>3. ASSUME NEW m \in Messages, m[1] = head, queue[m] > 0 PROVE Taken(head)'
    BY <1>0, <1>3, <2>3 DEF Taken
  <2>4. QED
    BY <2>1, <2>2, <2>3 DEF Taken
<1>6. ASSUME head > 0, NEW w \in Workers, Holder(w, head) PROVE Holder(w, head)'
  <2>1. PICK h \in Decisions : h = head
    BY <1>0, <1>6
  <2>2. row[h].status = "RUNNING" /\ row[h].token = worker[w].token
    BY <1>0, <1>6, <2>1 DEF Holder, Facts, StatePayload, Payload
  <2>3. row[h].lease # 1
    <3> SUFFICES ASSUME row[h].lease = 1 PROVE FALSE
        OBVIOUS
    <3>1. ClaimStands(w, 1) /\ 1 \in {worker[w].renewed, worker[w].lease}
          /\ worker[w].pc \in {"produce", "commit", "fail"}
      BY <1>6, <2>1, <2>2 DEF Holder, ClaimStands
    <3>2. QED
      BY <3>1 DEF Tick, Orderly
  <2>4. row[h].lease > 0
    BY <1>6, <2>1 DEF Holder
  <2>5. row[h].lease \in Nat
    BY <1>1
  <2>6. Less(row[h].lease) > 0
    BY <2>3, <2>4, <2>5 DEF Less
  <2>7. row'[h].lease = Less(row[h].lease) /\ row'[h].token = row[h].token
    BY <1>1
  <2>8. QED
    BY <1>0, <1>2, <1>6, <2>1, <2>6, <2>7 DEF Holder
<1>7. ASSUME head > 0, Patient(head) PROVE Patient(head)'
  <2>1. PICK h \in Decisions : h = head
    BY <1>0, <1>7
  <2>2. ASSUME NEW m \in Messages, m[1] = h, queue[m] > 0, InTime(m[2] - m[3], h)
        PROVE  Patient(h)'
    <3>1. PICK n \in Messages : n[1] = m[1] /\ n[2] = m[2] /\ n[3] = 0 /\ queue'[n] > 0
      BY <1>3, <2>2
    <3>2. m[2] \in Nat /\ m[3] \in {0, 1}
      BY DEF Messages
    <3>3. Less(row[h].lease) = 0 \/ m[2] + Less(row[h].lease) <= LeaseTTL
      <4>1. row[h].lease \in Nat
        BY <1>1
      <4>2. row[h].lease = 0 \/ m[2] - m[3] + row[h].lease <= LeaseTTL
        BY <2>2 DEF InTime
      <4>3. QED
        BY <3>2, <4>1, <4>2 DEF Less
    <3>4. n[2] - n[3] = m[2]
      BY <3>1, <3>2
    <3>5. InTime(n[2] - n[3], h)'
      BY <1>1, <3>3, <3>4 DEF InTime
    <3>6. QED
      BY <2>2, <3>1, <3>5 DEF Patient
  <2>3. ASSUME NEW w \in Workers, AtClaim(w, h), InTime(worker[w].retries, h)
        PROVE  Patient(h)'
    <3>1. Less(row[h].lease) = 0 \/ worker[w].retries + Less(row[h].lease) <= LeaseTTL
      <4>1. row[h].lease \in Nat /\ worker[w].retries \in Nat
        BY <1>1, <1>2
      <4>2. QED
        BY <2>3, <4>1 DEF InTime, Less
    <3>2. QED
      BY <1>1, <1>2, <2>3, <3>1 DEF Patient, AtClaim, InTime
  <2>4. Patient(h)'
    BY <1>7, <2>1, <2>2, <2>3 DEF Patient
  <2>5. QED
    BY <1>0, <2>1, <2>4
<1>8. head > 0 => row'[head].status = row[head].status
  <2>1. head > 0 => head \in Decisions
    BY <1>0
  <2>2. QED
    BY <1>1, <2>1
<1>9. Attended' /\ Expected'
  BY <1>0, <1>5, <1>6, <1>7, <1>8 DEF DutyInv, Attended, Expected
<1>10. QED
  BY <1>4, <1>9 DEF DutyInv

-----------------------------------------------------------------------------
(* A single request is a single message until the first fault.             *)
LEMMA RequestGoesOn ==
    ASSUME Facts, NEW c \in Clients, NEW r, request' = [request EXCEPT ![c] = r],
           \A b \in Clients \ {c} : request[b].pc = "idle",
           Sensible(r), head' = head
    PROVE  OneRequest'
  BY DEF Facts, Shape, OneRequest, Sensible

LEMMA OnlyRequest ==
    ASSUME Solo, NEW c \in Clients, request[c].pc # "idle"
    PROVE  /\ NoMessages /\ NoWork /\ requests > 0
           /\ \A b \in Clients \ {c} : request[b].pc = "idle"
           /\ Sensible(request[c])
  BY DEF Solo, NoRequests, OneRequest

LEMMA SubmitSolo ==
    ASSUME Facts, Unseen, Solo, MaxRequests <= 1, NEW c \in Clients, Submit(c)
    PROVE  Solo'
<1>0. /\ request \in [Clients -> Requests] /\ request[c] \in Requests
      /\ queue \in [Messages -> Nat] /\ requests \in 0..MaxRequests /\ head \in 0..MaxHead
  BY DEF Facts, Shape, Counters
<1>1. ASSUME NEW k \in Keys, NEW d \in Made(k) PROVE d \in Decisions /\ d <= head
  BY <1>0, <1>1, KeyAssumption DEF Made, Unseen, NoRow
<1>2. ASSUME NEW d \in Decisions, NEW table, d <= head, Answered(c, d, table)
      PROVE  \E r : request' = [request EXCEPT ![c] = r] /\ Sensible(r)
  <2>1. PICK r : /\ request' = [request EXCEPT ![c] = r]
                 /\ r = [request[c] EXCEPT !.pc = "enqueue", !.decision = d,
                                           !.answer = table[d].status]
    BY <1>2 DEF Answered
  <2>2. r.decision = d /\ r.pc = "enqueue"
    BY <1>0, <2>1 DEF Requests
  <2>3. Sensible(r)
    BY <1>2, <2>2 DEF Sensible
  <2>4. QED
    BY <2>1, <2>3
<1>3. ASSUME NEW k \in Keys, Lookup(c, k) PROVE Solo'
  <2>1. UNCHANGED <<head, queue, worker>> /\ requests' > 0
        /\ NoRequests /\ NoMessages /\ NoWork
    BY <1>0, <1>3 DEF Lookup, Solo
  <2>2. PICK r : request' = [request EXCEPT ![c] = r] /\ Sensible(r)
    <3>1. CASE request' = [request EXCEPT ![c] = [@ EXCEPT !.pc = "resolve", !.key = k]]
      <4>1. PICK r : /\ request' = [request EXCEPT ![c] = r]
                     /\ r = [request[c] EXCEPT !.pc = "resolve", !.key = k]
        BY <3>1
      <4>2. Sensible(r)
        BY <1>0, <4>1 DEF Requests, Sensible
      <4>3. QED
        BY <4>1, <4>2
    <3>2. ASSUME NEW d \in Made(k), Answered(c, d, Aged(d))
          PROVE  \E r : request' = [request EXCEPT ![c] = r] /\ Sensible(r)
      BY <1>1, <1>2, <3>2
    <3>3. QED
      BY <1>3, <3>1, <3>2 DEF Lookup
  <2>3. OneRequest'
    BY <2>1, <2>2, RequestGoesOn DEF NoRequests
  <2>4. QED
    BY <2>1, <2>3 DEF Solo, NoMessages, NoWork
<1>4. CASE Resolve(c) \/ Insert(c)
  <2>1. UNCHANGED <<head, queue, worker, requests>> /\ request[c].pc \in {"resolve", "insert"}
    BY <1>4 DEF Resolve, Insert
  <2>2. PICK r : request' = [request EXCEPT ![c] = r] /\ Sensible(r)
    <3>1. CASE request' = [request EXCEPT ![c] = NoRequest]
      <4>1. Sensible(NoRequest)
        BY DEF Sensible, NoRequest
      <4>2. QED
        BY <3>1, <4>1
    <3>2. CASE Resolve(c) /\ request' = [request EXCEPT ![c] = [@ EXCEPT !.pc = "insert", !.decision = head]]
      <4>1. PICK r : /\ request' = [request EXCEPT ![c] = r]
                     /\ r = [request[c] EXCEPT !.pc = "insert", !.decision = head]
        BY <3>2
      <4>2. r.decision = head /\ r.pc = "insert" /\ r.key = request[c].key
        BY <1>0, <4>1 DEF Requests
      <4>3. request[c].key \in Keys
        BY <3>2, OnlyRequest DEF Resolve, Sensible
      <4>4. Sensible(r)
        BY <1>0, <4>2, <4>3 DEF Sensible
      <4>5. QED
        BY <4>1, <4>4
    <3>3. CASE Insert(c) /\ request' # [request EXCEPT ![c] = NoRequest]
      <4>1. PICK d \in Decisions : d <= head /\ \E table : Answered(c, d, table)
        <5>1. CASE Made(request[c].key) = {}
          <6>1. request[c].decision = head /\ Answered(c, head, row')
            BY <3>3, <5>1 DEF Insert
          <6>2. head \in Decisions /\ head <= head
            BY <1>0, <3>3, <6>1 DEF Insert, Facts, Shape
          <6>3. QED
            BY <6>1, <6>2
        <5>2. CASE Made(request[c].key) # {}
          <6>1. PICK d \in Made(request[c].key) : Answered(c, d, row)
            BY <3>3, <5>2 DEF Insert
          <6>2. d \in Decisions /\ d <= head
            <7>1. request[c].key \in Keys
              BY <3>3, OnlyRequest DEF Insert, Sensible
            <7>2. QED
              BY <1>1, <7>1
          <6>3. QED
            BY <6>1, <6>2
        <5>3. QED
          BY <5>1, <5>2
      <4>2. QED
        BY <1>2, <4>1
    <3>4. QED
      BY <1>4, <3>1, <3>2, <3>3 DEF Resolve
  <2>3. OneRequest' /\ NoMessages /\ NoWork /\ requests > 0
    BY <2>1, <2>2, OnlyRequest, RequestGoesOn
  <2>4. QED
    BY <2>1, <2>3 DEF Solo, NoMessages, NoWork
<1>5. CASE Enqueue(c)
  <2>1. UNCHANGED <<head, worker, requests>> /\ request[c].pc = "enqueue"
        /\ request' = [request EXCEPT ![c] = NoRequest]
    BY <1>5 DEF Enqueue
  <2>2. NoMessages /\ NoWork /\ requests > 0 /\ request[c].decision <= head
        /\ \A b \in Clients \ {c} : request[b].pc = "idle"
    BY <2>1, OnlyRequest DEF Sensible
  <2>3. PICK d \in Decisions : d = request[c].decision
    BY <2>1 DEF Facts, Shape
  <2>4. PICK m \in Messages : m = <<d, 0, 0>> /\ m[1] = d /\ m[2] = 0
    <3>1. 0 \in 0..MaxRetries
      OBVIOUS
    <3>2. QED
      BY <3>1, MessageExists
  <2>5. queue' = [queue EXCEPT ![m] = @ + 1]
    BY <1>5, <2>3, <2>4 DEF Enqueue
  <2>6. queue'[m] = 1 /\ \A n \in Messages \ {m} : queue'[n] = 0
    BY <1>0, <2>2, <2>5, MessageSent DEF NoMessages
  <2>7. OneMessage'
    BY <2>1, <2>2, <2>3, <2>4, <2>6 DEF OneMessage, Fresh
  <2>8. NoRequests'
    BY <1>0, <2>1, <2>2 DEF NoRequests, NoRequest
  <2>9. QED
    BY <2>1, <2>2, <2>7, <2>8 DEF Solo, NoWork
<1>6. QED
  BY <1>3, <1>4, <1>5 DEF Submit

LEMMA OnlyWorker ==
    ASSUME Solo, NEW w \in Workers, worker[w].pc # "idle"
    PROVE  /\ NoRequests /\ NoMessages /\ requests > 0
           /\ Fresh(worker[w].decision, worker[w].retries)
           /\ \A v \in Workers \ {w} : worker[v].pc = "idle"
  BY DEF Solo, NoWork, OneWorker

LEMMA WorkerGoesOn ==
    ASSUME Facts, Solo, NEW w \in Workers, worker[w].pc # "idle", NEW m,
           worker' = [worker EXCEPT ![w] = m],
           \/ m = Idle
           \/ m.decision = worker[w].decision /\ m.retries = worker[w].retries,
           UNCHANGED <<head, queue, request, requests>>
    PROVE  Solo'
<1>1. /\ NoRequests /\ NoMessages /\ requests > 0
      /\ Fresh(worker[w].decision, worker[w].retries)
      /\ \A v \in Workers \ {w} : worker[v].pc = "idle"
  BY OnlyWorker
<1>2. worker'[w] = m /\ \A v \in Workers \ {w} : worker'[v] = worker[v]
  BY DEF Facts, Shape
<1>3. Fresh(m.decision, m.retries)
  <2>1. CASE m = Idle
    <3>1. head \in 0..MaxHead
      BY DEF Facts, Shape
    <3>2. QED
      BY <2>1, <3>1 DEF Idle, Fresh
  <2>2. QED
    BY <1>1, <2>1
<1>4. OneWorker'
  BY <1>1, <1>2, <1>3 DEF OneWorker, Fresh
<1>5. QED
  BY <1>1, <1>4 DEF Solo, NoRequests, NoMessages

LEMMA ExecuteSolo ==
    ASSUME Facts, DutyInv, Solo, faults = 0, NEW w \in Workers, Execute(w)
    PROVE  Solo'
<1>0. /\ worker \in [Workers -> WorkerStates] /\ worker[w] \in WorkerStates
      /\ row \in [Decisions -> Rows]
      /\ queue \in [Messages -> Nat] /\ head \in 0..MaxHead
      /\ UNCHANGED <<head, request, requests>>
  BY DEF Facts, Shape, Counters, Execute, Receive, Claim, Renew, FinishProduction, Commit,
         MarkFailed
<1>1. CASE Receive(w)
  <2>1. PICK d \in Decisions, r \in 0..MaxRetries :
            /\ queue[<<d, r, 0>>] > 0
            /\ queue' = [queue EXCEPT ![<<d, r, 0>>] = @ - 1]
            /\ worker' = [worker EXCEPT ![w] =
                  [Idle EXCEPT !.pc = "claim", !.decision = d, !.retries = r]]
    BY <1>1 DEF Receive
  <2>2. PICK m \in Messages : m = <<d, r, 0>> /\ m[1] = d /\ m[2] = r
    BY MessageExists
  <2>3. NoRequests /\ OneMessage /\ NoWork /\ requests > 0
    BY <2>1, <2>2 DEF Solo, NoMessages
  <2>4. Fresh(d, r) /\ queue[m] = 1 /\ \A n \in Messages \ {m} : queue[n] = 0
    BY <2>1, <2>2, <2>3 DEF OneMessage
  <2>5. queue' = [queue EXCEPT ![m] = @ - 1]
    BY <2>1, <2>2
  <2>6. queue'[m] = queue[m] - 1 /\ \A n \in Messages \ {m} : queue'[n] = queue[n]
    BY <1>0, <2>5, MessageTaken
  <2>7. NoMessages'
    BY <2>4, <2>6 DEF NoMessages
  <2>8. worker'[w].decision = d /\ worker'[w].retries = r
        /\ \A v \in Workers \ {w} : worker'[v] = worker[v]
    BY <1>0, <2>1 DEF Idle
  <2>9. OneWorker'
    BY <1>0, <2>3, <2>4, <2>8 DEF OneWorker, NoWork, Fresh
  <2>10. QED
    BY <1>0, <2>3, <2>7, <2>9 DEF Solo, NoRequests
<1>2. CASE Claim(w) /\ UNCHANGED queue
  <2>1. PICK m : /\ worker' = [worker EXCEPT ![w] = m]
                 /\ \/ m = Idle
                    \/ m.decision = worker[w].decision /\ m.retries = worker[w].retries
    <3>1. CASE Acknowledge(w)
      BY <3>1 DEF Acknowledge
    <3>2. CASE TakeClaim(w, worker[w].decision)
      <4>1. PICK m : /\ worker' = [worker EXCEPT ![w] = m]
                     /\ \E n : m = [worker[w] EXCEPT !.pc = "produce", !.token = n,
                           !.lease = LeaseTTL, !.renewed = LeaseTTL, !.beating = TRUE]
        BY <3>2 DEF TakeClaim
      <4>2. m.decision = worker[w].decision /\ m.retries = worker[w].retries
        BY <1>0, <4>1 DEF WorkerStates
      <4>3. QED
        BY <4>1, <4>2
    <3>3. QED
      BY <1>2, <3>1, <3>2 DEF Claim
  <2>2. worker[w].pc # "idle"
    BY <1>2 DEF Claim
  <2>3. QED
    BY <1>0, <1>2, <2>1, <2>2, WorkerGoesOn
<1>3. CASE Claim(w) /\ ~UNCHANGED queue
  <2>1. PICK d \in Decisions : d = worker[w].decision
    BY <1>3 DEF Claim, Facts, Shape
  <2>2. Busy(d) /\ RetryLater(w) /\ Acknowledge(w) /\ worker[w].pc = "claim"
    BY <1>3, <2>1 DEF Claim
  <2>3. /\ NoRequests /\ NoMessages /\ requests > 0 /\ Fresh(d, worker[w].retries)
        /\ \A v \in Workers \ {w} : worker[v].pc = "idle"
    BY <2>1, <2>2, OnlyWorker
  <2>4. d # head
    <3> SUFFICES ASSUME d = head PROVE FALSE
        OBVIOUS
    <3>1. PICK v \in Workers : Holder(v, head)
      BY <2>2 DEF DutyInv, Attended, Busy
    <3>2. QED
      BY <2>2, <2>3, <3>1 DEF Holder
  <2>5. PICK r \in 0..MaxRetries : r = worker[w].retries + 1
    BY <1>0, <1>3, <2>2 DEF RetryLater, WorkerStates
  <2>6. PICK m \in Messages : m = <<d, r, 1>> /\ m[1] = d /\ m[2] = r
    BY MessageExists
  <2>7. queue' = [queue EXCEPT ![m] = @ + 1]
    BY <1>3, <2>1, <2>2, <2>5, <2>6 DEF RetryLater
  <2>8. queue'[m] = 1 /\ \A n \in Messages \ {m} : queue'[n] = 0
    BY <1>0, <2>3, <2>7, MessageSent DEF NoMessages
  <2>9. OneMessage'
    BY <1>0, <2>3, <2>4, <2>6, <2>8 DEF OneMessage, Fresh
  <2>10. NoWork'
    BY <1>0, <2>2, <2>3 DEF NoWork, Acknowledge, Idle
  <2>11. QED
    BY <1>0, <2>3, <2>9, <2>10 DEF Solo, NoRequests
<1>4. CASE Renew(w) \/ FinishProduction(w) \/ Commit(w) \/ MarkFailed(w)
  <2>1. worker[w].pc # "idle" /\ UNCHANGED queue
    BY <1>4 DEF Renew, FinishProduction, Commit, MarkFailed, Facts, Shape
  <2>2. PICK m : /\ worker' = [worker EXCEPT ![w] = m]
                 /\ \/ m = Idle
                    \/ m.decision = worker[w].decision /\ m.retries = worker[w].retries
    <3>1. CASE Acknowledge(w)
      BY <3>1 DEF Acknowledge
    <3>2. CASE FinishProduction(w)
      <4>1. PICK m : /\ worker' = [worker EXCEPT ![w] = m]
                     /\ \E pc, lease : m = [worker[w] EXCEPT !.beating = FALSE,
                           !.renewed = 0, !.pc = pc, !.lease = lease]
        BY <3>2 DEF FinishProduction
      <4>2. m.decision = worker[w].decision /\ m.retries = worker[w].retries
        BY <1>0, <4>1 DEF WorkerStates
      <4>3. QED
        BY <4>1, <4>2
    <3>3. CASE Renew(w) \/ (Commit(w) /\ ~Acknowledge(w))
      BY <1>0, <3>3 DEF Renew, Commit, WorkerStates
    <3>4. QED
      BY <1>4, <3>1, <3>2, <3>3 DEF MarkFailed
  <2>3. QED
    BY <1>0, <2>1, <2>2, WorkerGoesOn
<1>5. QED
  BY <1>1, <1>2, <1>3, <1>4 DEF Execute

LEMMA TickSolo ==
    ASSUME Facts, Solo, Tick
    PROVE  Solo'
<1>0. /\ queue \in [Messages -> Nat] /\ UNCHANGED <<head, request, requests>>
  BY DEF Facts, Counters, Tick
<1>1. ASSUME NEW m \in Messages
      PROVE  \E n, o \in Messages :
                /\ n[1] = m[1] /\ n[2] = m[2] /\ n[3] = 0 /\ o[3] = 1
                /\ m = n \/ m = o
                /\ queue'[n] = queue[n] + queue[o] /\ queue'[o] = 0
                /\ n = <<m[1], m[2], 0>> /\ o = <<m[1], m[2], 1>>
  <2>1. PICK n \in Messages, o \in Messages :
            /\ n = <<m[1], m[2], 0>> /\ n[1] = m[1] /\ n[2] = m[2] /\ n[3] = 0
            /\ o = <<m[1], m[2], 1>> /\ o[1] = m[1] /\ o[2] = m[2] /\ o[3] = 1
            /\ m = n \/ m = o
    BY Countdown
  <2>2. queue'[n] = queue[n] + queue[o]
    BY <2>1 DEF Tick
  <2>3. queue'[o] = 0
    <3>1. o[3] # 0
      BY <2>1
    <3>2. QED
      BY <3>1, Zenon DEF Tick
  <2>4. QED
    BY <2>1, <2>2, <2>3, Zenon
<1>2. ASSUME NEW w \in Workers
      PROVE  /\ worker'[w].pc = worker[w].pc /\ worker'[w].decision = worker[w].decision
             /\ worker'[w].retries = worker[w].retries
  <2>1. worker[w] \in WorkerStates
    BY DEF Facts, Shape
  <2>2. worker'[w] = [worker[w] EXCEPT !.lease = Less(worker[w].lease),
                                       !.renewed = Less(worker[w].renewed)]
    BY DEF Tick
  <2>3. QED
    BY <2>1, <2>2 DEF WorkerStates
<1>3. NoWork => NoWork'
  BY <1>2 DEF NoWork
<1>4. OneWorker => OneWorker'
  BY <1>0, <1>2 DEF OneWorker, Fresh
<1>5. ASSUME NoMessages, NEW m \in Messages PROVE queue'[m] = 0
  <2>1. PICK n \in Messages, o \in Messages :
            /\ m = n \/ m = o
            /\ queue'[n] = queue[n] + queue[o] /\ queue'[o] = 0
    BY <1>1
  <2>2. queue[n] = 0 /\ queue[o] = 0
    BY <1>5 DEF NoMessages
  <2>3. queue'[n] = 0
    BY <2>1, <2>2
  <2>4. QED
    BY <2>1, <2>3, Zenon
<1>6. OneMessage => OneMessage'
  <2> SUFFICES ASSUME NEW m \in Messages, Fresh(m[1], m[2]), queue[m] = 1,
                      \A k \in Messages \ {m} : queue[k] = 0
               PROVE  OneMessage'
      BY DEF OneMessage
  <2>1. PICK n \in Messages, o \in Messages :
            /\ n[1] = m[1] /\ n[2] = m[2] /\ n[3] = 0 /\ o[3] = 1
            /\ m = n \/ m = o
            /\ queue'[n] = queue[n] + queue[o] /\ queue'[o] = 0
            /\ n = <<m[1], m[2], 0>> /\ o = <<m[1], m[2], 1>>
    BY <1>1
  <2>2. queue[n] + queue[o] = 1
    <3>1. n # o
      BY <2>1
    <3>2. CASE m = n
      <4>1. queue[n] = 1 /\ queue[o] = 0
        BY <3>1, <3>2, Zenon
      <4>2. QED
        BY <4>1
    <3>3. CASE m = o
      <4>1. queue[o] = 1 /\ queue[n] = 0
        BY <3>1, <3>3, Zenon
      <4>2. QED
        BY <4>1
    <3>4. QED
      BY <2>1, <3>2, <3>3, Zenon
  <2>3. ASSUME NEW k \in Messages \ {n} PROVE queue'[k] = 0
    <3>1. PICK i \in Messages, j \in Messages :
              /\ i[1] = k[1] /\ i[2] = k[2] /\ i[3] = 0 /\ j[3] = 1
              /\ k = i \/ k = j
              /\ queue'[i] = queue[i] + queue[j] /\ queue'[j] = 0
              /\ i = <<k[1], k[2], 0>> /\ j = <<k[1], k[2], 1>>
      BY <1>1
    <3>2. CASE k = i
      <4>1. m # i /\ m # j
        <5>1. SUFFICES ASSUME m = i \/ m = j PROVE n = k
          BY <2>3
        <5>2. m[1] = k[1] /\ m[2] = k[2]
          BY <3>1, <5>1
        <5>3. QED
          BY <2>1, <3>1, <3>2, <5>2, Zenon
      <4>2. queue[i] = 0 /\ queue[j] = 0
        BY <4>1
      <4>3. queue'[i] = 0
        BY <3>1, <4>2
      <4>4. QED
        BY <3>2, <4>3, Zenon
    <3>3. QED
      BY <3>1, <3>2, Zenon
  <2>4. queue'[n] = 1
    BY <2>1, <2>2, Zenon
  <2>5. Fresh(n[1], n[2])'
    BY <1>0, <2>1 DEF Fresh
  <2>6. QED
    BY <2>3, <2>4, <2>5 DEF OneMessage
<1>7. QED
  BY <1>0, <1>3, <1>4, <1>5, <1>6
     DEF Solo, NoMessages, NoRequests, OneRequest, Sensible

LEMMA StepSolo ==
    ASSUME Orderly, Facts, DutyInv, SoloInv, [Next]_vars
    PROVE  SoloInv'
<1> SUFFICES ASSUME MaxRequests <= 1, faults' = 0 PROVE Solo'
    BY DEF SoloInv
<1>0. faults \in Nat /\ head \in 0..MaxHead
  BY DEF Facts, Counters, Shape
<1>1. CASE UNCHANGED vars \/ (\E d \in Decisions : RefreshRecord(d))
  BY <1>1 DEF vars, RefreshRecord, SoloInv, Solo, NoRequests, NoMessages, NoWork,
              OneRequest, Sensible, OneMessage, OneWorker, Fresh
<1>2. CASE RouteMoves
  <2>1. UNCHANGED <<queue, request, worker, requests, faults>> /\ head' = head + 1
    BY <1>2 DEF RouteMoves
  <2>2. OneRequest => OneRequest'
    BY <1>0, <2>1 DEF OneRequest, Sensible, Facts, Shape, Requests
  <2>3. ASSUME NEW d \in Nat, NEW r, Fresh(d, r) PROVE Fresh(d, r)'
    BY <1>0, <2>1, <2>3 DEF Fresh
  <2>4. OneMessage => OneMessage'
    <3>1. \A m \in Messages : m[1] \in Nat
      BY DEF Messages
    <3>2. QED
      BY <2>1, <2>3, <3>1 DEF OneMessage
  <2>5. OneWorker => OneWorker'
    <3>1. \A w \in Workers : worker[w].decision \in Nat
      BY DEF Facts, Shape, WorkerStates
    <3>2. QED
      BY <2>1, <2>3, <3>1 DEF OneWorker, Fresh
  <2>6. QED
    BY <2>1, <2>2, <2>4, <2>5 DEF SoloInv, Solo, NoRequests, NoMessages, NoWork
<1>3. ASSUME NEW c \in Clients, Submit(c) \/ RequestLost(c) PROVE Solo'
  <2>1. Submit(c) /\ ~RequestLost(c)
    BY <1>3 DEF RequestLost, Orderly
  <2>2. faults' = faults
    BY <2>1 DEF Submit, Lookup, Resolve, Insert, Enqueue
  <2>3. QED
    BY <2>1, <2>2, SubmitSolo DEF SoloInv, DutyInv
<1>4. ASSUME NEW w \in Workers, Execute(w) \/ Fault(w) PROVE Solo'
  <2>1. ~Fault(w)
    BY <1>0 DEF Fault, RenewFails, Crash, Redeliver
  <2>2. Execute(w) /\ faults' = faults
    BY <1>4, <2>1 DEF Execute, Receive, Claim, Renew, FinishProduction, Commit, MarkFailed
  <2>3. QED
    BY <2>2, ExecuteSolo DEF SoloInv
<1>5. CASE Tick
  BY <1>5, TickSolo DEF SoloInv, Tick
<1>6. QED
  BY <1>1, <1>2, <1>3, <1>4, <1>5 DEF Next

LEMMA StepDuty ==
    ASSUME Orderly, Facts, DutyInv, SoloInv, [Next]_vars
    PROVE  DutyInv'
<1>1. CASE UNCHANGED vars
  BY <1>1 DEF vars, DutyInv, Unseen, Expected, Attended, Taken, Patient, Holder, InTime,
              AtClaim, AboutToSend
<1>2. ASSUME NEW w \in Workers, Execute(w) PROVE DutyInv'
  BY <1>2, ReceiveDuty, ClaimDuty, RenewDuty, FinishDuty, EndDuty DEF Execute
<1>3. QED
  BY <1>1, <1>2, SubmitDuty, RefreshDuty, FaultDuty, RouteDuty, TickDuty DEF Next

(* Evidence of the active route that is PENDING or RUNNING is somebody's   *)
(* duty: a request is about to send its message, a message waits, or a     *)
(* worker has it in hand.  A Busy message may be dropped after its last    *)
(* retry only because the holder of the claim goes on; a message that came *)
(* back from a dead process is never dropped before its lease is over.     *)
THEOREM EvidenceIsSomeonesDuty ==
    ASSUME Orderly
    PROVE  Spec => []SomeoneIsResponsible
<1>1. Init => DutyInv /\ SoloInv
  BY DEF Init, DutyInv, Unseen, Expected, Attended, SoloInv, Solo, NoRequests, NoMessages,
         NoWork, NoRequest, Idle
<1>2. TypeOK /\ Shape /\ StatePayload => Facts
  BY DEF TypeOK, Facts, Counters
<1>3. Facts /\ DutyInv /\ SoloInv /\ [Next]_vars => DutyInv' /\ SoloInv'
  BY StepDuty, StepSolo
<1>4. Facts /\ DutyInv => SomeoneIsResponsible
  <2> SUFFICES ASSUME Facts, DutyInv, head > 0, row[head].status \in {"PENDING", "RUNNING"}
               PROVE  \/ \E c \in Clients : request[c].pc = "enqueue" /\ request[c].decision = head
                      \/ \E m \in Messages : m[1] = head /\ queue[m] > 0
                      \/ \E w \in Workers : worker[w].decision = head
      BY DEF SomeoneIsResponsible
  <2>1. Taken(head) \/ (\E w \in Workers : Holder(w, head)) \/ Patient(head)
    BY DEF DutyInv, Expected, Attended
  <2>2. QED
    BY <2>1 DEF Taken, Holder, Patient, AtClaim, AboutToSend
<1>5. QED
  BY <1>1, <1>2, <1>3, <1>4, TypeCorrect, RowsAgree, PTL DEF Spec
=============================================================================
