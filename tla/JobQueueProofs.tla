--------------------------- MODULE JobQueueProofs ---------------------------
(***************************************************************************)
(* Proofs about JobQueue, for any jobs, workers, timeouts and fault bound. *)
(***************************************************************************)
EXTENDS JobQueue, FiniteSetTheorems, TLAPS

USE DEF Executing, Holding, Stages, Ops, Terminal, Pending

-----------------------------------------------------------------------------
(***************************************************************************)
(* Type correctness                                                        *)
(***************************************************************************)

\* The insertion order is a natural number: there are finitely many jobs.
LEMMA CreatedNat == \A S \in SUBSET Jobs : 1 + Cardinality(S) \in Nat
<1> SUFFICES ASSUME NEW S \in SUBSET Jobs PROVE Cardinality(S) \in Nat
  OBVIOUS
<1>1. IsFiniteSet(S)
  BY FiniteAssumption, FS_Subset
<1> QED
  BY <1>1, FS_CardinalityType

LEMMA Statuses ==
    /\ Terminal \subseteq JobStatus
    /\ Pending \subseteq JobStatus
    /\ "absent" \in JobStatus
    /\ "completed" \in JobStatus /\ "failed" \in JobStatus
    /\ "cancelled" \in JobStatus /\ "queued" \in JobStatus /\ "active" \in JobStatus
  BY DEF JobStatus

\* What each statement does to a table, column by column.
LEMMA EnqueueColumns ==
    ASSUME NEW t \in [Jobs -> RowType], NEW j \in Jobs, NEW now \in Nat
    PROVE  LET u == EnqueueRow(t, j, now)
           IN  /\ u \in [Jobs -> RowType]
               /\ u[j].status = "queued" /\ u[j].lock = t[j].lock
               /\ u[j].stalls = t[j].stalls
               /\ \A k \in Jobs \ {j} : u[k] = t[k]
<1> DEFINE q == [t[j] EXCEPT !.status = "queued", !.created = now]
<1>1. /\ q \in RowType
      /\ q.status = "queued" /\ q.lock = t[j].lock /\ q.stalls = t[j].stalls
  BY Statuses DEF RowType
<1>2. EnqueueRow(t, j, now) = [t EXCEPT ![j] = q]
  BY DEF EnqueueRow
<1> HIDE DEF q
<1> QED
  BY <1>1, <1>2

LEMMA ClaimColumns ==
    ASSUME NEW t \in [Jobs -> RowType], NEW j \in Jobs, NEW l \in Workers
    PROVE  LET u == ClaimRow(t, j, l)
           IN  /\ u \in [Jobs -> RowType]
               /\ u[j].status = "active" /\ u[j].lock = l
               /\ u[j].stalls = t[j].stalls
               /\ \A k \in Jobs \ {j} : u[k] = t[k]
<1> DEFINE q == [t[j] EXCEPT !.status = "active", !.lock = l]
<1>1. /\ q \in RowType
      /\ q.status = "active" /\ q.lock = l /\ q.stalls = t[j].stalls
  BY Statuses DEF RowType
<1>2. ClaimRow(t, j, l) = [t EXCEPT ![j] = q]
  BY DEF ClaimRow
<1> HIDE DEF q
<1> QED
  BY <1>1, <1>2

LEMMA CompleteColumns ==
    ASSUME NEW t \in [Jobs -> RowType], NEW j \in Jobs
    PROVE  LET u == CompleteRow(t, j)
           IN  /\ u \in [Jobs -> RowType]
               /\ u[j].status = "completed" /\ u[j].lock = NoLock
               /\ u[j].stalls = t[j].stalls
               /\ \A k \in Jobs \ {j} : u[k] = t[k]
<1> DEFINE q == [t[j] EXCEPT !.status = "completed", !.lock = NoLock]
<1>1. /\ q \in RowType
      /\ q.status = "completed" /\ q.lock = NoLock /\ q.stalls = t[j].stalls
  BY Statuses DEF RowType
<1>2. CompleteRow(t, j) = [t EXCEPT ![j] = q]
  BY DEF CompleteRow
<1> HIDE DEF q
<1> QED
  BY <1>1, <1>2

LEMMA FailColumns ==
    ASSUME NEW t \in [Jobs -> RowType], NEW j \in Jobs
    PROVE  LET u == FailRow(t, j)
           IN  /\ u \in [Jobs -> RowType]
               /\ u[j].status = "failed" /\ u[j].lock = NoLock
               /\ u[j].stalls = t[j].stalls
               /\ \A k \in Jobs \ {j} : u[k] = t[k]
<1> DEFINE q == [t[j] EXCEPT !.status = "failed", !.lock = NoLock]
<1>1. /\ q \in RowType
      /\ q.status = "failed" /\ q.lock = NoLock /\ q.stalls = t[j].stalls
  BY Statuses DEF RowType
<1>2. FailRow(t, j) = [t EXCEPT ![j] = q]
  BY DEF FailRow
<1> HIDE DEF q
<1> QED
  BY <1>1, <1>2

LEMMA CancelColumns ==
    ASSUME NEW t \in [Jobs -> RowType], NEW S
    PROVE  LET u == CancelRows(t, S)
           IN  /\ u \in [Jobs -> RowType]
               /\ \A k \in Jobs :
                     IF k \in S /\ t[k].status \in Pending
                     THEN /\ u[k].status = "cancelled" /\ u[k].lock = NoLock
                          /\ u[k].stalls = t[k].stalls
                     ELSE u[k] = t[k]
<1> DEFINE q(k) == [t[k] EXCEPT !.status = "cancelled", !.lock = NoLock]
<1>1. ASSUME NEW k \in Jobs
      PROVE  /\ q(k) \in RowType
             /\ q(k).status = "cancelled" /\ q(k).lock = NoLock
             /\ q(k).stalls = t[k].stalls
  <2>1. t[k] \in RowType
    OBVIOUS
  <2> QED
    BY <2>1, Statuses DEF RowType
<1>2. CancelRows(t, S) =
        [k \in Jobs |-> IF k \in S /\ t[k].status \in Pending THEN q(k) ELSE t[k]]
  BY DEF CancelRows
<1> HIDE DEF q
<1> QED
  BY <1>1, <1>2

LEMMA RequeueColumns ==
    ASSUME NEW t \in [Jobs -> RowType], NEW S
    PROVE  LET u == RequeueRows(t, S)
           IN  /\ u \in [Jobs -> RowType]
               /\ \A k \in Jobs :
                     IF k \in S /\ t[k].status = "active"
                     THEN /\ u[k].status = "queued" /\ u[k].lock = NoLock
                          /\ u[k].stalls = t[k].stalls + 1
                     ELSE u[k] = t[k]
<1> DEFINE q(k) == [t[k] EXCEPT !.status = "queued", !.lock = NoLock, !.stalls = @ + 1]
<1>1. ASSUME NEW k \in Jobs
      PROVE  /\ q(k) \in RowType
             /\ q(k).status = "queued" /\ q(k).lock = NoLock
             /\ q(k).stalls = t[k].stalls + 1
  <2>1. t[k] \in RowType
    OBVIOUS
  <2>2. PICK n \in Nat : n = t[k].stalls + 1
    BY <2>1 DEF RowType
  <2>3. q(k) = [t[k] EXCEPT !.status = "queued", !.lock = NoLock, !.stalls = n]
    BY <2>2
  <2> HIDE DEF q
  <2> QED
    BY <2>1, <2>2, <2>3, Statuses DEF RowType
<1>2. RequeueRows(t, S) =
        [k \in Jobs |-> IF k \in S /\ t[k].status = "active" THEN q(k) ELSE t[k]]
  BY DEF RequeueRows
<1> HIDE DEF q
<1> QED
  BY <1>1, <1>2

LEMMA FailOverColumns ==
    ASSUME NEW t \in [Jobs -> RowType], NEW m \in Nat
    PROVE  LET u == FailOverRows(t, m)
           IN  /\ u \in [Jobs -> RowType]
               /\ \A k \in Jobs :
                     \/ /\ t[k].status = "queued" /\ u[k].status = "failed"
                        /\ u[k].lock = t[k].lock /\ u[k].stalls = t[k].stalls
                     \/ u[k] = t[k]
<1> DEFINE q(k) == [t[k] EXCEPT !.status = "failed"]
           over(k) == t[k].status = "queued" /\ t[k].stalls > 0 /\ t[k].stalls >= m
<1>1. \A k \in Jobs : /\ q(k) \in RowType
                      /\ q(k).status = "failed" /\ q(k).lock = t[k].lock
                      /\ q(k).stalls = t[k].stalls
  BY Statuses DEF RowType
<1>2. FailOverRows(t, m) = [k \in Jobs |-> IF over(k) THEN q(k) ELSE t[k]]
  BY DEF FailOverRows
<1>3. \A k \in Jobs : over(k) => t[k].status = "queued"
  OBVIOUS
<1> HIDE DEF q, over
<1> QED
  BY <1>1, <1>2, <1>3

\* An insertion keeps the table's type and touches no other row.
LEMMA EnqueueType ==
    ASSUME TypeOK, NEW j \in Jobs, Enqueue(j)
    PROVE  /\ rows' \in [Jobs -> RowType]
           /\ rows'[j].status = "queued" /\ rows'[j].lock = rows[j].lock
           /\ rows'[j].stalls = rows[j].stalls
           /\ \A k \in Jobs \ {j} : rows'[k] = rows[k]
<1>1. rows \in [Jobs -> RowType]
  BY DEF TypeOK
<1>2. PICK n \in Nat : rows' = EnqueueRow(rows, j, n)
  BY CreatedNat DEF Enqueue
<1> QED
  BY <1>1, <1>2, EnqueueColumns

\* A statement that settles a row keeps the table's type, lock column included,
\* and touches no other row.
LEMMA SettleType ==
    ASSUME TypeOK, NEW j \in Jobs, NEW op \in Ops, Settle(op, j)
    PROVE  /\ rows' \in [Jobs -> RowType]
           /\ lockAge' \in [Jobs -> 0 .. StaleAfter + 1]
           /\ \A k \in Jobs : rows'[k].lock # NoLock <=> rows'[k].status = "active"
           /\ rows'[j].status \in Terminal
           /\ rows'[j].stalls = rows[j].stalls
           /\ \A k \in Jobs \ {j} : rows'[k] = rows[k] /\ lockAge'[k] = lockAge[k]
<1>1. rows \in [Jobs -> RowType] /\ lockAge \in [Jobs -> 0 .. StaleAfter + 1]
  BY DEF TypeOK
<1>2. rows' = CompleteRow(rows, j) \/ rows' = FailRow(rows, j)
  BY DEF Settle
<1>4. /\ rows' \in [Jobs -> RowType]
      /\ rows'[j].status \in {"completed", "failed"}
      /\ rows'[j].lock = NoLock
      /\ rows'[j].stalls = rows[j].stalls
      /\ \A k \in Jobs \ {j} : rows'[k] = rows[k]
  BY <1>1, <1>2, CompleteColumns, FailColumns
<1>5. /\ lockAge' \in [Jobs -> 0 .. StaleAfter + 1]
      /\ \A k \in Jobs \ {j} : lockAge'[k] = lockAge[k]
  BY <1>1, BoundsAssumption DEF Settle, StaleAfter
<1>6. \A k \in Jobs : rows'[k].lock # NoLock <=> rows'[k].status = "active"
  BY <1>4 DEF TypeOK
<1> QED
  BY <1>4, <1>5, <1>6

\* A claim keeps the table's type and touches no other row.
LEMMA ClaimType ==
    ASSUME TypeOK, NEW j \in Jobs, NEW w \in Workers, ClaimEffect(w, j)
    PROVE  /\ rows' \in [Jobs -> RowType]
           /\ lockAge' \in [Jobs -> 0 .. StaleAfter + 1]
           /\ \A k \in Jobs : rows'[k].lock # NoLock <=> rows'[k].status = "active"
           /\ rows'[j].status = "active" /\ lockAge'[j] = 0
           /\ rows'[j].stalls = rows[j].stalls
           /\ \A k \in Jobs \ {j} : rows'[k] = rows[k] /\ lockAge'[k] = lockAge[k]
<1>1. rows' = ClaimRow(rows, j, w)
  BY DEF ClaimEffect
<1>2. lockAge' \in [Jobs -> 0 .. StaleAfter + 1]
  BY BoundsAssumption DEF ClaimEffect, TypeOK, StaleAfter
<1>3. lockAge'[j] = 0 /\ \A k \in Jobs \ {j} : lockAge'[k] = lockAge[k]
  BY DEF ClaimEffect, TypeOK
<1>4. /\ rows' \in [Jobs -> RowType]
      /\ rows'[j].status = "active" /\ rows'[j].lock = w
      /\ rows'[j].stalls = rows[j].stalls
      /\ \A k \in Jobs \ {j} : rows'[k] = rows[k]
  BY <1>1, ClaimColumns DEF TypeOK
<1> QED
  BY <1>2, <1>3, <1>4, WorkersAssumption DEF TypeOK

\* A requeue keeps the table's type; it makes the stale rows queued, with one more
\* stall, and leaves the others.
LEMMA RequeueType ==
    ASSUME TypeOK, RequeueEffect
    PROVE  /\ rows' \in [Jobs -> RowType]
           /\ lockAge' \in [Jobs -> 0 .. StaleAfter + 1]
           /\ \A k \in Jobs : rows'[k].lock # NoLock <=> rows'[k].status = "active"
           /\ \A k \in Stale : /\ rows'[k].status = "queued"
                               /\ rows'[k].stalls = rows[k].stalls + 1
           /\ \A k \in Jobs \ Stale : rows'[k] = rows[k] /\ lockAge'[k] = lockAge[k]
<1>1. rows' = RequeueRows(rows, Stale)
  BY DEF RequeueEffect
<1>2. \A k \in Stale : k \in Jobs /\ rows[k].status = "active"
  BY DEF Stale
<1>3. /\ lockAge' \in [Jobs -> 0 .. StaleAfter + 1]
      /\ \A k \in Jobs \ Stale : lockAge'[k] = lockAge[k]
  BY BoundsAssumption DEF RequeueEffect, TypeOK, StaleAfter
<1> QED
  BY <1>1, <1>2, <1>3, RequeueColumns DEF TypeOK

\* Giving up what is queued keeps the table's type and touches no other row.
LEMMA FailOverType ==
    ASSUME TypeOK, FailOverEffect
    PROVE  /\ rows' \in [Jobs -> RowType]
           /\ lockAge' = lockAge
           /\ \A k \in Jobs : rows'[k].lock # NoLock <=> rows'[k].status = "active"
           /\ \A k \in Jobs :
                 \/ /\ rows[k].status = "queued" /\ rows'[k].status = "failed"
                    /\ rows'[k].stalls = rows[k].stalls
                 \/ rows'[k] = rows[k]
<1>1. rows' = FailOverRows(rows, MaxStalls) /\ lockAge' = lockAge
  BY DEF FailOverEffect
<1>2. /\ rows' \in [Jobs -> RowType]
      /\ \A k \in Jobs :
            \/ /\ rows[k].status = "queued" /\ rows'[k].status = "failed"
               /\ rows'[k].lock = rows[k].lock /\ rows'[k].stalls = rows[k].stalls
            \/ rows'[k] = rows[k]
  BY <1>1, FailOverColumns, BoundsAssumption DEF TypeOK
<1>3. \A k \in Jobs : rows'[k].lock # NoLock <=> rows'[k].status = "active"
  BY <1>2 DEF TypeOK
<1> QED
  BY <1>1, <1>2, <1>3

\* What a statement that lands after its caller left does: a claim and its count, what
\* the recovery loop does, or nothing.
LEMMA LateEffect ==
    ASSUME TypeOK, LateStatement
    PROVE  /\ UNCHANGED <<worker, permits, orphans, recovery, notified, faults>>
           /\ late' \in [LateOps -> Nat]
           /\ \/ \E w \in Workers, j \in NextQueued(rows, Prio) :
                    /\ ClaimEffect(w, j)
                    /\ takenLate' = [takenLate EXCEPT ![j] = @ + 1]
              \/ /\ RequeueEffect \/ FailOverEffect \/ UNCHANGED <<rows, lockAge>>
                 /\ UNCHANGED takenLate
<1>1. ASSUME NEW op \in LateOps, Arrives(op)
      PROVE  /\ UNCHANGED <<worker, permits, orphans, recovery, notified, faults>>
             /\ late' \in [LateOps -> Nat]
  BY <1>1 DEF Arrives, TypeOK
<1>2. \E op \in LateOps : Arrives(op)
  BY DEF LateStatement, ClaimArrives, RequeueArrives, FailOverArrives, NothingArrives, LateOps
<1> QED
  BY <1>1, <1>2 DEF LateStatement, ClaimArrives, RequeueArrives, FailOverArrives, NothingArrives

\* A statement left in flight is one more of its kind.
LEMMA LeftType ==
    ASSUME TypeOK, NEW op \in LateOps, LeftInFlight(op)
    PROVE  late' \in [LateOps -> Nat]
  BY DEF LeftInFlight, TypeOK

\* Giving the permit back.
LEMMA ReleaseType ==
    ASSUME TypeOK, NEW w \in Workers, Release(w)
    PROVE  /\ worker' \in [Workers -> WorkerType]
           /\ permits' \in Nat
           /\ \A v \in Workers :
                 /\ Holds(v)' <=> worker'[v].job # NoJob
                 /\ Holds(v)' => worker'[v].timer <= Limit(worker'[v].pc)
  BY NoJobAssumption, BoundsAssumption
  DEF TypeOK, Release, Idle, WorkerType, Holds, Limit

\* Moving to another stage of the same job with a new timer.
LEMMA RestartType ==
    ASSUME TypeOK, NEW w \in Workers, NEW s \in Holding, Holds(w), Restart(w, s)
    PROVE  /\ worker' \in [Workers -> WorkerType]
           /\ \A v \in Workers :
                 /\ Holds(v)' <=> worker'[v].job # NoJob
                 /\ Holds(v)' => worker'[v].timer <= Limit(worker'[v].pc)
<1> DEFINE q == [worker[w] EXCEPT !.pc = s, !.timer = 0]
<1>1. /\ q \in WorkerType
      /\ q.pc = s /\ q.timer = 0 /\ q.job = worker[w].job
  BY DEF TypeOK, WorkerType
<1>2. worker' = [worker EXCEPT ![w] = q]
  BY DEF Restart
<1>3. \A t \in Stages : 0 <= Limit(t)
  BY BoundsAssumption DEF Limit
<1> HIDE DEF q
<1> QED
  BY <1>1, <1>2, <1>3 DEF TypeOK, Holds

\* A statement left in flight is a statement about one of the jobs.
LEMMA InFlightType ==
    ASSUME TypeOK, NEW w \in Workers, worker[w].pc \in Ops
    PROVE  InFlight(w) \in OrphanType /\ InFlight(w).wait <= DbLatency
  BY BoundsAssumption
  DEF TypeOK, InFlight, OrphanType, WorkerType, Holds, Limit

LEMMA TypeInit == Init => TypeOK
<1> SUFFICES ASSUME Init PROVE TypeOK
  OBVIOUS
<1>1. AbsentRow \in RowType /\ AbsentRow.lock = NoLock /\ AbsentRow.status # "active"
  BY Statuses DEF AbsentRow, RowType
<1>2. Idle \in WorkerType /\ Idle.pc \notin Holding /\ Idle.job = NoJob
  BY DEF Idle, WorkerType
<1>3. 0 \in 0 .. StaleAfter + 1 /\ 0 \in 0 .. MaxFaults /\ MaxConcurrent \in Nat /\ 0 \in Nat
  BY BoundsAssumption DEF StaleAfter
<1> QED
  BY <1>1, <1>2, <1>3 DEF Init, TypeOK, Holds

LEMMA TypeStep == TypeOK /\ [Next]_vars => TypeOK'
<1> SUFFICES ASSUME TypeOK, [Next]_vars PROVE TypeOK'
  OBVIOUS
<1> USE BoundsAssumption, NoJobAssumption, WorkersAssumption DEF StaleAfter
<1>1. ASSUME NEW j \in Jobs, Enqueue(j) PROVE TypeOK'
  <2>1. /\ rows' \in [Jobs -> RowType]
        /\ rows'[j].status = "queued" /\ rows'[j].lock = rows[j].lock
        /\ \A k \in Jobs \ {j} : rows'[k] = rows[k]
    BY <1>1, EnqueueType
  <2>2. rows[j].lock = NoLock
    BY <1>1 DEF Enqueue, TypeOK
  <2> QED
    BY <1>1, <2>1, <2>2 DEF Enqueue, TypeOK, Holds
<1>2. ASSUME NEW j \in Jobs, CancelJob(j) PROVE TypeOK'
  BY <1>2, CancelColumns DEF CancelJob, TypeOK, Holds
<1>3. ASSUME NEW w \in Workers, WorkerStep(w) PROVE TypeOK'
  <2>1. CASE AcquirePermit(w)
    BY <2>1 DEF AcquirePermit, Goto, TypeOK, WorkerType, Holds, Limit
  <2>2. CASE Claim(w)
    <3>1. PICK j \in Jobs :
             /\ ClaimEffect(w, j)
             /\ worker' = [worker EXCEPT ![w] =
                   [pc |-> "claimed", job |-> j, claim |-> rows[j].stalls, timer |-> 0]]
      BY <2>2 DEF Claim, NextQueued, TypeOK
    <3>2. rows[j].stalls \in Nat
      BY DEF TypeOK, RowType
    <3>3. /\ worker' \in [Workers -> WorkerType]
          /\ \A v \in Workers :
                /\ Holds(v)' <=> worker'[v].job # NoJob
                /\ Holds(v)' => worker'[v].timer <= Limit(worker'[v].pc)
      BY <3>1, <3>2 DEF TypeOK, WorkerType, Holds, Limit
    <3> QED
      BY <2>2, <3>1, <3>3, ClaimType DEF Claim, TypeOK
  <2>3. CASE ClaimNone(w)
    BY <2>3, ReleaseType DEF ClaimNone, TypeOK
  <2>4. CASE ClaimError(w)
    <3>1. /\ rows' \in [Jobs -> RowType]
          /\ lockAge' \in [Jobs -> 0 .. StaleAfter + 1]
          /\ \A k \in Jobs : rows'[k].lock # NoLock <=> rows'[k].status = "active"
      BY <2>4, ClaimType DEF ClaimError, NextQueued, TypeOK
    <3>2. late' \in [LateOps -> Nat]
      BY <2>4, LeftType DEF ClaimError, LateOps, TypeOK
    <3> QED
      BY <2>4, <3>1, <3>2, ReleaseType DEF ClaimError, Fault, TypeOK
  <2>5. CASE StartJob(w)
    BY <2>5, RestartType DEF StartJob, TypeOK, Holds
  <2>6. CASE RejectEnvelope(w)
    BY <2>6, RestartType DEF RejectEnvelope, TypeOK, Holds
  <2>7. CASE ExecFails(w)
    BY <2>7, RestartType DEF ExecFails, TypeOK, Holds
  <2>8. CASE SendComplete(w)
    BY <2>8 DEF SendComplete, Goto, TypeOK, WorkerType, Holds, Limit
  <2>9. CASE CompleteApplied(w)
    <3>1. worker[w].job \in Jobs
      BY <2>9 DEF CompleteApplied, TypeOK, WorkerType, Holds
    <3>2. /\ worker' \in [Workers -> WorkerType]
          /\ \A v \in Workers :
                /\ Holds(v)' <=> worker'[v].job # NoJob
                /\ Holds(v)' => worker'[v].timer <= Limit(worker'[v].pc)
      BY <2>9 DEF CompleteApplied, Goto, TypeOK, WorkerType, Holds, Limit
    <3> QED
      BY <2>9, <3>1, <3>2, SettleType DEF CompleteApplied, TypeOK
  <2>10. CASE CompleteErrors(w)
    <3>1. worker[w].job \in Jobs /\ Holds(w)
      BY <2>10 DEF CompleteErrors, TypeOK, WorkerType, Holds
    <3>2. /\ rows' \in [Jobs -> RowType]
          /\ lockAge' \in [Jobs -> 0 .. StaleAfter + 1]
          /\ \A k \in Jobs : rows'[k].lock # NoLock <=> rows'[k].status = "active"
      BY <2>10, <3>1, SettleType DEF CompleteErrors, TypeOK
    <3>3. orphans' \in SUBSET OrphanType /\ \A o \in orphans' : o.wait <= DbLatency
      BY <2>10, InFlightType DEF CompleteErrors, TypeOK
    <3> QED
      BY <2>10, <3>1, <3>2, <3>3, RestartType DEF CompleteErrors, Fault, TypeOK
  <2>11. CASE DeliverWebhook(w)
    BY <2>11 DEF DeliverWebhook, TypeOK, WorkerType, Holds
  <2>12. CASE Finish(w)
    BY <2>12, ReleaseType DEF Finish, TypeOK
  <2>13. CASE Timeout(w)
    <3>1. orphans' \in SUBSET OrphanType /\ \A o \in orphans' : o.wait <= DbLatency
      BY <2>13, InFlightType DEF Timeout, TypeOK
    <3> QED
      BY <2>13, <3>1, RestartType DEF Timeout, TypeOK, Holds
  <2>14. CASE FailApplied(w)
    <3>1. worker[w].job \in Jobs
      BY <2>14 DEF FailApplied, TypeOK, WorkerType, Holds
    <3> QED
      BY <2>14, <3>1, SettleType, ReleaseType DEF FailApplied, TypeOK
  <2>15. CASE FailErrors(w)
    <3>1. orphans' \in SUBSET OrphanType /\ \A o \in orphans' : o.wait <= DbLatency
      BY <2>15, InFlightType DEF FailErrors, TypeOK
    <3> QED
      BY <2>15, <3>1, ReleaseType DEF FailErrors, Fault, TypeOK
  <2>16. CASE Panic(w)
    BY <2>16, ReleaseType DEF Panic, Fault, TypeOK
  <2> QED
    BY <1>3, <2>1, <2>2, <2>3, <2>4, <2>5, <2>6, <2>7, <2>8, <2>9, <2>10, <2>11,
       <2>12, <2>13, <2>14, <2>15, <2>16 DEF WorkerStep
<1>4. CASE OrphanApplied
  <2>1. PICK o \in orphans : Settle(o.op, o.job) /\ orphans' = orphans \ {o}
    BY <1>4 DEF OrphanApplied
  <2>2. o.op \in Ops /\ o.job \in Jobs
    BY DEF TypeOK, OrphanType
  <2> QED
    BY <1>4, <2>1, <2>2, SettleType DEF OrphanApplied, TypeOK, Holds
<1>5. CASE OrphanDropped
  BY <1>5 DEF OrphanDropped, TypeOK, Holds
<1>6. CASE Crash
  <2>1. orphans' \in SUBSET OrphanType /\ \A o \in orphans' : o.wait <= DbLatency
    BY <1>6, InFlightType DEF Crash, TypeOK
  <2>2. /\ worker' \in [Workers -> WorkerType]
        /\ \A v \in Workers : ~ Holds(v)' /\ worker'[v].job = NoJob
    BY <1>6 DEF Crash, Idle, WorkerType, Holds
  <2>3. late' \in [LateOps -> Nat]
    <3>1. PICK sent \in SUBSET {w \in Workers : worker[w].pc \in Ops \cup {"claim"}}, n \in {0, 1} :
             late' = [op \in LateOps |-> late[op] + Cardinality({w \in sent : worker[w].pc = op})
                                                  + IF op = recovery THEN n ELSE 0]
      BY <1>6 DEF Crash
    <3>2. ASSUME NEW op \in LateOps PROVE Cardinality({w \in sent : worker[w].pc = op}) \in Nat
      <4>1. IsFiniteSet({w \in sent : worker[w].pc = op})
        BY FiniteAssumption, FS_Subset
      <4> QED
        BY <4>1, FS_CardinalityType
    <3> QED
      BY <3>1, <3>2 DEF TypeOK
  <2> QED
    BY <1>6, <2>1, <2>2, <2>3 DEF Crash, Fault, TypeOK
<1>7. CASE Requeue
  BY <1>7, RequeueType DEF Requeue, TypeOK, Holds
<1>8. CASE RequeueError
  <2>1. late' \in [LateOps -> Nat]
    BY <1>8, LeftType DEF RequeueError, LateOps, TypeOK
  <2>2. /\ rows' \in [Jobs -> RowType]
        /\ lockAge' \in [Jobs -> 0 .. StaleAfter + 1]
        /\ \A k \in Jobs : rows'[k].lock # NoLock <=> rows'[k].status = "active"
    BY <1>8, RequeueType DEF RequeueError, TypeOK
  <2> QED
    BY <1>8, <2>1, <2>2 DEF RequeueError, Fault, TypeOK, Holds
<1>9. CASE FailOver
  BY <1>9, FailOverType DEF FailOver, TypeOK, Holds
<1>10. CASE FailOverError
  <2>1. late' \in [LateOps -> Nat]
    BY <1>10, LeftType DEF FailOverError, LateOps, TypeOK
  <2> QED
    BY <1>10, <2>1 DEF FailOverError, Fault, TypeOK, Holds
<1>11. CASE Tick
  <2>1. lockAge' \in [Jobs -> 0 .. StaleAfter + 1]
    BY <1>11 DEF Tick, Older, TypeOK
  <2>2. /\ worker' \in [Workers -> WorkerType]
        /\ \A v \in Workers :
              /\ Holds(v)' <=> worker'[v].job # NoJob
              /\ Holds(v)' => worker'[v].timer <= Limit(worker'[v].pc)
    BY <1>11 DEF Tick, TypeOK, WorkerType, Holds, Limit
  <2>3. orphans' \in SUBSET OrphanType /\ \A o \in orphans' : o.wait <= DbLatency
    BY <1>11 DEF Tick, TypeOK, OrphanType
  <2> QED
    BY <1>11, <2>1, <2>2, <2>3 DEF Tick, TypeOK
<1>12. CASE LateStatement
  <2>1. CASE \E w \in Workers, j \in NextQueued(rows, Prio) :
                /\ ClaimEffect(w, j)
                /\ takenLate' = [takenLate EXCEPT ![j] = @ + 1]
    <3>1. PICK w \in Workers, j \in Jobs :
             /\ ClaimEffect(w, j)
             /\ takenLate' = [takenLate EXCEPT ![j] = @ + 1]
      BY <2>1 DEF NextQueued, TypeOK
    <3>2. takenLate' \in [Jobs -> Nat]
      BY <3>1 DEF TypeOK
    <3> QED
      BY <1>12, <3>1, <3>2, ClaimType, LateEffect DEF TypeOK, Holds
  <2>2. CASE /\ RequeueEffect \/ FailOverEffect \/ UNCHANGED <<rows, lockAge>>
             /\ UNCHANGED takenLate
    <3>1. /\ rows' \in [Jobs -> RowType]
          /\ lockAge' \in [Jobs -> 0 .. StaleAfter + 1]
          /\ \A k \in Jobs : rows'[k].lock # NoLock <=> rows'[k].status = "active"
      BY <2>2, RequeueType, FailOverType DEF TypeOK
    <3> QED
      BY <1>12, <2>2, <3>1, LateEffect DEF TypeOK, Holds
  <2> QED
    BY <1>12, <2>1, <2>2, LateEffect
<1>13. CASE UNCHANGED vars
  BY <1>13 DEF vars, TypeOK, Holds
<1> QED
  BY <1>1, <1>2, <1>3, <1>4, <1>5, <1>6, <1>7, <1>8, <1>9, <1>10, <1>11, <1>12, <1>13
  DEF Next, Api, Recover

\* Every reachable state has its type: in particular a row is locked exactly while
\* it is active, and no worker outstays the limit of its stage.
THEOREM TypeCorrect == Spec => []TypeOK
  BY TypeInit, TypeStep, PTL DEF Spec

-----------------------------------------------------------------------------
(***************************************************************************)
(* What a step does to a row                                               *)
(***************************************************************************)

RowEffect(j) ==
    \/ rows'[j] = rows[j] /\ (lockAge'[j] = lockAge[j] \/ Tick)
    \/ rows'[j].status \in Terminal /\ rows'[j].stalls = rows[j].stalls
    \/ /\ rows[j].status = "absent" /\ rows'[j].status = "queued"
       /\ rows'[j].stalls = rows[j].stalls
    \/ /\ rows[j].status = "queued" /\ rows'[j].status = "active"
       /\ rows'[j].stalls = rows[j].stalls
       /\ \/ faults' = faults + 1
          \/ takenLate'[j] = takenLate[j] + 1
          \/ \E w \in Workers : Claim(w) /\ worker'[w].pc = "claimed" /\ worker'[w].job = j
    \/ /\ j \in Stale /\ rows'[j].status = "queued"
       /\ rows'[j].stalls = rows[j].stalls + 1

LEMMA RowEffects == TypeOK /\ [Next]_vars => \A j \in Jobs : RowEffect(j)
<1> SUFFICES ASSUME TypeOK, [Next]_vars, NEW j \in Jobs
             PROVE  RowEffect(j)
  OBVIOUS
<1> USE DEF TypeOK
<1>1. ASSUME NEW i \in Jobs, Enqueue(i) PROVE RowEffect(j)
  <2>1. /\ rows'[i].status = "queued" /\ rows'[i].stalls = rows[i].stalls
        /\ \A k \in Jobs \ {i} : rows'[k] = rows[k]
    BY <1>1, EnqueueType
  <2> QED
    BY <1>1, <2>1 DEF Enqueue, RowEffect
<1>2. ASSUME NEW i \in Jobs, CancelJob(i) PROVE RowEffect(j)
  BY <1>2, CancelColumns DEF CancelJob, RowEffect
<1>3. ASSUME NEW i \in Jobs, NEW op \in Ops, Settle(op, i) PROVE RowEffect(j)
  BY <1>3, SettleType DEF RowEffect
<1>4. ASSUME NEW i \in Jobs, NEW w \in Workers, ClaimEffect(w, i), rows[i].status = "queued",
             \/ faults' = faults + 1
             \/ takenLate'[i] = takenLate[i] + 1
             \/ Claim(w) /\ worker'[w].pc = "claimed" /\ worker'[w].job = i
      PROVE  RowEffect(j)
  BY <1>4, ClaimType DEF RowEffect
<1>5. CASE RequeueEffect
  BY <1>5, RequeueType DEF RowEffect
<1>6. CASE FailOverEffect
  BY <1>6, FailOverType DEF RowEffect
<1>7. CASE UNCHANGED <<rows, lockAge>>
  BY <1>7 DEF RowEffect
<1>8. ASSUME NEW w \in Workers, WorkerStep(w) PROVE RowEffect(j)
  <2>1. CASE Claim(w)
    <3>1. PICK i \in Jobs :
             /\ ClaimEffect(w, i) /\ rows[i].status = "queued"
             /\ worker'[w] = [pc |-> "claimed", job |-> i, claim |-> rows[i].stalls, timer |-> 0]
      BY <2>1 DEF Claim, NextQueued
    <3> QED
      BY <2>1, <3>1, <1>4
  <2>2. CASE ClaimError(w)
    BY <2>2, <1>4, <1>7 DEF ClaimError, NextQueued, Fault
  <2>3. CASE CompleteApplied(w) \/ CompleteErrors(w) \/ FailApplied(w)
    <3>1. worker[w].job \in Jobs
      BY <2>3 DEF CompleteApplied, CompleteErrors, FailApplied, WorkerType, Holds
    <3> QED
      BY <2>3, <3>1, <1>3, <1>7 DEF CompleteApplied, CompleteErrors, FailApplied
  <2>4. ~ (Claim(w) \/ ClaimError(w) \/ CompleteApplied(w) \/ CompleteErrors(w) \/ FailApplied(w))
           => UNCHANGED <<rows, lockAge>>
    BY <1>8 DEF WorkerStep, AcquirePermit, ClaimNone, StartJob, RejectEnvelope, ExecFails,
         SendComplete, DeliverWebhook, Finish, Timeout, FailErrors, Panic
  <2> QED
    BY <1>7, <2>1, <2>2, <2>3, <2>4
<1>9. CASE OrphanApplied
  BY <1>9, <1>3 DEF OrphanApplied, OrphanType
<1>10. CASE Requeue \/ RequeueError
  BY <1>10, <1>5, <1>7 DEF Requeue, RequeueError
<1>11. CASE OrphanDropped \/ Crash \/ FailOverError \/ UNCHANGED vars
  BY <1>11, <1>7 DEF OrphanDropped, Crash, FailOverError, vars
<1>12. CASE Tick
  BY <1>12 DEF Tick, RowEffect
<1>13. CASE LateStatement
  <2>1. ASSUME NEW w \in Workers, NEW i \in NextQueued(rows, Prio), ClaimEffect(w, i),
               takenLate' = [takenLate EXCEPT ![i] = @ + 1]
        PROVE  RowEffect(j)
    <3>1. i \in Jobs /\ rows[i].status = "queued" /\ takenLate'[i] = takenLate[i] + 1
      BY <2>1 DEF NextQueued
    <3> QED
      BY <2>1, <3>1, <1>4
  <2> QED
    BY <1>5, <1>6, <1>7, <1>13, <2>1, LateEffect
<1> QED
  BY <1>1, <1>2, <1>6, <1>8, <1>9, <1>10, <1>11, <1>12, <1>13 DEF Next, Api, Recover, FailOver

\* No statement of any worker, orphan, API call or recovery round brings a settled
\* row back into the queue, although complete_job and fail_job check nothing.
THEOREM SettledForGood == Spec => TerminalStays
<1>1. TypeOK /\ [Next]_vars =>
        [\A j \in Jobs : rows[j].status \in Terminal => rows'[j].status \in Terminal]_vars
  BY RowEffects DEF RowEffect, Stale
<1> QED
  BY <1>1, TypeCorrect, PTL DEF Spec, TerminalStays

-----------------------------------------------------------------------------
(***************************************************************************)
(* Exclusive claims.  The invariant: nobody holds a job that is queued or  *)
(* whose lock is stale, because a lock's age stays within the budget of    *)
(* the stage its worker is in (LocksFresh), and the largest budget, one    *)
(* execution and two statements, is within the recovery loop's threshold   *)
(* (MarginCovers).                                                         *)
(***************************************************************************)

Safe == TypeOK /\ Exclusive /\ WritesHitOwnClaim /\ LocksFresh

\* The two invariants, worker by worker and orphan by orphan.
WorkerSafe(w) ==
    Holds(w) =>
       /\ OwnClaim(worker[w].job, worker[w].claim)
       /\ rows[worker[w].job].status = "active" =>
             lockAge[worker[w].job] <= Budget(worker[w].pc, worker[w].timer)
       /\ worker[w].pc = "webhook" => rows[worker[w].job].status \in Terminal

OrphanSafe(o) ==
    /\ OwnClaim(o.job, o.claim)
    /\ rows[o.job].status = "active" => lockAge[o.job] <= DbLatency + JobTimeout + o.wait

LEMMA SafeParts ==
    Safe <=> /\ TypeOK
             /\ Exclusive
             /\ \A w \in Workers : WorkerSafe(w)
             /\ \A o \in orphans : OrphanSafe(o)
  BY DEF Safe, WritesHitOwnClaim, LocksFresh, WorkerSafe, OrphanSafe

LEMMA SafePartsNext ==
    ASSUME TypeOK', Exclusive', \A w \in Workers : WorkerSafe(w)',
           \A o \in orphans' : OrphanSafe(o)'
    PROVE  Safe'
  BY DEF Safe, WritesHitOwnClaim, LocksFresh, WorkerSafe, OrphanSafe

\* Nobody holds the job or has a statement about it in flight.
Free(j) ==
    /\ \A w \in Workers : Holds(w) => worker[w].job # j
    /\ \A o \in orphans : o.job # j

\* The key fact: what is not running, and what the recovery loop takes away, is free.
LEMMA FreeRows ==
    ASSUME Safe, MarginCovers, NEW j \in Jobs,
           rows[j].status \in {"absent", "queued"} \/ j \in Stale
    PROVE  Free(j)
<1>1. ASSUME NEW w \in Workers, Holds(w), worker[w].job = j PROVE FALSE
  <2>1. OwnClaim(j, worker[w].claim) /\ WorkerSafe(w)
    BY <1>1, SafeParts DEF WorkerSafe
  <2>2. rows[j].status = "active" /\ lockAge[j] > StaleAfter
    BY <2>1 DEF OwnClaim, Stale
  <2>3. worker[w].timer \in Nat /\ worker[w].timer <= Limit(worker[w].pc)
    BY <1>1 DEF Safe, TypeOK, WorkerType
  <2>4. lockAge[j] <= Budget(worker[w].pc, worker[w].timer)
    BY <1>1, <2>1, <2>2 DEF WorkerSafe
  <2>5. Budget(worker[w].pc, worker[w].timer) <= JobTimeout + 2 * DbLatency
    BY <1>1, <2>3, BoundsAssumption DEF Budget, Limit, Holds
  <2>6. lockAge[j] \in Nat /\ Budget(worker[w].pc, worker[w].timer) \in Nat
    BY <1>1, <2>3, BoundsAssumption DEF Safe, TypeOK, StaleAfter, Budget, Holds
  <2> QED
    BY <2>2, <2>4, <2>5, <2>6, BoundsAssumption DEF MarginCovers, StaleAfter
<1>2. ASSUME NEW o \in orphans, o.job = j PROVE FALSE
  <2>1. OwnClaim(j, o.claim) /\ OrphanSafe(o)
    BY <1>2, SafeParts DEF OrphanSafe
  <2>2. rows[j].status = "active" /\ lockAge[j] > StaleAfter
    BY <2>1 DEF OwnClaim, Stale
  <2>3. o.wait \in Nat /\ o.wait <= DbLatency /\ lockAge[j] \in Nat
    BY BoundsAssumption DEF Safe, TypeOK, OrphanType, StaleAfter
  <2> QED
    BY <1>2, <2>1, <2>2, <2>3, BoundsAssumption DEF OrphanSafe, MarginCovers, StaleAfter
<1> QED
  BY <1>1, <1>2 DEF Free

\* What a step other than a clock tick may do to a row that somebody holds: settle
\* it, or nothing.
RowsKept ==
    \A j \in Jobs :
        \/ Free(j)
        \/ rows'[j].status \in Terminal
        \/ rows'[j] = rows[j] /\ lockAge'[j] = lockAge[j]

LEMMA KeepWorker ==
    ASSUME Safe, RowsKept, NEW v \in Workers, worker'[v] = worker[v]
    PROVE  WorkerSafe(v)'
<1> SUFFICES ASSUME Holds(v)
             PROVE  WorkerSafe(v)'
  BY DEF WorkerSafe, Holds
<1>1. worker[v].job \in Jobs /\ WorkerSafe(v)
  BY SafeParts DEF Safe, TypeOK, WorkerType
<1>2. ~ Free(worker[v].job)
  BY DEF Free
<1> QED
  BY <1>1, <1>2 DEF RowsKept, WorkerSafe, OwnClaim, Holds, Budget

LEMMA KeepOrphan ==
    ASSUME Safe, RowsKept, NEW o \in orphans
    PROVE  OrphanSafe(o)'
<1>1. o.job \in Jobs /\ OrphanSafe(o)
  BY SafeParts DEF Safe, TypeOK, OrphanType
<1>2. ~ Free(o.job)
  BY DEF Free
<1> QED
  BY <1>1, <1>2 DEF RowsKept, OrphanSafe, OwnClaim

\* Every step but a tick keeps the rows.
LEMMA RowsStep ==
    ASSUME Safe, MarginCovers, [Next]_vars, ~ Tick
    PROVE  RowsKept
  BY RowEffects, FreeRows DEF Safe, RowEffect, RowsKept

\* The two disjuncts of Next that move several workers or all clocks at once.
LEMMA SafeTick ==
    ASSUME Safe, Tick, TypeOK'
    PROVE  Safe'
<1>1. UNCHANGED rows
  BY DEF Tick
<1>2. ASSUME NEW w \in Workers
      PROVE  /\ Holds(w)' <=> Holds(w)
             /\ worker'[w].pc = worker[w].pc
             /\ worker'[w].job = worker[w].job
             /\ worker'[w].claim = worker[w].claim
             /\ Holds(w) => worker'[w].timer = worker[w].timer + 1
  BY DEF Tick, Safe, TypeOK, WorkerType, Holds
<1>3. \A j \in Jobs : lockAge'[j] <= lockAge[j] + 1 /\ lockAge[j] \in Nat /\ lockAge'[j] \in Nat
  BY BoundsAssumption DEF Tick, Older, Safe, TypeOK, StaleAfter
<1>4. Exclusive'
  BY <1>2 DEF Safe, Exclusive
<1>5. ASSUME NEW w \in Workers PROVE WorkerSafe(w)'
  <2> SUFFICES ASSUME Holds(w) PROVE WorkerSafe(w)'
    BY <1>2 DEF WorkerSafe
  <2>1. worker[w].job \in Jobs /\ worker[w].timer \in Nat /\ WorkerSafe(w)
    BY SafeParts DEF Safe, TypeOK, WorkerType
  <2>2. Budget(worker'[w].pc, worker'[w].timer) = Budget(worker[w].pc, worker[w].timer) + 1
    BY <1>2, <2>1, BoundsAssumption DEF Budget, Holds
  <2>3. Budget(worker[w].pc, worker[w].timer) \in Nat
    BY <2>1, BoundsAssumption DEF Budget, Holds
  <2>4. rows[worker[w].job].status = "active" =>
           lockAge'[worker[w].job] <= Budget(worker'[w].pc, worker'[w].timer)
    BY <1>3, <2>1, <2>2, <2>3 DEF WorkerSafe
  <2> QED
    BY <1>1, <1>2, <2>1, <2>4 DEF WorkerSafe, OwnClaim
<1>6. ASSUME NEW p \in orphans' PROVE OrphanSafe(p)'
  <2>1. PICK o \in orphans : p = [o EXCEPT !.wait = @ + 1]
    BY DEF Tick
  <2>2. o \in OrphanType /\ OrphanSafe(o)
    BY SafeParts DEF Safe, TypeOK
  <2>3. p.job = o.job /\ p.claim = o.claim /\ p.wait = o.wait + 1 /\ o.wait \in Nat /\ o.job \in Jobs
    BY <2>1, <2>2 DEF OrphanType
  <2>4. rows[o.job].status = "active" => lockAge'[o.job] <= DbLatency + JobTimeout + p.wait
    BY <1>3, <2>2, <2>3, BoundsAssumption DEF OrphanSafe
  <2> QED
    BY <1>1, <2>2, <2>3, <2>4 DEF OrphanSafe, OwnClaim
<1> QED
  BY <1>4, <1>5, <1>6 DEF Safe, WritesHitOwnClaim, LocksFresh, WorkerSafe, OrphanSafe

\* A worker that stops waiting for a statement leaves it no older than a worker's
\* own fail_job could be.
LEMMA InFlightSafe ==
    ASSUME Safe, RowsKept, NEW w \in Workers, worker[w].pc \in Ops,
           NEW o, o = InFlight(w)
    PROVE  OrphanSafe(o)'
<1>1. /\ worker[w].job \in Jobs /\ WorkerSafe(w) /\ Holds(w)
      /\ worker[w].timer \in Nat /\ worker[w].timer <= Limit(worker[w].pc)
  BY SafeParts DEF Safe, TypeOK, WorkerType, Holds
<1>2. ~ Free(worker[w].job)
  BY <1>1 DEF Free
<1>3. Budget(worker[w].pc, worker[w].timer) <= DbLatency + JobTimeout + InFlight(w).wait
  BY <1>1, BoundsAssumption DEF Budget, InFlight, Limit
<1>4. lockAge[worker[w].job] \in Nat /\ Budget(worker[w].pc, worker[w].timer) \in Nat
      /\ InFlight(w).wait \in Nat
  BY <1>1, BoundsAssumption DEF Safe, TypeOK, StaleAfter, Budget, InFlight
<1>5. rows[worker[w].job].status = "active" =>
         lockAge[worker[w].job] <= DbLatency + JobTimeout + InFlight(w).wait
  BY <1>1, <1>3, <1>4, BoundsAssumption DEF WorkerSafe
<1>6. InFlight(w).job = worker[w].job /\ InFlight(w).claim = worker[w].claim
  BY DEF InFlight
<1> QED
  BY <1>1, <1>2, <1>5, <1>6 DEF RowsKept, OrphanSafe, OwnClaim, WorkerSafe

\* A worker's step moves that worker only, and leaves at most its own statement in
\* flight.  Unless it claims, it holds a job after the step only if it held it before.
LEMMA WorkerFrame ==
    ASSUME TypeOK, NEW w \in Workers, WorkerStep(w)
    PROVE  /\ \A v \in Workers \ {w} : worker'[v] = worker[v]
           /\ \A o \in orphans' : o \in orphans \/ (o = InFlight(w) /\ worker[w].pc \in Ops)
           /\ Claim(w) \/ (Holds(w)' => Holds(w) /\ worker'[w].job = worker[w].job)
<1>1. CASE Claim(w)
  BY <1>1 DEF Claim, TypeOK
<1>2. CASE AcquirePermit(w)
  BY <1>2 DEF AcquirePermit, Goto, TypeOK, WorkerType, Holds
<1>3. CASE ClaimNone(w) \/ ClaimError(w) \/ Finish(w) \/ FailApplied(w) \/ FailErrors(w) \/ Panic(w)
  <2>1. Release(w)
    BY <1>3 DEF ClaimNone, ClaimError, Finish, FailApplied, FailErrors, Panic
  <2>2. \A o \in orphans' : o \in orphans \/ (o = InFlight(w) /\ worker[w].pc \in Ops)
    BY <1>3 DEF ClaimNone, ClaimError, Finish, FailApplied, FailErrors, Panic
  <2> QED
    BY <2>1, <2>2 DEF Release, Idle, TypeOK, Holds
<1>4. CASE StartJob(w) \/ RejectEnvelope(w) \/ ExecFails(w) \/ CompleteErrors(w) \/ Timeout(w)
  <2>1. Holds(w) /\ \E s \in Holding : Restart(w, s)
    BY <1>4 DEF StartJob, RejectEnvelope, ExecFails, CompleteErrors, Timeout, Holds
  <2>2. \A o \in orphans' : o \in orphans \/ (o = InFlight(w) /\ worker[w].pc \in Ops)
    BY <1>4 DEF StartJob, RejectEnvelope, ExecFails, CompleteErrors, Timeout
  <2> QED
    BY <2>1, <2>2 DEF Restart, TypeOK, WorkerType, Holds
<1>5. CASE SendComplete(w) \/ CompleteApplied(w) \/ DeliverWebhook(w)
  BY <1>5 DEF SendComplete, CompleteApplied, DeliverWebhook, Goto, TypeOK, WorkerType, Holds
<1> QED
  BY <1>1, <1>2, <1>3, <1>4, <1>5 DEF WorkerStep

\* The worker that moves stays within the budget of its new stage.
LEMMA WorkerMoves ==
    ASSUME Safe, RowsKept, NEW w \in Workers, WorkerStep(w)
    PROVE  WorkerSafe(w)'
<1> SUFFICES ASSUME Holds(w)' PROVE WorkerSafe(w)'
  BY DEF WorkerSafe
<1>0. TypeOK
  BY DEF Safe
<1>1. CASE Claim(w)
  <2>1. PICK j \in Jobs :
           /\ ClaimEffect(w, j)
           /\ worker'[w] = [pc |-> "claimed", job |-> j, claim |-> rows[j].stalls, timer |-> 0]
    BY <1>0, <1>1 DEF Claim, NextQueued, TypeOK
  <2>2. rows'[j].status = "active" /\ rows'[j].stalls = rows[j].stalls /\ lockAge'[j] = 0
    BY <1>0, <2>1, ClaimType
  <2> QED
    BY <2>1, <2>2 DEF WorkerSafe, OwnClaim, Budget
<1>2. CASE ~ Claim(w)
  <2>1. /\ Holds(w) /\ worker'[w].job = worker[w].job /\ worker[w].job \in Jobs
        /\ WorkerSafe(w) /\ ~ Free(worker[w].job)
        /\ worker[w].timer \in Nat /\ worker[w].timer <= Limit(worker[w].pc)
    BY <1>0, <1>2, WorkerFrame, SafeParts DEF Free, TypeOK, WorkerType
  <2>2. /\ OwnClaim(worker[w].job, worker[w].claim)
        /\ \/ rows'[worker[w].job].status \in Terminal
           \/ /\ rows'[worker[w].job] = rows[worker[w].job]
              /\ lockAge'[worker[w].job] = lockAge[worker[w].job]
    BY <2>1 DEF RowsKept, WorkerSafe
  <2>3. CASE StartJob(w) \/ RejectEnvelope(w) \/ ExecFails(w) \/ CompleteErrors(w) \/ Timeout(w)
    <3>1. PICK s \in {"run", "fail"} :
             /\ worker'[w] = [worker[w] EXCEPT !.pc = s, !.timer = 0]
             /\ worker[w].pc \in Executing \cup {"claimed"}
             /\ s = "run" => worker[w].pc = "claimed"
      BY <1>0, <2>3 DEF StartJob, RejectEnvelope, ExecFails, CompleteErrors, Timeout, Restart, TypeOK
    <3>2. /\ worker'[w].pc = s /\ worker'[w].timer = 0
          /\ worker'[w].claim = worker[w].claim
      BY <1>0, <3>1 DEF TypeOK, WorkerType
    <3>3. Budget(worker[w].pc, worker[w].timer) <= Budget(s, 0)
      BY <2>1, <3>1, BoundsAssumption DEF Budget, Limit, Holds
    <3>4. /\ Budget(worker[w].pc, worker[w].timer) \in Nat /\ Budget(s, 0) \in Nat
          /\ lockAge[worker[w].job] \in Nat
      BY <1>0, <2>1, <3>1, BoundsAssumption DEF Budget, Holds, TypeOK, StaleAfter
    <3>5. rows[worker[w].job].status = "active" => lockAge[worker[w].job] <= Budget(s, 0)
      BY <2>1, <3>3, <3>4 DEF WorkerSafe
    <3> QED
      BY <2>1, <2>2, <3>1, <3>2, <3>5 DEF WorkerSafe, OwnClaim
  <2>4. CASE SendComplete(w)
    <3>1. /\ worker[w].pc = "run" /\ worker'[w].pc = "complete"
          /\ worker'[w].timer = worker[w].timer /\ worker'[w].claim = worker[w].claim
      BY <1>0, <2>4 DEF SendComplete, Goto, TypeOK, WorkerType
    <3>2. Budget(worker'[w].pc, worker'[w].timer) = Budget(worker[w].pc, worker[w].timer)
      BY <3>1 DEF Budget
    <3> QED
      BY <2>1, <2>2, <3>1, <3>2 DEF WorkerSafe, OwnClaim
  <2>5. CASE CompleteApplied(w)
    <3>1. rows'[worker[w].job].status \in Terminal
      BY <1>0, <2>1, <2>5, SettleType DEF CompleteApplied
    <3> QED
      BY <2>1, <3>1 DEF WorkerSafe, OwnClaim
  <2>6. CASE DeliverWebhook(w)
    BY <2>6, KeepWorker DEF DeliverWebhook
  <2>7. CASE AcquirePermit(w)
    BY <2>1, <2>7 DEF AcquirePermit, Holds
  <2>8. CASE ClaimNone(w) \/ ClaimError(w) \/ Finish(w) \/ FailApplied(w) \/ FailErrors(w) \/ Panic(w)
    <3>1. Release(w)
      BY <2>8 DEF ClaimNone, ClaimError, Finish, FailApplied, FailErrors, Panic
    <3> QED
      BY <1>0, <3>1 DEF Release, Idle, Holds, TypeOK
  <2> QED
    BY <1>2, <2>3, <2>4, <2>5, <2>6, <2>7, <2>8 DEF WorkerStep
<1> QED
  BY <1>1, <1>2

LEMMA SafeInit == Init => Safe
  BY TypeInit DEF Init, Safe, Exclusive, WritesHitOwnClaim, LocksFresh, Holds, Idle

LEMMA SafeStep == MarginCovers /\ Safe /\ [Next]_vars => Safe'
<1> SUFFICES ASSUME MarginCovers, Safe, [Next]_vars PROVE Safe'
  OBVIOUS
<1>1. TypeOK /\ TypeOK'
  BY TypeStep DEF Safe
<1>2. CASE Tick
  BY <1>1, <1>2, SafeTick
<1>3. CASE ~ Tick
  <2>1. RowsKept
    BY <1>3, RowsStep
  <2>2. ASSUME NEW w \in Workers, WorkerStep(w) PROVE Safe'
    <3>1. \A v \in Workers : WorkerSafe(v)'
      BY <1>1, <2>1, <2>2, WorkerFrame, KeepWorker, WorkerMoves
    <3>2. \A o \in orphans' : OrphanSafe(o)'
      BY <1>1, <2>1, <2>2, WorkerFrame, KeepOrphan, InFlightSafe
    <3>3. CASE ~ Claim(w)
      <4>1. \A v \in Workers : Holds(v)' => Holds(v) /\ worker'[v].job = worker[v].job
        BY <1>1, <2>2, <3>3, WorkerFrame DEF Holds
      <4>2. Exclusive'
        BY <4>1 DEF Safe, Exclusive
      <4> QED
        BY <1>1, <3>1, <3>2, <4>2, SafePartsNext
    <3>4. CASE Claim(w)
      <4>1. PICK j \in Jobs : rows[j].status = "queued" /\ worker'[w].job = j
        BY <1>1, <3>4 DEF Claim, NextQueued, TypeOK
      <4>2. \A v \in Workers \ {w} : worker'[v] = worker[v]
        BY <1>1, <2>2, WorkerFrame
      <4>3. Free(j)
        BY <4>1, FreeRows
      <4>4. Exclusive'
        BY <4>1, <4>2, <4>3 DEF Safe, Exclusive, Free, Holds
      <4> QED
        BY <1>1, <3>1, <3>2, <4>4, SafePartsNext
    <3> QED
      BY <3>3, <3>4
  <2>3. CASE UNCHANGED worker /\ orphans' \subseteq orphans
    <3>1. \A v \in Workers : WorkerSafe(v)'
      BY <2>1, <2>3, KeepWorker
    <3>2. \A o \in orphans' : OrphanSafe(o)'
      BY <2>1, <2>3, KeepOrphan
    <3>3. Exclusive'
      BY <2>3 DEF Safe, Exclusive, Holds
    <3> QED
      BY <1>1, <3>1, <3>2, <3>3, SafePartsNext
  <2>4. CASE Crash
    <3>1. \A v \in Workers : ~ Holds(v)'
      BY <2>4 DEF Crash, Idle, Holds
    <3>2. ASSUME NEW o \in orphans' PROVE OrphanSafe(o)'
      <4>1. o \in orphans \/ \E w \in Workers : worker[w].pc \in Ops /\ o = InFlight(w)
        BY <2>4 DEF Crash
      <4> QED
        BY <2>1, <4>1, KeepOrphan, InFlightSafe
    <3>3. Exclusive' /\ \A v \in Workers : WorkerSafe(v)'
      BY <3>1 DEF Exclusive, WorkerSafe
    <3> QED
      BY <1>1, <3>2, <3>3, SafePartsNext
  <2> QED
    BY <1>1, <1>3, <2>2, <2>3, <2>4, LateEffect DEF Next, Api, Recover, Enqueue, CancelJob,
       OrphanApplied, OrphanDropped, Requeue, RequeueError, FailOver, FailOverError, vars
<1> QED
  BY <1>2, <1>3

LEMMA SafeAlways == ASSUME MarginCovers PROVE Spec => []Safe
  BY SafeInit, SafeStep, PTL DEF Spec

\* Whatever crashes, times out, is lost or arrives late, two workers never hold the
\* same job, provided the recovery margin covers two statement latencies.
THEOREM ExclusiveClaims == ASSUME MarginCovers PROVE Spec => []Exclusive
<1>1. Safe => Exclusive
  BY DEF Safe
<1> QED
  BY <1>1, SafeAlways, PTL

\* Under the same condition no complete_job or fail_job, however late, touches a job
\* that has been queued again or claimed by someone else.
THEOREM WritesAreOwn == ASSUME MarginCovers PROVE Spec => []WritesHitOwnClaim
<1>1. Safe => WritesHitOwnClaim
  BY DEF Safe
<1> QED
  BY <1>1, SafeAlways, PTL

\* The reason: a lock is never older than the time its holder's stage accounts for.
THEOREM LocksStayFresh == ASSUME MarginCovers PROVE Spec => []LocksFresh
<1>1. Safe => LocksFresh
  BY DEF Safe
<1> QED
  BY <1>1, SafeAlways, PTL

-----------------------------------------------------------------------------
(***************************************************************************)
(* Stalls are paid for by faults and late claims.  A requeue takes only    *)
(* free rows, and a free active row stands for a fault, or a claim that    *)
(* landed with nobody waiting, that no stall has been charged for.         *)
(***************************************************************************)

LEMMA PaidInit == Init => StallsPaid
  BY DEF Init, StallsPaid, Unattended, AbsentRow

\* A worker that lets go of a job which is still active does so by a fault.
LEMMA LetGo ==
    ASSUME Safe, [Next]_vars, NEW w \in Workers, Holds(w),
           rows'[worker[w].job].status = "active",
           ~ (Holds(w)' /\ worker'[w].job = worker[w].job)
    PROVE  faults' = faults + 1
<1>0. TypeOK /\ worker[w].job \in Jobs
  BY DEF Safe, TypeOK, WorkerType
<1>1. CASE WorkerStep(w)
  <2>1. CASE Finish(w)
    BY <2>1 DEF Finish, Safe, LocksFresh
  <2>2. CASE FailApplied(w)
    BY <1>0, <2>2, SettleType DEF FailApplied
  <2>3. CASE ClaimError(w) \/ CompleteErrors(w) \/ FailErrors(w) \/ Panic(w)
    BY <2>3 DEF ClaimError, CompleteErrors, FailErrors, Panic, Fault
  <2>4. CASE AcquirePermit(w) \/ Claim(w) \/ ClaimNone(w)
    BY <2>4 DEF AcquirePermit, Claim, ClaimNone, Holds
  <2>5. CASE StartJob(w) \/ RejectEnvelope(w) \/ ExecFails(w) \/ Timeout(w)
    <3>1. \E s \in Holding : Restart(w, s)
      BY <2>5 DEF StartJob, RejectEnvelope, ExecFails, Timeout
    <3> QED
      BY <1>0, <3>1 DEF Restart, TypeOK, WorkerType, Holds
  <2>6. CASE SendComplete(w) \/ CompleteApplied(w) \/ DeliverWebhook(w)
    BY <1>0, <2>6 DEF SendComplete, CompleteApplied, DeliverWebhook, Goto, TypeOK, WorkerType, Holds
  <2> QED
    BY <1>1, <2>1, <2>2, <2>3, <2>4, <2>5, <2>6 DEF WorkerStep
<1>2. ASSUME NEW v \in Workers, WorkerStep(v), v # w PROVE faults' = faults + 1
  BY <1>0, <1>2, WorkerFrame DEF Holds
<1>3. CASE Crash
  BY <1>3 DEF Crash, Fault
<1>4. CASE Tick
  BY <1>0, <1>4 DEF Tick, TypeOK, WorkerType, Holds
<1>5. CASE UNCHANGED worker
  BY <1>5 DEF Holds
<1> QED
  BY <1>0, <1>1, <1>2, <1>3, <1>4, <1>5, LateEffect DEF Next, Api, Recover, Enqueue, CancelJob,
     OrphanApplied, OrphanDropped, Requeue, RequeueError, FailOver, FailOverError, vars

\* The two counts never fall.
LEMMA CountsGrow ==
    ASSUME TypeOK, [Next]_vars, NEW j \in Jobs
    PROVE  /\ faults' = faults \/ faults' = faults + 1
           /\ takenLate'[j] = takenLate[j] \/ takenLate'[j] = takenLate[j] + 1
<1>1. CASE UNCHANGED takenLate /\ (UNCHANGED faults \/ Fault)
  BY <1>1 DEF Fault
<1>2. ASSUME NEW w \in Workers, WorkerStep(w)
      PROVE  UNCHANGED takenLate /\ (UNCHANGED faults \/ Fault)
  BY <1>2 DEF WorkerStep, AcquirePermit, Claim, ClaimNone, ClaimError, StartJob, RejectEnvelope,
     ExecFails, SendComplete, CompleteApplied, CompleteErrors, DeliverWebhook, Finish, Timeout,
     FailApplied, FailErrors, Panic
<1>3. CASE LateStatement
  <2>1. UNCHANGED faults
    BY <1>3, LateEffect
  <2>2. \/ UNCHANGED takenLate
        \/ \E i \in Jobs : takenLate' = [takenLate EXCEPT ![i] = @ + 1]
    BY <1>3, LateEffect DEF NextQueued, TypeOK
  <2> QED
    BY <2>1, <2>2 DEF TypeOK
<1> QED
  BY <1>1, <1>2, <1>3 DEF Next, Api, Recover, Enqueue, CancelJob, OrphanApplied, OrphanDropped,
     Crash, Requeue, RequeueError, FailOver, FailOverError, Tick, vars

\* The count of one job: its stalls, and one more while it is active and unattended.
Owed(j) == rows[j].stalls + (IF Unattended(j) THEN 1 ELSE 0)

LEMMA PaidStep == MarginCovers /\ Safe /\ StallsPaid /\ [Next]_vars => StallsPaid'
<1> SUFFICES ASSUME MarginCovers, Safe, StallsPaid, [Next]_vars, NEW j \in Jobs
             PROVE  Owed(j)' <= faults' + takenLate'[j]
  BY DEF StallsPaid, Owed, Unattended, Holds
<1>1. TypeOK /\ TypeOK'
  BY TypeStep DEF Safe
<1>2. /\ faults' = faults \/ faults' = faults + 1
      /\ takenLate'[j] = takenLate[j] \/ takenLate'[j] = takenLate[j] + 1
  BY <1>1, CountsGrow
<1>3. /\ faults \in Nat /\ takenLate[j] \in Nat
      /\ rows[j].stalls \in Nat /\ rows'[j].stalls \in Nat
  BY <1>1, BoundsAssumption DEF TypeOK, RowType
<1>4. Owed(j) <= faults + takenLate[j]
  BY DEF StallsPaid, Owed
<1>5. CASE j \in Stale /\ rows'[j].status = "queued"
  <2>1. Unattended(j)
    BY <1>5, FreeRows DEF Free, Stale, Unattended
  <2>2. ~ Unattended(j)'
    BY <1>5 DEF Unattended
  <2>3. rows'[j].stalls = rows[j].stalls + 1 \/ rows'[j].stalls = rows[j].stalls
    BY <1>1, RowEffects DEF RowEffect
  <2> QED
    BY <1>2, <1>3, <1>4, <2>1, <2>2, <2>3 DEF Owed
<1>6. CASE ~ (j \in Stale /\ rows'[j].status = "queued")
  <2>1. rows'[j].stalls = rows[j].stalls
    BY <1>1, <1>6, RowEffects DEF RowEffect
  <2>2. CASE ~ Unattended(j)'
    BY <1>2, <1>3, <1>4, <2>1, <2>2 DEF Owed
  <2>3. CASE faults' = faults + 1 \/ takenLate'[j] = takenLate[j] + 1
    BY <1>2, <1>3, <1>4, <2>1, <2>3 DEF Owed
  <2>4. CASE Unattended(j)' /\ faults' = faults /\ takenLate'[j] = takenLate[j]
    <3>1. rows'[j].status = "active" /\ \A w \in Workers : Holds(w)' => worker'[w].job # j
      BY <2>4 DEF Unattended
    <3>2. rows[j].status = "active"
      BY <1>1, <1>3, <2>4, <3>1, RowEffects DEF RowEffect, Holds
    <3>3. \A w \in Workers : Holds(w) => worker[w].job # j
      BY <1>3, <2>4, <3>1, LetGo DEF Holds
    <3>4. Unattended(j)
      BY <3>2, <3>3 DEF Unattended
    <3> QED
      BY <1>3, <1>4, <2>1, <2>4, <3>4 DEF Owed
  <2> QED
    BY <1>2, <2>2, <2>3, <2>4
<1> QED
  BY <1>5, <1>6

\* Each stall a job is charged, and its being active with nobody going to settle it, is due
\* to a fault of its own or to a claim that landed after its caller left: timeouts, slow
\* pages and errors of a job never stall it, and no path of Worker::run forgets its job.
THEOREM StallsArePaid == ASSUME MarginCovers PROVE Spec => []StallsPaid
<1> QED
  BY PaidInit, PaidStep, SafeAlways, PTL DEF Spec

-----------------------------------------------------------------------------
(***************************************************************************)
(* Permits                                                                 *)
(***************************************************************************)

Busy == {w \in Workers : worker[w].pc # "acquire"}

LEMMA BusyFinite == IsFiniteSet(Busy) /\ Cardinality(Busy) \in Nat
  BY FiniteAssumption, FS_Subset, FS_CardinalityType DEF Busy

LEMMA PermitsInit == Init => PermitsConserved
<1> SUFFICES ASSUME Init PROVE permits + Cardinality(Busy) = MaxConcurrent
  BY DEF PermitsConserved, Busy
<1>1. Busy = {}
  BY DEF Init, Idle, Busy
<1> QED
  BY <1>1, FS_EmptySet, BoundsAssumption DEF Init

LEMMA PermitsStep == TypeOK /\ PermitsConserved /\ [Next]_vars => PermitsConserved'
<1> SUFFICES ASSUME TypeOK, PermitsConserved, [Next]_vars
             PROVE  permits' + Cardinality(Busy') = MaxConcurrent
  BY DEF PermitsConserved, Busy
<1>1. permits \in Nat /\ permits + Cardinality(Busy) = MaxConcurrent
  BY DEF TypeOK, PermitsConserved, Busy
<1>2. CASE permits' = permits /\ Busy' = Busy
  BY <1>1, <1>2
<1>3. ASSUME NEW w \in Busy, Release(w)
      PROVE  permits' + Cardinality(Busy') = MaxConcurrent
  <2>1. Busy' = Busy \ {w} /\ permits' = permits + 1
    BY <1>3 DEF Release, Idle, TypeOK, Busy
  <2>2. Cardinality(Busy \ {w}) = Cardinality(Busy) - 1
    BY BusyFinite, FS_RemoveElement
  <2> QED
    BY <1>1, <2>1, <2>2, BusyFinite
<1>4. ASSUME NEW w \in Workers, WorkerStep(w)
      PROVE  permits' + Cardinality(Busy') = MaxConcurrent
  <2>1. CASE AcquirePermit(w)
    <3>1. w \notin Busy /\ Busy' = Busy \cup {w} /\ permits' = permits - 1
      BY <2>1 DEF AcquirePermit, Goto, TypeOK, WorkerType, Busy
    <3>2. Cardinality(Busy \cup {w}) = Cardinality(Busy) + 1
      BY <3>1, BusyFinite, FS_AddElement
    <3> QED
      BY <1>1, <3>1, <3>2, BusyFinite
  <2>2. CASE ClaimNone(w) \/ ClaimError(w) \/ Finish(w) \/ FailApplied(w) \/ FailErrors(w) \/ Panic(w)
    <3>1. w \in Busy /\ Release(w)
      BY <2>2 DEF ClaimNone, ClaimError, Finish, FailApplied, FailErrors, Panic, Busy
    <3> QED
      BY <3>1, <1>3
  <2>3. CASE StartJob(w) \/ RejectEnvelope(w) \/ ExecFails(w) \/ CompleteErrors(w) \/ Timeout(w)
    <3>1. w \in Busy /\ permits' = permits /\ \E s \in Holding : Restart(w, s)
      BY <2>3 DEF StartJob, RejectEnvelope, ExecFails, CompleteErrors, Timeout, Busy
    <3>2. Busy' = Busy
      BY <3>1 DEF Restart, TypeOK, WorkerType, Busy
    <3> QED
      BY <3>1, <3>2, <1>2
  <2>4. CASE Claim(w) \/ SendComplete(w) \/ CompleteApplied(w) \/ DeliverWebhook(w)
    <3>1. Busy' = Busy /\ permits' = permits
      <4>1. CASE Claim(w)
        BY <4>1 DEF Claim, TypeOK, Busy
      <4>2. CASE SendComplete(w) \/ CompleteApplied(w) \/ DeliverWebhook(w)
        BY <4>2 DEF SendComplete, CompleteApplied, DeliverWebhook, Goto, TypeOK, WorkerType, Busy
      <4> QED
        BY <2>4, <4>1, <4>2
    <3> QED
      BY <3>1, <1>2
  <2> QED
    BY <1>4, <2>1, <2>2, <2>3, <2>4 DEF WorkerStep
<1>5. CASE Crash
  <2>1. Busy' = {} /\ permits' = MaxConcurrent
    BY <1>5 DEF Crash, Idle, Busy
  <2> QED
    BY <2>1, FS_EmptySet, BoundsAssumption
<1>6. CASE Tick
  <2>1. Busy' = Busy /\ permits' = permits
    BY <1>6 DEF Tick, TypeOK, WorkerType, Busy
  <2> QED
    BY <2>1, <1>2
<1>7. CASE UNCHANGED <<worker, permits>>
  <2>1. Busy' = Busy
    BY <1>7 DEF Busy
  <2> QED
    BY <1>2, <1>7, <2>1
<1> QED
  BY <1>4, <1>5, <1>6, <1>7, LateEffect DEF Next, Api, Recover, Enqueue, CancelJob, OrphanApplied,
     OrphanDropped, Requeue, RequeueError, FailOver, FailOverError, vars

\* Every way out of the worker's loop body returns its permit once, whatever the number
\* of workers and permits.
THEOREM PermitsAlways == Spec => []PermitsConserved
  BY PermitsInit, PermitsStep, TypeCorrect, PTL DEF Spec

-----------------------------------------------------------------------------
(***************************************************************************)
(* The order of claims.  created numbers the rows that were inserted, no   *)
(* two alike, and a new row's number is the highest.                       *)
(***************************************************************************)

Present == {j \in Jobs : rows[j].status # "absent"}

Numbered ==
    /\ \A j \in Present : rows[j].created \in 1 .. Cardinality(Present)
    /\ \A j, k \in Present : j # k => rows[j].created # rows[k].created

LEMMA PresentFinite == IsFiniteSet(Present) /\ Cardinality(Present) \in Nat
  BY FiniteAssumption, FS_Subset, FS_CardinalityType DEF Present

\* Only an insertion sets created or makes a row appear.
LEMMA CreatedKept ==
    ASSUME Safe, [Next]_vars, \A j \in Jobs : ~ Enqueue(j)
    PROVE  \A k \in Jobs : /\ rows'[k].created = rows[k].created
                           /\ rows'[k].status = "absent" <=> rows[k].status = "absent"
<1> DEFINE Kept == \A k \in Jobs : /\ rows'[k].created = rows[k].created
                                   /\ rows'[k].status = "absent" <=> rows[k].status = "absent"
<1>0. TypeOK /\ rows \in [Jobs -> RowType]
  BY DEF Safe, TypeOK
<1>1. ASSUME NEW j \in Jobs, rows[j].status # "absent",
             NEW q \in RowType, q.status # "absent", q.created = rows[j].created,
             rows' = [rows EXCEPT ![j] = q]
      PROVE  Kept
  BY <1>0, <1>1
<1>2. ASSUME NEW j \in Jobs, rows[j].status # "absent", NEW op \in Ops, Settle(op, j) PROVE Kept
  <2>1. PICK s \in {"completed", "failed"} :
           rows' = [rows EXCEPT ![j] = [rows[j] EXCEPT !.status = s, !.lock = NoLock]]
    BY <1>0, <1>2 DEF Settle, CompleteRow, FailRow
  <2>2. rows[j] \in RowType
    BY <1>0
  <2>3. s \in JobStatus /\ s # "absent"
    BY Statuses
  <2> DEFINE q == [rows[j] EXCEPT !.status = s, !.lock = NoLock]
  <2>4. q \in RowType /\ q.status # "absent" /\ q.created = rows[j].created
    BY <2>2, <2>3 DEF RowType
  <2>5. rows' = [rows EXCEPT ![j] = q]
    BY <2>1
  <2> HIDE DEF q
  <2> QED
    BY <1>1, <1>2, <2>4, <2>5
<1>3. ASSUME NEW j \in Jobs, rows[j].status = "queued", NEW w \in Workers, ClaimEffect(w, j) PROVE Kept
  <2>1. rows' = [rows EXCEPT ![j] = [rows[j] EXCEPT !.status = "active", !.lock = w]]
    BY <1>0, <1>3 DEF ClaimEffect, ClaimRow
  <2> DEFINE q == [rows[j] EXCEPT !.status = "active", !.lock = w]
  <2>2. rows[j] \in RowType
    BY <1>0
  <2>3. q \in RowType /\ q.status # "absent" /\ q.created = rows[j].created
    BY <2>2, Statuses DEF RowType
  <2> HIDE DEF q
  <2> QED
    BY <1>1, <1>3, <2>1, <2>3 DEF q
<1>4. ASSUME NEW u, u \in [Jobs -> RowType], rows' = u,
             \A k \in Jobs : \/ u[k] = rows[k]
                             \/ /\ rows[k].status # "absent" /\ u[k].status # "absent"
                                /\ u[k].created = rows[k].created
      PROVE  Kept
  BY <1>4
<1>5. ASSUME NEW k \in Jobs, rows[k].status = "queued" \/ rows[k].status = "active"
      PROVE  /\ [rows[k] EXCEPT !.status = "cancelled", !.lock = NoLock].created = rows[k].created
             /\ [rows[k] EXCEPT !.status = "queued", !.lock = NoLock,
                                !.stalls = rows[k].stalls + 1].created = rows[k].created
             /\ [rows[k] EXCEPT !.status = "failed"].created = rows[k].created
  <2>1. rows[k] \in RowType
    BY <1>0
  <2> QED
    BY <2>1 DEF RowType
<1>6. ASSUME NEW i \in Jobs, CancelJob(i) PROVE Kept
  <2>1. rows' = CancelRows(rows, {i}) /\ rows' \in [Jobs -> RowType]
    BY <1>0, <1>6, CancelColumns DEF CancelJob
  <2>2. ASSUME NEW k \in Jobs, ~ (k = i /\ rows[k].status \in Pending) PROVE rows'[k] = rows[k]
    BY <1>0, <2>1, <2>2 DEF CancelRows
  <2>3. ASSUME NEW k \in Jobs, k = i, rows[k].status \in Pending
        PROVE  rows'[k].status = "cancelled" /\ rows'[k].created = rows[k].created
    <3>1. rows'[k] = [rows[k] EXCEPT !.status = "cancelled", !.lock = NoLock]
      BY <1>0, <2>1, <2>3 DEF CancelRows
    <3>2. rows'[k].created = rows[k].created
      BY <1>5, <2>3, <3>1
    <3>3. rows'[k].status = "cancelled"
      BY <1>0, <2>1, <2>3, CancelColumns
    <3> QED
      BY <3>2, <3>3
  <2> QED
    BY <2>2, <2>3
<1>7. CASE RequeueEffect
  <2>1. rows' = RequeueRows(rows, Stale)
    BY <1>7 DEF RequeueEffect
  <2>2. ASSUME NEW k \in Jobs \ Stale PROVE rows'[k] = rows[k]
    BY <1>0, <1>7, <2>2, RequeueType
  <2>3. ASSUME NEW k \in Stale
        PROVE  /\ rows'[k].status = "queued" /\ rows[k].status = "active"
               /\ rows'[k].created = rows[k].created
    <3>1. k \in Jobs /\ rows[k].status = "active" /\ rows'[k].status = "queued"
      BY <1>0, <1>7, RequeueType DEF Stale
    <3>2. rows'[k] = [rows[k] EXCEPT !.status = "queued", !.lock = NoLock,
                                     !.stalls = rows[k].stalls + 1]
      BY <1>0, <2>1, <2>3, <3>1 DEF RequeueRows
    <3> QED
      BY <1>5, <3>1, <3>2
  <2> QED
    BY <2>2, <2>3
<1>8. CASE FailOverEffect
  <2>1. rows' = FailOverRows(rows, MaxStalls)
    BY <1>8 DEF FailOverEffect
  <2>2. ASSUME NEW k \in Jobs, rows'[k] # rows[k]
        PROVE  /\ rows'[k].status = "failed" /\ rows[k].status = "queued"
               /\ rows'[k].created = rows[k].created
    <3>1. rows[k].status = "queued" /\ rows'[k].status = "failed"
      BY <1>0, <2>1, <2>2, FailOverColumns, BoundsAssumption
    <3>2. rows'[k] = [rows[k] EXCEPT !.status = "failed"]
      BY <1>0, <2>1, <2>2 DEF FailOverRows
    <3> QED
      BY <1>5, <3>1, <3>2
  <2> QED
    BY <2>2
<1>9. CASE UNCHANGED rows
  BY <1>9
<1>10. ASSUME NEW w \in Workers, WorkerStep(w) PROVE Kept
  <2>1. CASE Claim(w) \/ ClaimError(w)
    <3>1. UNCHANGED rows \/ \E i \in Jobs : rows[i].status = "queued" /\ ClaimEffect(w, i)
      BY <1>0, <2>1 DEF Claim, ClaimError, NextQueued
    <3> QED
      BY <1>3, <1>9, <3>1
  <2>2. CASE CompleteApplied(w) \/ CompleteErrors(w) \/ FailApplied(w)
    <3>1. Holds(w) /\ worker[w].job \in Jobs
      BY <1>0, <2>2 DEF CompleteApplied, CompleteErrors, FailApplied, TypeOK, WorkerType, Holds
    <3>2. rows[worker[w].job].status # "absent"
      BY <3>1 DEF Safe, WritesHitOwnClaim, OwnClaim
    <3> QED
      BY <1>2, <1>9, <2>2, <3>1, <3>2 DEF CompleteApplied, CompleteErrors, FailApplied
  <2>3. ~ (Claim(w) \/ ClaimError(w) \/ CompleteApplied(w) \/ CompleteErrors(w) \/ FailApplied(w))
           => UNCHANGED rows
    BY <1>10 DEF WorkerStep, AcquirePermit, ClaimNone, StartJob, RejectEnvelope, ExecFails,
         SendComplete, DeliverWebhook, Finish, Timeout, FailErrors, Panic
  <2> QED
    BY <1>9, <2>1, <2>2, <2>3
<1>11. CASE OrphanApplied
  <2>1. PICK o \in orphans : Settle(o.op, o.job)
    BY <1>11 DEF OrphanApplied
  <2>2. o.op \in Ops /\ o.job \in Jobs /\ rows[o.job].status # "absent"
    BY <1>0 DEF TypeOK, OrphanType, Safe, WritesHitOwnClaim, OwnClaim
  <2> QED
    BY <1>2, <2>1, <2>2
<1>12. CASE LateStatement
  <2>1. \/ UNCHANGED rows \/ RequeueEffect \/ FailOverEffect
        \/ \E w \in Workers, i \in Jobs : rows[i].status = "queued" /\ ClaimEffect(w, i)
    BY <1>0, <1>12, LateEffect DEF NextQueued
  <2> QED
    BY <1>3, <1>7, <1>8, <1>9, <2>1
<1> QED
  BY <1>6, <1>7, <1>8, <1>9, <1>10, <1>11, <1>12 DEF Next, Api, Recover, OrphanDropped, Crash,
     Requeue, RequeueError, FailOver, FailOverError, Tick, vars

\* A row becomes active only as the first in line.
LEMMA ClaimsFirst ==
    ASSUME TypeOK, [Next]_vars, NEW k \in Jobs,
           rows[k].status # "active", rows'[k].status = "active"
    PROVE  k \in NextQueued(rows, Prio)
<1>0. rows \in [Jobs -> RowType]
  BY DEF TypeOK
<1>1. ASSUME NEW w \in Workers, NEW i \in NextQueued(rows, Prio), ClaimEffect(w, i)
      PROVE  k \in NextQueued(rows, Prio)
  <2>1. \A j \in Jobs \ {i} : rows'[j] = rows[j]
    BY <1>0, <1>1, ClaimColumns DEF ClaimEffect, NextQueued
  <2> QED
    BY <1>1, <2>1
<1>2. ASSUME NEW i \in Jobs, NEW op \in Ops, Settle(op, i) PROVE FALSE
  BY <1>0, <1>2, CompleteColumns, FailColumns DEF Settle
<1>3. ASSUME NEW i \in Jobs, Api(i) PROVE FALSE
  <2>1. CASE Enqueue(i)
    BY <2>1, EnqueueType
  <2>2. CASE CancelJob(i)
    BY <1>0, <2>2, CancelColumns DEF CancelJob
  <2> QED
    BY <1>3, <2>1, <2>2 DEF Api
<1>4. ~ RequeueEffect /\ ~ FailOverEffect /\ rows' # rows
  BY <1>0, RequeueType, FailOverType DEF Stale
<1>5. ASSUME NEW w \in Workers, WorkerStep(w) PROVE k \in NextQueued(rows, Prio)
  <2>1. CASE Claim(w) \/ ClaimError(w)
    BY <1>1, <1>4, <2>1 DEF Claim, ClaimError
  <2>2. CASE CompleteApplied(w) \/ CompleteErrors(w) \/ FailApplied(w)
    <3>1. worker[w].job \in Jobs
      BY <2>2 DEF CompleteApplied, CompleteErrors, FailApplied, TypeOK, WorkerType, Holds
    <3> QED
      BY <1>2, <1>4, <2>2, <3>1 DEF CompleteApplied, CompleteErrors, FailApplied
  <2>3. ~ (Claim(w) \/ ClaimError(w) \/ CompleteApplied(w) \/ CompleteErrors(w) \/ FailApplied(w))
           => UNCHANGED rows
    BY <1>5 DEF WorkerStep, AcquirePermit, ClaimNone, StartJob, RejectEnvelope, ExecFails,
         SendComplete, DeliverWebhook, Finish, Timeout, FailErrors, Panic
  <2> QED
    BY <1>4, <2>1, <2>2, <2>3
<1>6. ~ OrphanApplied
  BY <1>2 DEF OrphanApplied, TypeOK, OrphanType
<1>7. CASE LateStatement
  BY <1>1, <1>4, <1>7, LateEffect
<1> QED
  BY <1>3, <1>4, <1>5, <1>6, <1>7 DEF Next, Recover, OrphanDropped, Crash,
     Requeue, RequeueError, FailOver, FailOverError, Tick, vars

\* The number a new row gets.
LEMMA EnqueueNumber ==
    ASSUME TypeOK, NEW i \in Jobs, Enqueue(i)
    PROVE  /\ i \notin Present /\ Present' = Present \cup {i}
           /\ rows'[i].created = 1 + Cardinality(Present)
           /\ rows'[i].status = "queued"
           /\ \A k \in Jobs \ {i} : rows'[k] = rows[k]
<1> DEFINE n == 1 + Cardinality(Present)
<1>1. n \in Nat /\ rows' = EnqueueRow(rows, i, n) /\ rows[i].status = "absent"
  BY PresentFinite DEF Enqueue, Present
<1> HIDE DEF n
<1>2. /\ rows'[i].status = "queued"
      /\ \A k \in Jobs \ {i} : rows'[k] = rows[k]
  BY EnqueueType
<1>3. rows[i] \in RowType
  BY DEF TypeOK
<1>4. [rows[i] EXCEPT !.status = "queued", !.created = n].created = n
  BY <1>3 DEF RowType
<1>5. rows'[i].created = n
  BY <1>1, <1>4 DEF EnqueueRow, TypeOK
<1>6. i \notin Present /\ Present' = Present \cup {i}
  BY <1>1, <1>2 DEF Present
<1> QED
  BY <1>2, <1>5, <1>6 DEF n

LEMMA OrderInit == Init => Numbered /\ NoOvertaking
  BY DEF Init, AbsentRow, Numbered, Present, NoOvertaking

LEMMA OrderStep ==
    MarginCovers /\ Safe /\ Numbered /\ NoOvertaking /\ [Next]_vars => Numbered' /\ NoOvertaking'
<1> SUFFICES ASSUME MarginCovers, Safe, Numbered, NoOvertaking, [Next]_vars
             PROVE  Numbered' /\ NoOvertaking'
  OBVIOUS
<1>0. TypeOK /\ TypeOK'
  BY TypeStep DEF Safe
<1>1. \A j \in Jobs : /\ rows[j].created \in Nat /\ rows[j].stalls \in Nat /\ Prio[j] \in Int
  BY <1>0, PrioAssumption DEF TypeOK, RowType
<1>2. ASSUME NEW i \in Jobs, Enqueue(i) PROVE Numbered' /\ NoOvertaking'
  <2>1. Cardinality(Present') = Cardinality(Present) + 1
    BY <1>0, <1>2, EnqueueNumber, PresentFinite, FS_AddElement
  <2>2. \A k \in Present : rows'[k] = rows[k] /\ rows[k].created <= Cardinality(Present)
    BY <1>0, <1>2, EnqueueNumber, PresentFinite DEF Numbered, Present
  <2>3. rows'[i].created = Cardinality(Present) + 1
    BY <1>0, <1>2, EnqueueNumber, PresentFinite
  <2>4. Present' = Present \cup {i} /\ i \notin Present
    BY <1>0, <1>2, EnqueueNumber
  <2>5. \A j \in Present' : rows'[j].created \in 1 .. Cardinality(Present')
    BY <2>1, <2>2, <2>3, <2>4, PresentFinite DEF Numbered
  <2>6. \A j, k \in Present' : j # k => rows'[j].created # rows'[k].created
    BY <2>2, <2>3, <2>4, PresentFinite DEF Numbered
  <2>7. NoOvertaking'
    <3> SUFFICES ASSUME NEW j \in Jobs, NEW k \in Jobs,
                        rows'[j].status = "queued", rows'[j].stalls = 0,
                        rows'[k].status = "active", Prio[j] <= Prio[k]
                 PROVE  rows'[k].created < rows'[j].created
      BY DEF NoOvertaking
    <3>1. k # i /\ rows'[k] = rows[k] /\ k \in Present
      BY <1>0, <1>2, EnqueueNumber DEF Present
    <3>2. CASE j = i
      BY <1>1, <2>2, <2>3, <3>1, <3>2, PresentFinite
    <3>3. CASE j # i
      BY <1>0, <1>2, <3>1, <3>3, EnqueueNumber DEF NoOvertaking
    <3> QED
      BY <3>2, <3>3
  <2> QED
    BY <2>5, <2>6, <2>7 DEF Numbered
<1>3. CASE \A i \in Jobs : ~ Enqueue(i)
  <2>1. \A k \in Jobs : /\ rows'[k].created = rows[k].created
                        /\ rows'[k].status = "absent" <=> rows[k].status = "absent"
    BY <1>3, CreatedKept
  <2>2. Present' = Present
    BY <2>1 DEF Present
  <2>3. Numbered'
    BY <2>1, <2>2 DEF Numbered, Present
  <2>4. NoOvertaking'
    <3> SUFFICES ASSUME NEW j \in Jobs, NEW k \in Jobs,
                        rows'[j].status = "queued", rows'[j].stalls = 0,
                        rows'[k].status = "active", Prio[j] <= Prio[k]
                 PROVE  rows[k].created < rows[j].created
      BY <2>1 DEF NoOvertaking
    <3>1. rows[j].status = "queued" /\ rows[j].stalls = 0
      BY <1>0, <1>1, <2>1, RowEffects DEF RowEffect
    <3>2. CASE rows[k].status = "active"
      BY <3>1, <3>2 DEF NoOvertaking
    <3>3. CASE rows[k].status # "active"
      <4>1. k \in NextQueued(rows, Prio)
        BY <1>0, <3>3, ClaimsFirst
      <4>2. \/ Prio[k] < Prio[j]
            \/ Prio[k] = Prio[j] /\ rows[k].created <= rows[j].created
        BY <1>0, <3>1, <4>1 DEF NextQueued, TypeOK
      <4>3. j # k /\ j \in Present /\ k \in Present
        BY <2>1, <3>1 DEF Present
      <4> QED
        BY <1>1, <4>2, <4>3 DEF Numbered
    <3> QED
      BY <3>2, <3>3
  <2> QED
    BY <2>3, <2>4
<1> QED
  BY <1>2, <1>3

\* Whatever claims race, are lost or are given back, a job that waits since it was posted
\* is not passed by a later one of the same or a worse priority, for any number of jobs
\* and workers.
THEOREM NobodyOvertakes == ASSUME MarginCovers PROVE Spec => []NoOvertaking
<1>1. Spec => [](Numbered /\ NoOvertaking)
  BY OrderInit, OrderStep, SafeAlways, PTL DEF Spec
<1> QED
  BY <1>1, PTL

-----------------------------------------------------------------------------
(***************************************************************************)
(* JobQueue implements JobLifecycle: each of its steps is one of the life  *)
(* cycle or leaves it alone.  The facts this rests on are those above:     *)
(* nobody holds a row that is queued or stale (FreeRows), and nobody       *)
(* shares one (Exclusive).                                                 *)
(***************************************************************************)

Status  == [j \in Jobs |-> rows[j].status]
Runners == [j \in Jobs |-> {w \in Workers : worker[w].job = j}]

USE DEF Executing, Holding, Stages, Ops, Terminal, Pending, Lifecycle!Nobody, Lifecycle!Terminal,
        Lifecycle!Pending

-----------------------------------------------------------------------------
(***************************************************************************)
(* What a step of the queue looks like from the life cycle                 *)
(***************************************************************************)

\* Statuses and runners that stay.
LEMMA Stay ==
    /\ (\A j \in Jobs : rows'[j].status = rows[j].status) => UNCHANGED Status
    /\ (\A w \in Workers : worker'[w].job = worker[w].job) => UNCHANGED Runners
  BY DEF Status, Runners

\* One row takes a new status.
LEMMA OneStatus ==
    ASSUME NEW j \in Jobs, NEW s, rows'[j].status = s,
           \A k \in Jobs \ {j} : rows'[k] = rows[k]
    PROVE  Status' = [Status EXCEPT ![j] = s]
  BY DEF Status

\* A job's runners hold it, and a job that is free has none.
LEMMA RunnersHold ==
    ASSUME TypeOK, NEW j \in Jobs
    PROVE  /\ \A w \in Runners[j] : w \in Workers /\ Holds(w) /\ worker[w].job = j
           /\ Free(j) => Runners[j] = {}
  BY NoJobAssumption DEF TypeOK, Runners, Free

\* A worker that holds a job is the only one to.
LEMMA OnlyRunner ==
    ASSUME TypeOK, Exclusive, NEW w \in Workers, Holds(w)
    PROVE  worker[w].job \in Jobs /\ Runners[worker[w].job] = {w}
<1>1. worker[w].job \in Jobs
  BY DEF TypeOK, WorkerType
<1>2. w \in Runners[worker[w].job]
  BY <1>1 DEF Runners
<1> QED
  BY <1>1, <1>2, RunnersHold DEF Exclusive

\* A worker that leaves the loop body leaves its job, if it has one.
LEMMA ReleaseRunners ==
    ASSUME TypeOK, Exclusive, NEW w \in Workers, Release(w)
    PROVE  /\ Holds(w) => Runners' = [Runners EXCEPT ![worker[w].job] = {}]
           /\ ~ Holds(w) => UNCHANGED Runners
<1>1. worker'[w].job = NoJob /\ \A v \in Workers \ {w} : worker'[v] = worker[v]
  BY DEF Release, Idle, TypeOK
<1>2. CASE ~ Holds(w)
  <2>1. worker[w].job = NoJob
    BY <1>2 DEF TypeOK
  <2> QED
    BY <1>1, <1>2, <2>1, Stay
<1>3. CASE Holds(w)
  <2>1. worker[w].job \in Jobs /\ Runners[worker[w].job] = {w}
    BY <1>3, OnlyRunner
  <2>2. ASSUME NEW j \in Jobs
        PROVE  Runners'[j] = IF j = worker[w].job THEN {} ELSE Runners[j]
    <3>1. Runners[j] = {v \in Workers : worker[v].job = j}
      BY DEF Runners
    <3>2. Runners'[j] = {v \in Workers : worker'[v].job = j}
      BY DEF Runners
    <3>3. CASE j = worker[w].job
      <4>1. \A v \in Workers \ {w} : worker[v].job # j
        BY <2>1, <3>1, <3>3
      <4>2. \A v \in Workers : worker'[v].job # j
        BY <1>1, <4>1, NoJobAssumption
      <4> QED
        BY <3>2, <3>3, <4>2
    <3>4. CASE j # worker[w].job
      <4>1. \A v \in Workers : worker'[v].job = j <=> worker[v].job = j
        BY <1>1, <3>4, NoJobAssumption
      <4> QED
        BY <3>1, <3>2, <3>4, <4>1
    <3> QED
      BY <3>3, <3>4
  <2>3. Runners' = [j \in Jobs |-> Runners'[j]]
    BY DEF Runners
  <2>4. Runners = [j \in Jobs |-> Runners[j]]
    BY DEF Runners
  <2>5. Runners' = [Runners EXCEPT ![worker[w].job] = {}]
    BY <2>1, <2>2, <2>3, <2>4, Zenon
  <2> QED
    BY <1>3, <2>5
<1> QED
  BY <1>2, <1>3

\* Moving to another stage is no concern of the life cycle.
LEMMA StageRunners ==
    ASSUME TypeOK, NEW w \in Workers, NEW s \in Stages, Goto(w, s) \/ Restart(w, s)
    PROVE  UNCHANGED Runners
<1>1. worker[w] \in WorkerType
  BY DEF TypeOK
<1>2. \A q \in {[worker[w] EXCEPT !.pc = s], [worker[w] EXCEPT !.pc = s, !.timer = 0]} :
         q.job = worker[w].job
  BY <1>1 DEF WorkerType
<1>3. worker'[w].job = worker[w].job /\ \A v \in Workers \ {w} : worker'[v] = worker[v]
  BY <1>2 DEF Goto, Restart, TypeOK
<1> QED
  BY <1>3, Stay

\* A statement that settles a row gives the job an outcome.
LEMMA SettleOutcome ==
    ASSUME TypeOK, NEW j \in Jobs, NEW op \in Ops, Settle(op, j),
           rows[j].status \in Terminal \cup {"active"}
    PROVE  \E outcome \in {"completed", "failed"} : Lifecycle!Settle(j, outcome)
<1>1. PICK s \in {"completed", "failed"} : rows'[j].status = s /\ \A k \in Jobs \ {j} : rows'[k] = rows[k]
  BY CompleteColumns, FailColumns DEF Settle, TypeOK
<1>2. Status' = [Status EXCEPT ![j] = s]
  BY <1>1, OneStatus
<1> QED
  BY <1>2 DEF Lifecycle!Settle, Status

\* A claim takes a job nobody has.
LEMMA ClaimTakes ==
    ASSUME TypeOK, NEW j \in Jobs, NEW w \in Workers, ClaimEffect(w, j)
    PROVE  Status' = [Status EXCEPT ![j] = "active"]
  BY ClaimColumns, OneStatus DEF ClaimEffect, TypeOK

-----------------------------------------------------------------------------
(***************************************************************************)
(* The steps                                                               *)
(***************************************************************************)

LEMMA ApiRefines ==
    ASSUME TypeOK, NEW j \in Jobs, Api(j)
    PROVE  Lifecycle!Submit(j) \/ Lifecycle!Cancel(j)
<1>1. UNCHANGED Runners
  BY Stay DEF Api, Enqueue, CancelJob
<1>2. CASE Enqueue(j)
  <2>1. Status' = [Status EXCEPT ![j] = "queued"]
    BY <1>2, EnqueueType, OneStatus
  <2>2. rows[j].status = "absent"
    BY <1>2 DEF Enqueue
  <2> QED
    BY <1>1, <2>1, <2>2 DEF Lifecycle!Submit, Status, Runners
<1>3. CASE CancelJob(j)
  <2>1. rows[j].status \in Pending /\ rows' = CancelRows(rows, {j})
    BY <1>3 DEF CancelJob
  <2>2. Status' = [Status EXCEPT ![j] = "cancelled"]
    BY <2>1, CancelColumns, OneStatus DEF TypeOK
  <2> QED
    BY <1>1, <2>1, <2>2 DEF Lifecycle!Cancel, Status, Runners
<1> QED
  BY <1>2, <1>3 DEF Api

\* A row somebody holds is active or settled.
LEMMA HeldRow ==
    ASSUME Safe, NEW w \in Workers, Holds(w)
    PROVE  worker[w].job \in Jobs /\ rows[worker[w].job].status \in Terminal \cup {"active"}
<1>1. worker[w].job \in Jobs
  BY DEF Safe, TypeOK, WorkerType
<1>2. OwnClaim(worker[w].job, worker[w].claim)
  BY DEF Safe, WritesHitOwnClaim
<1> QED
  BY <1>1, <1>2 DEF OwnClaim

\* A claim whose reply nobody reads takes a job from the queue and gives it to nobody.
LEMMA UnheardRefines ==
    ASSUME MarginCovers, Safe, UNCHANGED Runners,
           NEW w \in Workers, NEW j \in NextQueued(rows, Prio), ClaimEffect(w, j)
    PROVE  [Lifecycle!Next]_(Lifecycle!vars)
<1>0. TypeOK
  BY DEF Safe
<1>1. j \in Jobs /\ rows[j].status = "queued"
  BY <1>0 DEF NextQueued, TypeOK
<1>2. Runners[j] = {}
  BY <1>0, <1>1, FreeRows, RunnersHold
<1>3. Lifecycle!TakeUnheard(j)
  BY <1>0, <1>1, <1>2, ClaimTakes DEF Lifecycle!TakeUnheard, Status, Runners
<1> QED
  BY <1>1, <1>3 DEF Lifecycle!Next

LEMMA WorkerRefines ==
    ASSUME MarginCovers, Safe, NEW w \in Workers, WorkerStep(w)
    PROVE  [Lifecycle!Next]_(Lifecycle!vars)
<1>0. TypeOK /\ Exclusive
  BY DEF Safe
<1>1. CASE UNCHANGED Status /\ UNCHANGED Runners
  BY <1>1 DEF Lifecycle!vars, Status, Runners
<1>2. CASE Claim(w)
  <2>1. PICK j \in Jobs :
           /\ rows[j].status = "queued"
           /\ ClaimEffect(w, j)
           /\ worker' = [worker EXCEPT ![w] =
                 [pc |-> "claimed", job |-> j, claim |-> rows[j].stalls, timer |-> 0]]
    BY <1>0, <1>2 DEF Claim, NextQueued, TypeOK
  <2>2. Runners[j] = {}
    BY <1>0, <2>1, FreeRows, RunnersHold
  <2>3. worker[w].job = NoJob /\ worker'[w].job = j /\ \A v \in Workers \ {w} : worker'[v] = worker[v]
    BY <1>0, <1>2, <2>1 DEF Claim, Holds, TypeOK
  <2>4. ASSUME NEW k \in Jobs
        PROVE  Runners'[k] = IF k = j THEN {w} ELSE Runners[k]
    <3>1. Runners[k] = {v \in Workers : worker[v].job = k}
      BY DEF Runners
    <3>2. Runners'[k] = {v \in Workers : worker'[v].job = k}
      BY DEF Runners
    <3>3. \A v \in Workers : worker'[v].job = k <=> IF k = j THEN v = w ELSE worker[v].job = k
      BY <2>2, <2>3, <3>1, NoJobAssumption
    <3> QED
      BY <3>1, <3>2, <3>3
  <2>5. Runners' = [k \in Jobs |-> Runners'[k]] /\ Runners = [k \in Jobs |-> Runners[k]]
    BY DEF Runners
  <2>6. Runners' = [Runners EXCEPT ![j] = {w}]
    BY <2>4, <2>5, Zenon
  <2>7. Lifecycle!Take(w, j)
    BY <1>0, <2>1, <2>2, <2>6, ClaimTakes DEF Lifecycle!Take, Status, Runners
  <2> QED
    BY <2>7 DEF Lifecycle!Next
<1>3. CASE ClaimError(w)
  <2>1. UNCHANGED Runners
    BY <1>0, <1>3, ReleaseRunners DEF ClaimError, Holds
  <2>2. CASE UNCHANGED rows
    BY <1>1, <2>1, <2>2, Stay
  <2> QED
    BY <1>3, <2>1, <2>2, UnheardRefines DEF ClaimError
<1>4. CASE CompleteApplied(w) \/ CompleteErrors(w)
  <2>1. Holds(w) /\ (Goto(w, "webhook") \/ Restart(w, "fail"))
    BY <1>4 DEF CompleteApplied, CompleteErrors, Holds
  <2>2. UNCHANGED Runners
    BY <1>0, <2>1, StageRunners
  <2>3. CASE UNCHANGED rows
    BY <1>1, <2>2, <2>3, Stay
  <2>4. CASE Settle("complete", worker[w].job)
    <3>1. PICK j \in Jobs : j = worker[w].job
      BY <2>1, HeldRow
    <3>2. PICK outcome \in {"completed", "failed"} : Lifecycle!Settle(j, outcome)
      BY <1>0, <2>1, <2>4, <3>1, HeldRow, SettleOutcome
    <3>3. Lifecycle!SettleAndStay(j, outcome)
      BY <2>2, <3>2 DEF Lifecycle!SettleAndStay, Runners
    <3> QED
      BY <3>3 DEF Lifecycle!Next
  <2> QED
    BY <1>4, <2>3, <2>4 DEF CompleteApplied, CompleteErrors
<1>5. CASE FailApplied(w)
  <2>1. Holds(w) /\ Release(w) /\ Settle("fail", worker[w].job)
    BY <1>5 DEF FailApplied, Holds
  <2>2. PICK j \in Jobs : j = worker[w].job
    BY <2>1, HeldRow
  <2>3. Runners[j] = {w} /\ Runners' = [Runners EXCEPT ![j] = {}]
    BY <1>0, <2>1, <2>2, OnlyRunner, ReleaseRunners
  <2>4. PICK outcome \in {"completed", "failed"} : Lifecycle!Settle(j, outcome)
    BY <1>0, <2>1, <2>2, HeldRow, SettleOutcome
  <2>5. Lifecycle!SettleAndLeave(w, j, outcome)
    BY <2>3, <2>4 DEF Lifecycle!SettleAndLeave, Runners
  <2> QED
    BY <2>5 DEF Lifecycle!Next
<1>6. CASE ClaimNone(w) \/ Finish(w) \/ FailErrors(w) \/ Panic(w)
  <2>1. Release(w) /\ UNCHANGED rows
    BY <1>6 DEF ClaimNone, Finish, FailErrors, Panic
  <2>2. CASE ~ Holds(w)
    BY <1>0, <1>1, <2>1, <2>2, ReleaseRunners, Stay
  <2>3. CASE Holds(w)
    <3>1. PICK j \in Jobs : j = worker[w].job
      BY <2>3, HeldRow
    <3>2. Runners[j] = {w} /\ Runners' = [Runners EXCEPT ![j] = {}]
      BY <1>0, <2>1, <2>3, <3>1, OnlyRunner, ReleaseRunners
    <3>3. UNCHANGED Status
      BY <2>1, Stay
    <3>4. Lifecycle!Leave(w, j)
      BY <3>2, <3>3 DEF Lifecycle!Leave, Status, Runners
    <3> QED
      BY <3>4 DEF Lifecycle!Next
  <2> QED
    BY <2>2, <2>3
<1>7. CASE \/ AcquirePermit(w) \/ StartJob(w) \/ RejectEnvelope(w) \/ ExecFails(w)
           \/ SendComplete(w) \/ DeliverWebhook(w) \/ Timeout(w)
  <2>1. UNCHANGED rows
    BY <1>7 DEF AcquirePermit, StartJob, RejectEnvelope, ExecFails, SendComplete, DeliverWebhook, Timeout
  <2>2. \/ UNCHANGED worker
        \/ \E s \in Stages : Goto(w, s) \/ Restart(w, s)
    BY <1>7 DEF AcquirePermit, StartJob, RejectEnvelope, ExecFails, SendComplete, DeliverWebhook, Timeout
  <2>3. UNCHANGED Runners
    BY <1>0, <2>2, StageRunners, Stay
  <2> QED
    BY <1>1, <2>1, <2>3, Stay
<1> QED
  BY <1>2, <1>3, <1>4, <1>5, <1>6, <1>7 DEF WorkerStep

\* What the recovery loop takes away, and what it gives up, nobody holds.
LEMMA RecoveryRefines ==
    ASSUME MarginCovers, Safe, UNCHANGED Runners,
           RequeueEffect \/ FailOverEffect \/ UNCHANGED rows
    PROVE  [Lifecycle!Next]_(Lifecycle!vars)
<1>0. TypeOK
  BY DEF Safe
<1>1. CASE UNCHANGED rows
  BY <1>1, Stay DEF Lifecycle!vars, Status, Runners
<1>2. CASE RequeueEffect
  <2>1. PICK S \in SUBSET Jobs : S = Stale
    BY DEF Stale
  <2>2. \A j \in S : rows[j].status = "active" /\ Runners[j] = {}
    BY <1>0, <2>1, FreeRows, RunnersHold DEF Stale
  <2>3. Status' = [j \in Jobs |-> IF j \in S THEN "queued" ELSE Status[j]]
    BY <1>0, <1>2, <2>1, RequeueType DEF Status
  <2>4. Lifecycle!PutBack(S)
    BY <2>2, <2>3 DEF Lifecycle!PutBack, Status, Runners
  <2> QED
    BY <2>4 DEF Lifecycle!Next
<1>3. CASE FailOverEffect
  <2>0. PICK S \in SUBSET Jobs : S = {j \in Jobs : rows'[j] # rows[j]}
    OBVIOUS
  <2>1. ASSUME NEW j \in S
        PROVE  rows[j].status = "queued" /\ rows'[j].status = "failed" /\ Runners[j] = {}
    BY <1>0, <1>3, <2>0, FailOverType, FreeRows, RunnersHold
  <2>2. Status' = [j \in Jobs |-> IF j \in S THEN "failed" ELSE Status[j]]
    BY <2>0, <2>1 DEF Status
  <2>3. Lifecycle!GiveUp(S)
    BY <2>1, <2>2 DEF Lifecycle!GiveUp, Status, Runners
  <2> QED
    BY <2>3 DEF Lifecycle!Next
<1> QED
  BY <1>1, <1>2, <1>3

LEMMA RecoverRefines ==
    ASSUME MarginCovers, Safe, Recover
    PROVE  [Lifecycle!Next]_(Lifecycle!vars)
<1>1. UNCHANGED Runners
  BY Stay DEF Recover, Requeue, RequeueError, FailOver, FailOverError
<1> QED
  BY <1>1, RecoveryRefines DEF Recover, Requeue, RequeueError, FailOver, FailOverError

\* A statement that lands after its caller left finds nobody at the rows it changes.
LEMMA LateRefines ==
    ASSUME MarginCovers, Safe, LateStatement
    PROVE  [Lifecycle!Next]_(Lifecycle!vars)
<1>0. TypeOK
  BY DEF Safe
<1>1. UNCHANGED Runners
  BY <1>0, LateEffect, Stay
<1> QED
  BY <1>0, <1>1, LateEffect, UnheardRefines, RecoveryRefines

\* Statements nobody waits for, the crash and the clock.
LEMMA RestRefines ==
    ASSUME Safe, OrphanApplied \/ OrphanDropped \/ Crash \/ Tick
    PROVE  [Lifecycle!Next]_(Lifecycle!vars)
<1>0. TypeOK
  BY DEF Safe
<1>1. CASE OrphanApplied
  <2>1. PICK o \in orphans : Settle(o.op, o.job)
    BY <1>1 DEF OrphanApplied
  <2>2. o.op \in Ops /\ o.job \in Jobs /\ rows[o.job].status \in Terminal \cup {"active"}
    BY <2>1 DEF Safe, TypeOK, OrphanType, WritesHitOwnClaim, OwnClaim
  <2>3. PICK outcome \in {"completed", "failed"} : Lifecycle!Settle(o.job, outcome)
    BY <1>0, <2>1, <2>2, SettleOutcome
  <2>4. UNCHANGED Runners
    BY <1>1, Stay DEF OrphanApplied
  <2>5. Lifecycle!SettleAndStay(o.job, outcome)
    BY <2>3, <2>4 DEF Lifecycle!SettleAndStay, Runners
  <2> QED
    BY <2>2, <2>5 DEF Lifecycle!Next
<1>2. CASE OrphanDropped \/ Tick
  <2>1. UNCHANGED rows /\ \A w \in Workers : worker'[w].job = worker[w].job
    BY <1>0, <1>2 DEF OrphanDropped, Tick, TypeOK, WorkerType
  <2> QED
    BY <2>1, Stay DEF Lifecycle!vars, Status, Runners
<1>3. CASE Crash
  <2>1. Runners' = [j \in Jobs |-> {}]
    BY <1>3, NoJobAssumption DEF Crash, Idle, Runners
  <2>2. UNCHANGED Status
    BY <1>3, Stay DEF Crash
  <2>3. Lifecycle!Crash
    BY <2>1, <2>2 DEF Lifecycle!Crash, Status, Runners
  <2> QED
    BY <2>3 DEF Lifecycle!Next
<1> QED
  BY <1>1, <1>2, <1>3

LEMMA InitRefines == Init => Lifecycle!Init
  BY NoJobAssumption DEF Init, AbsentRow, Idle, Lifecycle!Init

LEMMA StepRefines == MarginCovers /\ Safe /\ [Next]_vars => [Lifecycle!Next]_(Lifecycle!vars)
<1> SUFFICES ASSUME MarginCovers, Safe, [Next]_vars
             PROVE  [Lifecycle!Next]_(Lifecycle!vars)
  OBVIOUS
<1>1. ASSUME NEW j \in Jobs, Api(j) PROVE [Lifecycle!Next]_(Lifecycle!vars)
  BY <1>1, ApiRefines DEF Safe, Lifecycle!Next
<1>2. CASE UNCHANGED vars
  BY <1>2, Stay DEF vars, Lifecycle!vars, Status, Runners
<1> QED
  BY <1>1, <1>2, WorkerRefines, RecoverRefines, LateRefines, RestRefines DEF Next

\* Workers that crash and time out, statements that arrive late and a recovery loop that
\* looks at nothing but ages implement the life cycle: a job is taken, put back or given
\* up only while nobody answers for it, provided the margin covers two latencies.
THEOREM ImplementsLifecycle == ASSUME MarginCovers PROVE Spec => KeepsLifecycle
  BY InitRefines, StepRefines, SafeAlways, PTL DEF Spec, KeepsLifecycle, Lifecycle!Spec
=============================================================================
