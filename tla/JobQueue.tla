------------------------------ MODULE JobQueue ------------------------------
(***************************************************************************)
(* The job queue: rows of nuq.queue_scrape, the workers that claim, run    *)
(* and settle them (Worker::run and the run_* functions of worker.rs), the *)
(* semaphore they share, and the stall-recovery loop that takes a job away *)
(* from a worker believed dead.                                            *)
(*                                                                         *)
(* No statement compares the lock column with the caller's lock id: what   *)
(* keeps a worker from settling a job that someone else has claimed since  *)
(* is TIME.  A worker gives up after JobTimeout; the recovery loop waits   *)
(* for JobTimeout + StallMargin.  Time is therefore part of the model: a   *)
(* clock tick ages the locks, the running timeouts and the statements in   *)
(* flight, and is held back by whatever must happen before it.             *)
(*                                                                         *)
(* What a run does before its complete_job call (fetching pages, group     *)
(* rows, extraction) is one stage here, "run"; CrawlGroups opens it up.    *)
(* One process holds all the workers.                                      *)
(***************************************************************************)
EXTENDS NuqTables, FiniteSets

CONSTANTS
    Jobs,
    Workers,
    Webhooks,       \* the jobs posted with a webhook
    Prio,           \* the priority column: lower is claimed first
    MaxConcurrent,  \* permits of the worker semaphore (MAX_CONCURRENT_JOBS)
    JobTimeout,     \* WORKER_JOB_TIMEOUT_SECONDS, in ticks
    StallMargin,    \* the "+ 30" of stall_recovery_loop, in ticks
    DbLatency,      \* environment: ticks within which a statement that was sent
                    \* takes effect and its reply, if it is not lost, arrives
    MaxStalls,      \* WORKER_MAX_STALLS
    MaxFaults,      \* bound on crashes, panics and database errors in a behaviour
    MaxLate,        \* bound on the statements that late counts
    NoJob

ASSUME FiniteAssumption == IsFiniteSet(Jobs) /\ IsFiniteSet(Workers)
ASSUME WorkersAssumption == NoLock \notin Workers
ASSUME WebhooksAssumption == Webhooks \subseteq Jobs
ASSUME PrioAssumption == Prio \in [Jobs -> Int]
ASSUME NoJobAssumption == NoJob \notin Jobs
ASSUME BoundsAssumption ==
    /\ MaxConcurrent \in Nat \ {0}
    /\ JobTimeout \in Nat
    /\ StallMargin \in Nat
    /\ DbLatency \in Nat
    /\ MaxStalls \in Nat
    /\ MaxFaults \in Nat
    /\ MaxLate \in Nat

\* Mutant: no margin on top of the job timeout.
StaleAtTimeout == JobTimeout

\* stall_recovery_loop: job_timeout_seconds + 30
StaleAfter == JobTimeout + StallMargin

VARIABLES
    rows,      \* nuq.queue_scrape
    lockAge,   \* ticks since locked_at, up to StaleAfter + 1; 0 when it is NULL
    worker,    \* the stage of each worker, its job and its timer
    permits,   \* free permits of the shared semaphore
    orphans,   \* complete_job and fail_job statements in flight that nobody waits for
    late,      \* how many other statements are, which choose their rows as they land
    recovery,  \* the statement stall_recovery_loop runs next
    notified,  \* jobs whose "completed" webhook has reached its receiver
    takenLate, \* history: how often a claim that nobody waited for has taken each job
    faults     \* faults so far, at most MaxFaults

vars == <<rows, lockAge, worker, permits, orphans, late, recovery, notified, takenLate, faults>>

(***************************************************************************)
(* The stages of a worker:                                                 *)
(*   acquire   waiting for a permit, or sleeping before it asks again      *)
(*   claim     holds a permit, claim_next_job sent                         *)
(*   claimed   the claim took effect, its reply is on the way              *)
(*   run       inside execute, before complete_job                         *)
(*   complete  complete_job sent                                           *)
(*   webhook   complete_job returned, fire_webhook running                 *)
(*   fail      fail_job sent                                               *)
(* run, complete and webhook lie inside tokio::time::timeout.              *)
(***************************************************************************)
Executing == {"run", "complete", "webhook"}
Holding   == Executing \cup {"claimed", "fail"}
Stages    == Holding \cup {"acquire", "claim"}

\* claim is the job's stall count when it was claimed.  A row is claimed at
\* most once between two requeues, so it identifies the claim.
Idle == [pc |-> "acquire", job |-> NoJob, claim |-> 0, timer |-> 0]

Holds(w) == worker[w].pc \in Holding

Ops     == {"complete", "fail"}
LateOps == {"claim", "requeue", "failover"}

(***************************************************************************)
(* Shared pieces of actions                                                *)
(***************************************************************************)

Fault == /\ faults < MaxFaults
         /\ faults' = faults + 1

Goto(w, stage) == worker' = [worker EXCEPT ![w].pc = stage]

Restart(w, stage) ==
    worker' = [worker EXCEPT ![w] = [@ EXCEPT !.pc = stage, !.timer = 0]]

\* drop(permit), and back to the top of the loop
Release(w) == /\ worker' = [worker EXCEPT ![w] = Idle]
              /\ permits' = permits + 1

\* The statement op reaches the row of j.
Settle(op, j) ==
    /\ rows' = IF op = "complete" THEN CompleteRow(rows, j) ELSE FailRow(rows, j)
    /\ lockAge' = [lockAge EXCEPT ![j] = 0]

\* Worker w's statement, still on its way when w stops waiting for it.  The age of
\* a fail_job statement is known; that of complete_job is only bounded by execute's.
InFlight(w) ==
    [op |-> worker[w].pc, job |-> worker[w].job, claim |-> worker[w].claim,
     wait |-> IF worker[w].pc = "fail" THEN worker[w].timer ELSE 0]

FewLate == late'["claim"] + late'["requeue"] + late'["failover"] <= MaxLate

\* One more statement of the kind op is in flight with nobody waiting for it.
LeftInFlight(op) == late' = [late EXCEPT ![op] = @ + 1] /\ FewLate

(***************************************************************************)
(* API side                                                                *)
(***************************************************************************)

\* enqueue: the handlers of api.rs insert a job.
Enqueue(j) ==
    /\ rows[j].status = "absent"
    /\ rows' = EnqueueRow(rows, j,
                   1 + Cardinality({k \in Jobs : rows[k].status # "absent"}))
    /\ UNCHANGED <<lockAge, worker, permits, orphans, late, recovery, notified, takenLate, faults>>

\* cancel_group, the statement on the job rows: of this job, if it is pending.  (cancel_job
\* would have the same effect; CrawlGroups shows why no request gets as far as calling it.)
CancelJob(j) ==
    /\ rows[j].status \in Pending
    /\ rows' = CancelRows(rows, {j})
    /\ lockAge' = [lockAge EXCEPT ![j] = 0]
    /\ UNCHANGED <<worker, permits, orphans, late, recovery, notified, takenLate, faults>>

(***************************************************************************)
(* Worker::run                                                             *)
(***************************************************************************)

AcquirePermit(w) ==
    /\ worker[w].pc = "acquire"
    /\ permits > 0
    /\ permits' = permits - 1
    /\ Goto(w, "claim")
    /\ UNCHANGED <<rows, lockAge, orphans, late, recovery, notified, takenLate, faults>>

\* claim_next_job takes effect on j; the row, stall count included, is returned.
ClaimEffect(w, j) ==
    /\ rows' = ClaimRow(rows, j, w)
    /\ lockAge' = [lockAge EXCEPT ![j] = 0]

Claim(w) ==
    /\ worker[w].pc = "claim"
    /\ \E j \in NextQueued(rows, Prio) :
          /\ ClaimEffect(w, j)
          /\ worker' = [worker EXCEPT ![w] =
                [pc |-> "claimed", job |-> j, claim |-> rows[j].stalls, timer |-> 0]]
    /\ UNCHANGED <<permits, orphans, late, recovery, notified, takenLate, faults>>

\* Ok(None): release the permit, sleep 500 ms, ask again.
ClaimNone(w) ==
    /\ worker[w].pc = "claim"
    /\ NextQueued(rows, Prio) = {}
    /\ Release(w)
    /\ UNCHANGED <<rows, lockAge, orphans, late, recovery, notified, takenLate, faults>>

\* Err(e): release the permit, sleep 2 s, ask again.  The claim was not executed, was
\* although the reply is lost, or still will be; then nobody runs the job.
ClaimError(w) ==
    /\ worker[w].pc = "claim"
    /\ Fault
    /\ \/ UNCHANGED <<rows, lockAge, late>>
       \/ \E j \in NextQueued(rows, Prio) : ClaimEffect(w, j) /\ UNCHANGED late
       \/ LeftInFlight("claim") /\ UNCHANGED <<rows, lockAge>>
    /\ Release(w)
    /\ UNCHANGED <<orphans, recovery, notified, takenLate>>

\* The claimed row arrives and its envelope parses: execute starts, and with it
\* the timeout.
StartJob(w) ==
    /\ worker[w].pc = "claimed"
    /\ Restart(w, "run")
    /\ UNCHANGED <<rows, lockAge, permits, orphans, late, recovery, notified, takenLate, faults>>

\* The claimed row arrives and its envelope does not parse.
RejectEnvelope(w) ==
    /\ worker[w].pc = "claimed"
    /\ Restart(w, "fail")
    /\ UNCHANGED <<rows, lockAge, permits, orphans, late, recovery, notified, takenLate, faults>>

\* execute returns an error before it calls complete_job.
ExecFails(w) ==
    /\ worker[w].pc = "run"
    /\ Restart(w, "fail")
    /\ UNCHANGED <<rows, lockAge, permits, orphans, late, recovery, notified, takenLate, faults>>

\* Mutant: complete_job is called outside the timeout around the work before it, with a
\* timeout of its own.
SendCompleteRestarted(w) ==
    /\ worker[w].pc = "run"
    /\ Restart(w, "complete")
    /\ UNCHANGED <<rows, lockAge, permits, orphans, late, recovery, notified, takenLate, faults>>

SendComplete(w) ==
    /\ worker[w].pc = "run"
    /\ Goto(w, "complete")
    /\ UNCHANGED <<rows, lockAge, permits, orphans, late, recovery, notified, takenLate, faults>>

CompleteApplied(w) ==
    /\ worker[w].pc = "complete"
    /\ Settle("complete", worker[w].job)
    /\ Goto(w, "webhook")
    /\ UNCHANGED <<permits, orphans, late, recovery, notified, takenLate, faults>>

\* complete_job returns an error, so execute does, and fail_job follows.  The
\* statement was not executed, was, or still will be.
CompleteErrors(w) ==
    /\ worker[w].pc = "complete"
    /\ Fault
    /\ Restart(w, "fail")
    /\ \/ UNCHANGED <<rows, lockAge, orphans>>
       \/ Settle("complete", worker[w].job) /\ UNCHANGED orphans
       \/ /\ orphans' = orphans \cup {InFlight(w)}
          /\ UNCHANGED <<rows, lockAge>>
    /\ UNCHANGED <<permits, late, recovery, notified, takenLate>>

\* One of the three attempts of fire_webhook reaches the receiver; its response
\* is still awaited.
DeliverWebhook(w) ==
    /\ worker[w].pc = "webhook"
    /\ worker[w].job \in Webhooks
    /\ notified' = notified \cup {worker[w].job}
    /\ UNCHANGED <<rows, lockAge, worker, permits, orphans, late, recovery, takenLate, faults>>

\* fire_webhook returns (its result is ignored) and so does execute.
Finish(w) ==
    /\ worker[w].pc = "webhook"
    /\ Release(w)
    /\ UNCHANGED <<rows, lockAge, orphans, late, recovery, notified, takenLate, faults>>

\* Mutants: a timed-out job is run again on the spot; it is dropped without fail_job.
TimeoutRunsAgain(w) ==
    /\ worker[w].pc \in Executing
    /\ worker[w].timer = JobTimeout
    /\ Restart(w, "run")
    /\ UNCHANGED <<rows, lockAge, permits, orphans, late, recovery, notified, takenLate, faults>>

TimeoutGivesUp(w) ==
    /\ worker[w].pc \in Executing
    /\ worker[w].timer = JobTimeout
    /\ Release(w)
    /\ UNCHANGED <<rows, lockAge, orphans, late, recovery, notified, takenLate, faults>>

\* The timeout drops execute wherever it is, then fail_job is called.  A
\* complete_job statement already sent is not recalled.
Timeout(w) ==
    /\ worker[w].pc \in Executing
    /\ worker[w].timer = JobTimeout
    /\ Restart(w, "fail")
    /\ \/ UNCHANGED orphans
       \/ /\ worker[w].pc = "complete"
          /\ orphans' = orphans \cup {InFlight(w)}
    /\ UNCHANGED <<rows, lockAge, permits, late, recovery, notified, takenLate, faults>>

FailApplied(w) ==
    /\ worker[w].pc = "fail"
    /\ Settle("fail", worker[w].job)
    /\ Release(w)
    /\ UNCHANGED <<orphans, late, recovery, notified, takenLate, faults>>

\* fail_job returns an error, which Worker::run ignores.
FailErrors(w) ==
    /\ worker[w].pc = "fail"
    /\ Fault
    /\ Release(w)
    /\ \/ UNCHANGED orphans
       \/ orphans' = orphans \cup {InFlight(w)}
    /\ UNCHANGED <<rows, lockAge, late, recovery, notified, takenLate>>

\* Mutant: the permit is forgotten instead of dropped.
PanicKeepsPermit(w) ==
    /\ worker[w].pc = "run"
    /\ Fault
    /\ worker' = [worker EXCEPT ![w] = Idle]
    /\ UNCHANGED <<rows, lockAge, permits, orphans, late, recovery, notified, takenLate>>

\* A panic while the job runs unwinds the task: the permit is dropped, the row
\* stays active, and WorkerPool::run spawns the worker again.
Panic(w) ==
    /\ worker[w].pc = "run"
    /\ Fault
    /\ Release(w)
    /\ UNCHANGED <<rows, lockAge, orphans, late, recovery, notified, takenLate>>

(***************************************************************************)
(* Statements nobody waits for, and the crash of the process               *)
(***************************************************************************)

OrphanApplied ==
    \E o \in orphans :
        /\ Settle(o.op, o.job)
        /\ orphans' = orphans \ {o}
        /\ UNCHANGED <<worker, permits, late, recovery, notified, takenLate, faults>>

OrphanDropped ==
    \E o \in orphans :
        /\ orphans' = orphans \ {o}
        /\ UNCHANGED <<rows, lockAge, worker, permits, late, recovery, notified, takenLate, faults>>

\* The process dies and is started again.  Only the database survives, and any of the
\* statements that the workers and the recovery loop have sent, which may still arrive.
Crash ==
    /\ Fault
    /\ \E sent \in SUBSET {w \in Workers : worker[w].pc \in Ops \cup {"claim"}}, n \in {0, 1} :
          /\ orphans' = orphans \cup {InFlight(w) : w \in {v \in sent : worker[v].pc \in Ops}}
          /\ late' = [op \in LateOps |->
                        late[op] + Cardinality({w \in sent : worker[w].pc = op})
                                 + IF op = recovery THEN n ELSE 0]
          /\ FewLate
    /\ worker' = [w \in Workers |-> Idle]
    /\ permits' = MaxConcurrent
    /\ recovery' = "requeue"
    /\ UNCHANGED <<rows, lockAge, notified, takenLate>>

(***************************************************************************)
(* stall_recovery_loop                                                     *)
(***************************************************************************)

\* Mutant: stalls compared without COALESCE, so a first stall (NULL) is never seen.
StaleOnceStalled ==
    {j \in Jobs : rows[j].status = "active" /\ lockAge[j] > StaleAfter /\ rows[j].stalls > 0}

\* active and locked_at < now() - StaleAfter
Stale == {j \in Jobs : rows[j].status = "active" /\ lockAge[j] > StaleAfter}

RequeueEffect ==
    /\ rows' = RequeueRows(rows, Stale)
    /\ lockAge' = [j \in Jobs |-> IF j \in Stale THEN 0 ELSE lockAge[j]]

Requeue ==
    /\ recovery = "requeue"
    /\ RequeueEffect
    /\ recovery' = "failover"
    /\ UNCHANGED <<worker, permits, orphans, late, notified, takenLate, faults>>

\* An error skips the fail-over of this round.  The requeue was not executed, was, or
\* still will be.
RequeueError ==
    /\ recovery = "requeue"
    /\ Fault
    /\ \/ RequeueEffect /\ UNCHANGED late
       \/ UNCHANGED <<rows, lockAge, late>>
       \/ LeftInFlight("requeue") /\ UNCHANGED <<rows, lockAge>>
    /\ UNCHANGED <<worker, permits, orphans, recovery, notified, takenLate>>

FailOverEffect == rows' = FailOverRows(rows, MaxStalls) /\ UNCHANGED lockAge

FailOver ==
    /\ recovery = "failover"
    /\ FailOverEffect
    /\ recovery' = "requeue"
    /\ UNCHANGED <<worker, permits, orphans, late, notified, takenLate, faults>>

\* An error is logged: the statement was executed (FailOver), was not, or still will be.
FailOverError ==
    /\ recovery = "failover"
    /\ Fault
    /\ recovery' = "requeue"
    /\ UNCHANGED late \/ LeftInFlight("failover")
    /\ UNCHANGED <<rows, lockAge, worker, permits, orphans, notified, takenLate>>

(***************************************************************************)
(* Claims and rounds of the recovery loop that land late                   *)
(***************************************************************************)

Arrives(op) ==
    /\ late[op] > 0
    /\ late' = [late EXCEPT ![op] = @ - 1]
    /\ UNCHANGED <<worker, permits, orphans, recovery, notified, faults>>

\* The lock is that of a worker of the past; nothing compares it.
ClaimArrives ==
    /\ Arrives("claim")
    /\ \E w \in Workers, j \in NextQueued(rows, Prio) :
          /\ ClaimEffect(w, j)
          /\ takenLate' = [takenLate EXCEPT ![j] = @ + 1]

RequeueArrives ==
    /\ Arrives("requeue")
    /\ RequeueEffect
    /\ UNCHANGED takenLate

FailOverArrives ==
    /\ Arrives("failover")
    /\ FailOverEffect
    /\ UNCHANGED takenLate

\* It does not arrive, or finds no row to change.
NothingArrives ==
    /\ \E op \in LateOps : Arrives(op)
    /\ UNCHANGED <<rows, lockAge, takenLate>>

LateStatement == ClaimArrives \/ RequeueArrives \/ FailOverArrives \/ NothingArrives

(***************************************************************************)
(* Time                                                                    *)
(***************************************************************************)

\* How long worker w can stay in its stage: the timeout fires when it is due,
\* and a statement is done within DbLatency.
Limit(stage) == IF stage \in Executing THEN JobTimeout ELSE DbLatency

Older(j) == IF rows[j].status = "active" /\ lockAge[j] <= StaleAfter
            THEN lockAge[j] + 1
            ELSE lockAge[j]

Tick ==
    /\ \A w \in Workers : Holds(w) => worker[w].timer < Limit(worker[w].pc)
    /\ \A o \in orphans : o.wait < DbLatency
    /\ lockAge' = [j \in Jobs |-> Older(j)]
    /\ worker' = [w \in Workers |->
                     IF Holds(w) THEN [worker[w] EXCEPT !.timer = @ + 1] ELSE worker[w]]
    /\ orphans' = {[o EXCEPT !.wait = @ + 1] : o \in orphans}
    /\ UNCHANGED <<rows, permits, late, recovery, notified, takenLate, faults>>

(***************************************************************************)
(* Specification                                                           *)
(***************************************************************************)

Init ==
    /\ rows = [j \in Jobs |-> AbsentRow]
    /\ lockAge = [j \in Jobs |-> 0]
    /\ worker = [w \in Workers |-> Idle]
    /\ permits = MaxConcurrent
    /\ orphans = {}
    /\ late = [op \in LateOps |-> 0]
    /\ recovery = "requeue"
    /\ notified = {}
    /\ takenLate = [j \in Jobs |-> 0]
    /\ faults = 0

Api(j) == Enqueue(j) \/ CancelJob(j)

WorkerStep(w) ==
    \/ AcquirePermit(w)
    \/ Claim(w)
    \/ ClaimNone(w)
    \/ ClaimError(w)
    \/ StartJob(w)
    \/ RejectEnvelope(w)
    \/ ExecFails(w)
    \/ SendComplete(w)
    \/ CompleteApplied(w)
    \/ CompleteErrors(w)
    \/ DeliverWebhook(w)
    \/ Finish(w)
    \/ Timeout(w)
    \/ FailApplied(w)
    \/ FailErrors(w)
    \/ Panic(w)

Recover == Requeue \/ RequeueError \/ FailOver \/ FailOverError

Next ==
    \/ \E j \in Jobs : Api(j)
    \/ \E w \in Workers : WorkerStep(w)
    \/ OrphanApplied
    \/ OrphanDropped
    \/ LateStatement
    \/ Crash
    \/ Recover
    \/ Tick

Spec == Init /\ [][Next]_vars

(***************************************************************************)
(* Fairness.  The runtime polls every task, a timeout that is due fires,   *)
(* the database answers and time passes.  Nothing is assumed of the page   *)
(* being scraped, of the model being asked or of the webhook's receiver:   *)
(* execute may hang, and only Timeout gets the worker out of it.           *)
(***************************************************************************)
Fairness ==
    /\ \A w \in Workers :
          /\ WF_vars(AcquirePermit(w))
          /\ WF_vars(Claim(w) \/ ClaimNone(w))
          /\ WF_vars(StartJob(w) \/ RejectEnvelope(w))
          /\ WF_vars(Timeout(w))
          /\ WF_vars(FailApplied(w))
    /\ WF_vars(OrphanApplied \/ OrphanDropped)
    /\ WF_vars(Requeue)
    /\ WF_vars(FailOver)
    /\ WF_vars(Tick)

FairSpec == Spec /\ Fairness

(***************************************************************************)
(* Properties                                                              *)
(***************************************************************************)

RowType == [status : JobStatus, lock : Workers \cup {NoLock},
            stalls : Nat, created : Nat]

WorkerType == [pc : Stages, job : Jobs \cup {NoJob}, claim : Nat, timer : Nat]

OrphanType == [op : Ops, job : Jobs, claim : Nat, wait : Nat]

\* Every variable has its type; a worker names a job exactly while it holds one,
\* no timer passes its limit, and a row carries a lock exactly while it is active.
TypeOK ==
    /\ rows \in [Jobs -> RowType]
    /\ lockAge \in [Jobs -> 0 .. StaleAfter + 1]
    /\ worker \in [Workers -> WorkerType]
    /\ permits \in Nat
    /\ orphans \in SUBSET OrphanType
    /\ late \in [LateOps -> Nat]
    /\ recovery \in {"requeue", "failover"}
    /\ notified \in SUBSET Jobs
    /\ takenLate \in [Jobs -> Nat]
    /\ faults \in 0 .. MaxFaults
    /\ \A w \in Workers :
          /\ Holds(w) <=> worker[w].job # NoJob
          /\ Holds(w) => worker[w].timer <= Limit(worker[w].pc)
    /\ \A o \in orphans : o.wait <= DbLatency
    /\ \A j \in Jobs : rows[j].lock # NoLock <=> rows[j].status = "active"

\* The code's promise of tests/postgres_queue.rs ("no other claimer steals it"):
\* two workers never hold the same job, from the claim to the last statement
\* about it, whatever crashes, panics, timeouts, lost replies and requeues occur.
Exclusive ==
    \A v, w \in Workers :
        v # w /\ Holds(v) /\ Holds(w) => worker[v].job # worker[w].job

\* The claim a pending complete_job or fail_job belongs to is still the row's
\* current one, or the row is settled.
OwnClaim(j, claim) ==
    \/ rows[j].status \in Terminal
    \/ rows[j].status = "active" /\ rows[j].stalls = claim

\* complete_job and fail_job check neither the status nor the lock of the row, so
\* a statement sent late must never find the job queued again or claimed anew:
\* this holds of every worker that may still send one and of every statement
\* left in flight by a timeout or a crash.
WritesHitOwnClaim ==
    /\ \A w \in Workers : Holds(w) => OwnClaim(worker[w].job, worker[w].claim)
    /\ \A o \in orphans : OwnClaim(o.job, o.claim)

\* The two latencies around execute fit in the margin the recovery loop adds to the
\* job timeout: the condition under which the queue is safe.
MarginCovers == 2 * DbLatency <= StallMargin

\* The age a lock can have reached while its worker is in the given stage.
Budget(stage, timer) ==
    CASE stage = "claimed"      -> timer
      [] stage \in Executing    -> DbLatency + timer
      [] stage = "fail"         -> DbLatency + JobTimeout + timer

\* The recovery loop never sees a lock as stale while somebody may still write under
\* it: a worker's lock is no older than the time its stage accounts for, that of a
\* statement in flight no older than a whole execution and the statement's own wait,
\* and after complete_job returned the row is settled.
LocksFresh ==
    /\ \A w \in Workers : Holds(w) =>
          /\ rows[worker[w].job].status = "active" =>
                lockAge[worker[w].job] <= Budget(worker[w].pc, worker[w].timer)
          /\ worker[w].pc = "webhook" => rows[worker[w].job].status \in Terminal
    /\ \A o \in orphans :
          rows[o.job].status = "active" =>
             lockAge[o.job] <= DbLatency + JobTimeout + o.wait

\* Every way out of Worker::run's loop body gives its permit back exactly once:
\* free permits and workers past acquire add up to the size of the semaphore.
PermitsConserved ==
    permits + Cardinality({w \in Workers : worker[w].pc # "acquire"}) = MaxConcurrent

Unattended(j) ==
    /\ rows[j].status = "active"
    /\ \A w \in Workers : Holds(w) => worker[w].job # j

\* Each stall of a job, and its being active now with nobody to settle it, is due to a
\* fault of its own (a crash, a panic, a lost claim reply or a lost fail_job) or to a claim
\* that landed after its caller had gone: the recovery loop never takes a job from a worker
\* that was still going to settle it, and no path of Worker::run forgets the job it claimed.
StallsPaid ==
    \A j \in Jobs :
        rows[j].stalls + (IF Unattended(j) THEN 1 ELSE 0) <= faults + takenLate[j]

\* Claims follow ORDER BY priority, created_at: a job that has been waiting since
\* it was inserted is not passed by a later one of the same or a worse priority.  Insertions
\* commit here in the order of created_at, and a statement that aborts holds no lock: a row
\* that SKIP LOCKED passes over because of one that does is outside the property.
NoOvertaking ==
    \A j, k \in Jobs :
        /\ rows[j].status = "queued" /\ rows[j].stalls = 0
        /\ rows[k].status = "active"
        /\ Prio[j] <= Prio[k]
        => rows[k].created < rows[j].created

\* A settled row is never claimed or queued again, whatever late statement or
\* recovery round touches it.
TerminalStays ==
    [][\A j \in Jobs : rows[j].status \in Terminal => rows'[j].status \in Terminal]_vars

\* worker.rs:4 and models.rs:196: the webhook is fired on completion.  A receiver
\* that was told a job completed can then read it as completed.
NotifiedMeansCompleted == \A j \in notified : rows[j].status = "completed"

\* An enqueued job is eventually settled, even if the page never answers and the
\* process crashes, as long as faults stop.  Jobs is finite: a stream of more urgent jobs
\* that never ends may well keep one waiting for ever.
EveryJobSettles ==
    \A j \in Jobs : rows[j].status = "queued" ~> rows[j].status \in Terminal

\* Behind locks, ages, late statements and lost replies the queue keeps the promise of
\* JobLifecycle: a job is only ever taken, put back or given up while nobody else answers
\* for it, and one that has an outcome never waits again.
Lifecycle ==
    INSTANCE JobLifecycle WITH
        status  <- [j \in Jobs |-> rows[j].status],
        runners <- [j \in Jobs |-> {w \in Workers : worker[w].job = j}]

KeepsLifecycle == Lifecycle!Spec
=============================================================================
