----------------------------- MODULE NuqTables -----------------------------
(***************************************************************************)
(* The statements that src/src/database.rs runs against nuq.queue_scrape,  *)
(* as operators on the table: each takes the rows and returns the rows     *)
(* after the statement.  A table is a function from job ids to records     *)
(* with at least the columns                                               *)
(*                                                                         *)
(*   status   the job_status, or "absent" for a row not inserted yet       *)
(*   lock     the claimant's lock id, or NoLock for NULL                   *)
(*   stalls   0 for NULL: COALESCE(stalls, 0) reads NULL as 0 and          *)
(*            stalls >= $1 never matches NULL                              *)
(*   created  the position of created_at in the order of insertions, 0     *)
(*            for an absent row                                            *)
(*                                                                         *)
(* A statement is one step.  PostgreSQL runs each in its own transaction   *)
(* under READ COMMITTED, where an UPDATE re-evaluates its WHERE clause on  *)
(* the latest version of a row it waited for; a claim that skips a row     *)
(* another transaction has locked is ordered after that transaction.       *)
(***************************************************************************)
EXTENDS Integers

CONSTANT NoLock      \* the NULL of the lock column

\* 'scraping' is in the SQL enum and no statement ever stores it.
JobStatus == {"absent", "queued", "active", "completed", "failed", "cancelled"}
Pending   == {"queued", "active"}
Terminal  == {"completed", "failed", "cancelled"}

AbsentRow == [status |-> "absent", lock |-> NoLock, stalls |-> 0, created |-> 0]

\* INSERT ... status DEFAULT 'queued'
EnqueueRow(rows, j, now) ==
    [rows EXCEPT ![j] = [@ EXCEPT !.status = "queued", !.created = now]]

\* Mutant: ORDER BY priority alone.
NextQueuedAnyAge(rows, prio) ==
    {j \in DOMAIN rows :
        /\ rows[j].status = "queued"
        /\ \A k \in DOMAIN rows : rows[k].status = "queued" => prio[j] <= prio[k]}

\* The one row of SELECT ... WHERE status = 'queued'
\* ORDER BY priority, created_at, id LIMIT 1, as a set: empty when there is none.
\* created is injective on the rows present, so id never decides.
NextQueued(rows, prio) ==
    {j \in DOMAIN rows :
        /\ rows[j].status = "queued"
        /\ \A k \in DOMAIN rows :
              rows[k].status = "queued" =>
                 \/ prio[j] < prio[k]
                 \/ prio[j] = prio[k] /\ rows[j].created <= rows[k].created}

\* SET status = 'active', lock = $1
ClaimRow(rows, j, l) ==
    [rows EXCEPT ![j] = [@ EXCEPT !.status = "active", !.lock = l]]

\* SET status = 'completed', lock = NULL WHERE id and created_at match: neither
\* the status nor the lock of the row is looked at.
CompleteRow(rows, j) ==
    [rows EXCEPT ![j] = [@ EXCEPT !.status = "completed", !.lock = NoLock]]

\* Mutants: the lock is not cleared; a failed job is put back for another attempt.
FailRowKeepsLock(rows, j) == [rows EXCEPT ![j].status = "failed"]

FailRowRetries(rows, j) ==
    [rows EXCEPT ![j] = [@ EXCEPT !.status = "queued", !.lock = NoLock]]

\* SET status = 'failed', lock = NULL WHERE id and created_at match: as above.
FailRow(rows, j) ==
    [rows EXCEPT ![j] = [@ EXCEPT !.status = "failed", !.lock = NoLock]]

\* SET status = 'cancelled', lock = NULL WHERE ... status IN ('queued', 'active')
CancelRows(rows, S) ==
    [j \in DOMAIN rows |->
        IF j \in S /\ rows[j].status \in Pending
        THEN [rows[j] EXCEPT !.status = "cancelled", !.lock = NoLock]
        ELSE rows[j]]

\* SET status = 'queued', lock = NULL, stalls = COALESCE(stalls, 0) + 1
\* WHERE status = 'active' AND locked_at is too old: S holds the rows that are.
RequeueRows(rows, S) ==
    [j \in DOMAIN rows |->
        IF j \in S /\ rows[j].status = "active"
        THEN [rows[j] EXCEPT !.status = "queued", !.lock = NoLock, !.stalls = @ + 1]
        ELSE rows[j]]

\* SET status = 'failed' WHERE status = 'queued' AND stalls >= $1
FailOverRows(rows, maxStalls) ==
    [j \in DOMAIN rows |->
        IF /\ rows[j].status = "queued"
           /\ rows[j].stalls > 0            \* NULL >= $1 is not true
           /\ rows[j].stalls >= maxStalls
        THEN [rows[j] EXCEPT !.status = "failed"]
        ELSE rows[j]]
=============================================================================
