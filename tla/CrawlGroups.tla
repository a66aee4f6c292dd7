----------------------------- MODULE CrawlGroups -----------------------------
(***************************************************************************)
(* Crawl and batch jobs, the groups their pages are collected in, and the  *)
(* requests of api.rs that create, poll and cancel them.                   *)
(*                                                                         *)
(* A request and a run are sequences of statements, one action each, with  *)
(* no transaction around them: the actions of several clients and workers  *)
(* interleave between any two.  The queue itself is as in JobQueue, with   *)
(* its result taken for granted: a job is claimed by one worker at a time  *)
(* and requeued only when that worker is gone.  Claim order and time are   *)
(* left to JobQueue, so a claim takes any queued job and a run may break   *)
(* off (error or timeout) before any of its statements.                    *)
(*                                                                         *)
(* A group can be asked for by its id: POST /v2/crawl answers with it, and *)
(* GET /v2/crawl/ongoing lists every active group, those that batches make *)
(* included.  An id that names no group, such as the one POST              *)
(* /v2/batch/scrape answers with, takes every handler to get_job.          *)
(***************************************************************************)
EXTENDS NuqTables, FiniteSets

CONSTANTS
    Crawls,       \* jobs of POST /v2/crawl
    Batches,      \* jobs of POST /v2/batch/scrape
    Groups,       \* ids create_crawl_group can draw
    Clients,      \* requests in progress at a time
    Workers,
    MaxJobs,      \* bound on the jobs posted
    MaxPages,     \* bound on the pages one run finds
    MaxStalls,
    MaxCrashes,   \* bound on runs that end without their fail_job
    NoJob,
    NoGroup

ASSUME KindsAssumption == Crawls \cap Batches = {}
ASSUME NullsAssumption ==
    /\ NoJob \notin Crawls \cup Batches
    /\ NoGroup \notin Groups
    /\ NoLock \notin Workers
ASSUME BoundsAssumption ==
    MaxJobs \in Nat /\ MaxPages \in Nat /\ MaxStalls \in Nat /\ MaxCrashes \in Nat

Jobs == Crawls \cup Batches

VARIABLES
    rows,      \* the job rows of nuq.queue_scrape, with their group_id
    pages,     \* how many page rows (inserted as completed) each group has
    groups,    \* status column of nuq.group_crawl; "absent" before the INSERT
    run,       \* each worker's run
    client,    \* each request's progress, and its answer
    known,     \* jobs a client got an answer for when it posted them
    scraped,   \* history: pages found by the latest run of each group
    sealed,    \* history: pages of the run that marked the group completed
    crashes

vars == <<rows, pages, groups, run, client, known, scraped, sealed, crashes>>

history == <<scraped, sealed>>

IdleRun == [pc |-> "idle", job |-> NoJob, group |-> NoGroup, found |-> 0, done |-> 0]

IdleClient ==
    [pc |-> "idle", job |-> NoJob, group |-> NoGroup, read |-> "absent", settled |-> FALSE,
     pages |-> 0, owed |-> 0]

Final == {"completed", "failed", "cancelled"}

JobsIn(g) == {j \in Jobs : rows[j].group = g}

\* get_group_counts: counts.pending = 0 and counts.total > 0
SettledIn(g) ==
    /\ \A j \in JobsIn(g) : rows[j].status \notin Pending
    /\ JobsIn(g) # {} \/ pages[g] > 0

\* "derive overall job status from the group status and pending counts"
Overall(group, settled) ==
    CASE group = "completed" -> "completed"
      [] group = "cancelled" -> "cancelled"
      [] group = "active" /\ settled -> "completed"
      [] OTHER -> "scraping"

\* gen_random_uuid: which of the unused ids it draws makes no difference.
FreshGroups == {g \in Groups : groups[g] = "absent"}

FreshGroup == CHOOSE g \in FreshGroups : TRUE

\* INSERT INTO nuq.group_crawl; status DEFAULT 'active'
CreateGroup(g) == groups' = [groups EXCEPT ![g] = "active"]

SetGroup(g, status) == groups' = [groups EXCEPT ![g] = status]

(***************************************************************************)
(* A worker's run: run_crawl and run_batch_scrape                          *)
(*   newgroup, link   a batch run creates its own group and moves the job  *)
(*                    row into it; a crawl uses the group in its job data  *)
(*   fetch            scraping                                             *)
(*   insert           enqueue_completed, page by page                      *)
(*   complete         set_group_status done, complete_job next             *)
(*   webhook          complete_job done                                    *)
(*   fail             fail_job next                                        *)
(***************************************************************************)
Unsettled == {"newgroup", "link", "fetch", "insert", "complete"}

Step(w, stage) == run' = [run EXCEPT ![w].pc = stage]

\* Mutant: a run marks its group active when it starts.
ClaimReopens(w, j) ==
    /\ run[w].pc = "idle"
    /\ rows[j].status = "queued"
    /\ rows' = ClaimRow(rows, j, w)
    /\ run' = [run EXCEPT ![w] =
          [pc |-> IF j \in Crawls THEN "fetch" ELSE "newgroup",
           job |-> j, group |-> rows[j].group, found |-> 0, done |-> 0]]
    /\ groups' = [g \in Groups |-> IF g = rows[j].group THEN "active" ELSE groups[g]]
    /\ UNCHANGED <<pages, client, known, history, crashes>>

Claim(w, j) ==
    /\ run[w].pc = "idle"
    /\ rows[j].status = "queued"
    /\ rows' = ClaimRow(rows, j, w)
    /\ run' = [run EXCEPT ![w] =
          [pc |-> IF j \in Crawls THEN "fetch" ELSE "newgroup",
           job |-> j, group |-> rows[j].group, found |-> 0, done |-> 0]]
    /\ UNCHANGED <<pages, groups, client, known, history, crashes>>

NewGroup(w) ==
    /\ run[w].pc = "newgroup"
    /\ FreshGroups # {}
    /\ CreateGroup(FreshGroup)
    /\ run' = [run EXCEPT ![w] = [@ EXCEPT !.pc = "link", !.group = FreshGroup]]
    /\ UNCHANGED <<rows, pages, client, known, history, crashes>>

\* update_job_group: by id, whatever the row's status
Link(w) ==
    /\ run[w].pc = "link"
    /\ rows' = [rows EXCEPT ![run[w].job].group = run[w].group]
    /\ Step(w, "fetch")
    /\ UNCHANGED <<pages, groups, client, known, history, crashes>>

\* scraper.crawl, or the scrapes of the batch that succeed
Fetch(w) ==
    /\ run[w].pc = "fetch"
    /\ \E n \in 0 .. MaxPages :
          /\ run' = [run EXCEPT ![w] = [@ EXCEPT !.pc = "insert", !.found = n]]
          /\ scraped' = [scraped EXCEPT ![run[w].group] = n]
    /\ UNCHANGED <<rows, pages, groups, client, known, sealed, crashes>>

\* enqueue_completed of one page
Insert(w) ==
    /\ run[w].pc = "insert"
    /\ run[w].done < run[w].found
    /\ pages' = [pages EXCEPT ![run[w].group] = @ + 1]
    /\ run' = [run EXCEPT ![w].done = @ + 1]
    /\ UNCHANGED <<rows, groups, client, known, history, crashes>>

\* Mutants: the group is marked while pages are still being inserted; it is not marked.
SealEarly(w) ==
    /\ run[w].pc = "insert"
    /\ SetGroup(run[w].group, "completed")
    /\ sealed' = [sealed EXCEPT ![run[w].group] = run[w].found]
    /\ Step(w, IF run[w].done = run[w].found THEN "complete" ELSE "insert")
    /\ UNCHANGED <<rows, pages, client, known, scraped, crashes>>

SealSkipped(w) ==
    /\ run[w].pc = "insert"
    /\ run[w].done = run[w].found
    /\ Step(w, "complete")
    /\ UNCHANGED <<rows, pages, groups, client, known, history, crashes>>

\* set_group_status(Completed), whatever the group's status is by now
Seal(w) ==
    /\ run[w].pc = "insert"
    /\ run[w].done = run[w].found
    /\ SetGroup(run[w].group, "completed")
    /\ sealed' = [sealed EXCEPT ![run[w].group] = run[w].found]
    /\ Step(w, "complete")
    /\ UNCHANGED <<rows, pages, client, known, scraped, crashes>>

\* complete_job, whatever the row's status is by now
Complete(w) ==
    /\ run[w].pc = "complete"
    /\ rows' = CompleteRow(rows, run[w].job)
    /\ Step(w, "webhook")
    /\ UNCHANGED <<pages, groups, client, known, history, crashes>>

\* An error of a statement or of the scraper, or the job timeout.
Break(w) ==
    /\ run[w].pc \in Unsettled \cup {"webhook"}
    /\ Step(w, "fail")
    /\ UNCHANGED <<rows, pages, groups, client, known, history, crashes>>

\* fail_job, whatever the row's status is by now
Fail(w) ==
    /\ run[w].pc = "fail"
    /\ rows' = FailRow(rows, run[w].job)
    /\ run' = [run EXCEPT ![w] = IdleRun]
    /\ UNCHANGED <<pages, groups, client, known, history, crashes>>

Finish(w) ==
    /\ run[w].pc = "webhook"
    /\ run' = [run EXCEPT ![w] = IdleRun]
    /\ UNCHANGED <<rows, pages, groups, client, known, history, crashes>>

\* The worker is gone, or its fail_job is lost.
Crash(w) ==
    /\ run[w].pc # "idle"
    /\ crashes < MaxCrashes
    /\ crashes' = crashes + 1
    /\ run' = [run EXCEPT ![w] = IdleRun]
    /\ UNCHANGED <<rows, pages, groups, client, known, history>>

\* Mutant: stalls compared without COALESCE, so a first stall (NULL) is never seen.
UnattendedOnceStalled ==
    {j \in Jobs : /\ rows[j].status = "active" /\ rows[j].stalls > 0
                  /\ \A w \in Workers : run[w].job # j}

\* stall_recovery_loop's two statements: JobQueue shows that a job is stale only
\* when no worker holds it.
Unattended == {j \in Jobs : rows[j].status = "active" /\ \A w \in Workers : run[w].job # j}

Requeue ==
    /\ Unattended # {}
    /\ rows' = RequeueRows(rows, Unattended)
    /\ UNCHANGED <<pages, groups, run, client, known, history, crashes>>

FailOver ==
    /\ rows' = FailOverRows(rows, MaxStalls)
    /\ rows' # rows
    /\ UNCHANGED <<pages, groups, run, client, known, history, crashes>>

(***************************************************************************)
(* Requests                                                                *)
(***************************************************************************)

At(c, stage) == client[c].pc = stage

Goto(c, stage) == client' = [client EXCEPT ![c].pc = stage]

\* An answer no property looks at, an error or another status than completed, just
\* ends the request.
Done(c) == client' = [client EXCEPT ![c] = IdleClient]

Begin(c, stage, j, g) ==
    client' = [client EXCEPT ![c] = [IdleClient EXCEPT !.pc = stage, !.job = j, !.group = g]]

\* The groups whose id a client may have: each was active, so listed, when it was made.
Exists(g) == groups[g] # "absent"

\* Each id is posted once, and MaxJobs of them.
CanPost(j) ==
    LET posted == {i \in Jobs : \/ rows[i].status # "absent"
                                \/ \E c \in Clients : At(c, "enqueue") /\ client[c].job = i}
    IN  j \notin posted /\ Cardinality(posted) < MaxJobs

\* POST /v2/crawl: create_crawl_group ...
PostCrawl(c, j) ==
    /\ At(c, "idle")
    /\ CanPost(j)
    /\ FreshGroups # {}
    /\ CreateGroup(FreshGroup)
    /\ Begin(c, "enqueue", j, FreshGroup)
    /\ UNCHANGED <<rows, pages, run, known, history, crashes>>

\* Mutant: the row is inserted without its group_id.
EnqueueCrawlUngrouped(c) ==
    /\ At(c, "enqueue")
    /\ rows' = EnqueueRow(rows, client[c].job, 1)
    /\ known' = known \cup {client[c].job}
    /\ Done(c)
    /\ UNCHANGED <<pages, groups, run, history, crashes>>

\* ... then enqueue, with the group in the job data and in group_id
EnqueueCrawl(c) ==
    /\ At(c, "enqueue")
    /\ rows' = [EnqueueRow(rows, client[c].job, 1) EXCEPT ![client[c].job].group = client[c].group]
    /\ known' = known \cup {client[c].job}
    /\ Done(c)
    /\ UNCHANGED <<pages, groups, run, history, crashes>>

\* POST /v2/batch/scrape: enqueue, without a group
PostBatch(c, j) ==
    /\ At(c, "idle")
    /\ CanPost(j)
    /\ rows' = EnqueueRow(rows, j, 1)
    /\ known' = known \cup {j}
    /\ UNCHANGED <<pages, groups, run, client, history, crashes>>

\* GET /v2/crawl/{id} of a group
GetGroup(c, g) ==
    /\ At(c, "idle")
    /\ Exists(g)
    /\ Begin(c, "group", NoJob, g)
    /\ UNCHANGED <<rows, pages, groups, run, known, history, crashes>>

\* GET or DELETE of /v2/batch/scrape/{id}: DELETE has found no group of that id first
AskBatch(c, j) ==
    /\ At(c, "idle")
    /\ j \in known \cap Batches
    /\ Begin(c, "job", j, NoGroup)
    /\ UNCHANGED <<rows, pages, groups, run, known, history, crashes>>

\* get_job.  Its lines end in a backslash without a space before it, so the statement
\* reads "queue_scrapeWHERE id = $1ORDER BY created_at DESCLIMIT 1": PostgreSQL refuses
\* it and the answer is an error whatever the row says.
GetJobRefused(c) ==
    /\ At(c, "job")
    /\ Done(c)
    /\ UNCHANGED <<rows, pages, groups, run, known, history, crashes>>

\* get_crawl_group.  History: the pages the group owes an answer that says completed.
ReadGroup(c) ==
    /\ At(c, "group")
    /\ client' = [client EXCEPT ![c] =
          [@ EXCEPT !.pc = "counts", !.read = groups[client[c].group],
                    !.owed = IF groups[client[c].group] = "completed" THEN sealed[client[c].group] ELSE 0]]
    /\ UNCHANGED <<rows, pages, groups, run, known, history, crashes>>

\* get_group_counts
ReadCounts(c) ==
    /\ At(c, "counts")
    /\ client' = [client EXCEPT ![c] =
          [@ EXCEPT !.pc = "results", !.settled = SettledIn(client[c].group)]]
    /\ UNCHANGED <<rows, pages, groups, run, known, history, crashes>>

\* get_group_results, and the answer; a page of results is taken to hold them all
ReadResults(c) ==
    /\ At(c, "results")
    /\ IF Overall(client[c].read, client[c].settled) = "completed"
       THEN client' = [client EXCEPT ![c] =
               [@ EXCEPT !.pc = "answered", !.pages = pages[client[c].group],
                         !.settled = FALSE]]
       ELSE Done(c)
    /\ UNCHANGED <<rows, pages, groups, run, known, history, crashes>>

\* DELETE /v2/crawl/{id} of a group
DeleteGroup(c, g) ==
    /\ At(c, "idle")
    /\ Exists(g)
    /\ Begin(c, "cancelRows", NoJob, g)
    /\ UNCHANGED <<rows, pages, groups, run, known, history, crashes>>

\* cancel_group, first statement
CancelGroupRows(c) ==
    /\ At(c, "cancelRows")
    /\ rows' = CancelRows(rows, JobsIn(client[c].group))
    /\ Goto(c, "cancelGroup")
    /\ UNCHANGED <<pages, groups, run, known, history, crashes>>

\* cancel_group, second statement, whatever the group's status is by now
CancelGroup(c) ==
    /\ At(c, "cancelGroup")
    /\ SetGroup(client[c].group, "cancelled")
    /\ Done(c)
    /\ UNCHANGED <<rows, pages, run, known, history, crashes>>

\* A database error ends a request before any of its statements; what it did stays.
RequestFails(c) ==
    /\ client[c].pc \notin {"idle", "answered"}
    /\ Done(c)
    /\ UNCHANGED <<rows, pages, groups, run, known, history, crashes>>

NextRequest(c) ==
    /\ At(c, "answered")
    /\ client' = [client EXCEPT ![c] = IdleClient]
    /\ UNCHANGED <<rows, pages, groups, run, known, history, crashes>>

(***************************************************************************)
(* Specification                                                           *)
(***************************************************************************)

Init ==
    /\ rows = [j \in Jobs |->
          [status |-> "absent", lock |-> NoLock, stalls |-> 0, created |-> 0,
           group |-> NoGroup]]
    /\ pages = [g \in Groups |-> 0]
    /\ groups = [g \in Groups |-> "absent"]
    /\ run = [w \in Workers |-> IdleRun]
    /\ client = [c \in Clients |-> IdleClient]
    /\ known = {}
    /\ scraped = [g \in Groups |-> 0]
    /\ sealed = [g \in Groups |-> 0]
    /\ crashes = 0

Run(w) ==
    \/ \E j \in Jobs : Claim(w, j)
    \/ NewGroup(w) \/ Link(w) \/ Fetch(w) \/ Insert(w) \/ Seal(w) \/ Complete(w)
    \/ Break(w) \/ Fail(w) \/ Finish(w)

Recover == Requeue \/ FailOver

Request(c) ==
    \/ \E j \in Crawls : PostCrawl(c, j)
    \/ \E j \in Batches : PostBatch(c, j) \/ AskBatch(c, j)
    \/ \E g \in Groups : GetGroup(c, g) \/ DeleteGroup(c, g)
    \/ EnqueueCrawl(c)
    \/ ReadGroup(c) \/ ReadCounts(c) \/ ReadResults(c) \/ GetJobRefused(c)
    \/ CancelGroupRows(c) \/ CancelGroup(c)
    \/ RequestFails(c) \/ NextRequest(c)

Next ==
    \/ \E w \in Workers : Run(w) \/ Crash(w)
    \/ Recover
    \/ \E c \in Clients : Request(c)

Spec == Init /\ [][Next]_vars

\* Workers keep claiming and every run ends, by the job timeout at the latest; the
\* recovery loop keeps scanning.  Clients are free to stop anywhere.
FairSpec ==
    /\ Spec
    /\ \A w \in Workers : WF_vars(Run(w))
    /\ WF_vars(Requeue)
    /\ WF_vars(FailOver)

-----------------------------------------------------------------------------

GroupStatus == {"absent", "active", "completed", "cancelled"}

TypeOK ==
    /\ rows \in [Jobs -> [status : JobStatus, lock : Workers \cup {NoLock}, stalls : Nat,
                          created : Nat, group : Groups \cup {NoGroup}]]
    /\ pages \in [Groups -> Nat]
    /\ groups \in [Groups -> GroupStatus]
    /\ run \in [Workers -> [pc : Unsettled \cup {"idle", "webhook", "fail"},
                            job : Jobs \cup {NoJob}, group : Groups \cup {NoGroup},
                            found : 0 .. MaxPages, done : 0 .. MaxPages]]
    /\ client \in [Clients ->
          [pc : {"idle", "enqueue", "group", "counts", "results", "job", "cancelRows",
                 "cancelGroup", "answered"},
           job : Jobs \cup {NoJob}, group : Groups \cup {NoGroup}, read : GroupStatus,
           settled : BOOLEAN, pages : Nat, owed : 0 .. MaxPages]]
    /\ known \in SUBSET Jobs
    /\ scraped \in [Groups -> 0 .. MaxPages]
    /\ sealed \in [Groups -> 0 .. MaxPages]
    /\ crashes \in 0 .. MaxCrashes
    /\ \A j \in Crawls : rows[j].status # "absent" => rows[j].group # NoGroup

\* What a poll of the group that saw everything at once would answer.
StatusOf(g) == Overall(groups[g], SettledIn(g))

\* The same of a job: of its group, or of the row while it has none.
Outcome(j) == IF rows[j].group = NoGroup THEN rows[j].status ELSE StatusOf(rows[j].group)

\* The status handler reads the group before the results, and a run marks the group
\* after inserting them: an answer based on a completed group holds at least the pages
\* of the run that had completed it, whatever ran between the handler's three reads.
CompletedGroupHoldsItsPages ==
    \A c \in Clients :
        At(c, "answered") /\ client[c].read = "completed" =>
           client[c].pages >= client[c].owed

\* A job row becomes completed only after its group was marked, so no poll finds a
\* settled job in a group still active because of it: not with reruns, cancellations
\* or batch runs that move the row to another group.
CompletedJobClosedItsGroup ==
    \A j \in Jobs :
        rows[j].status = "completed" => groups[rows[j].group] \in {"completed", "cancelled"}

\* Once a poll of a crawl would answer with a final status, no rerun, late statement or
\* cancellation makes it answer scraping again.  (A batch's group may go back: when the
\* batch is run again after the first statement of a DELETE, its row leaves the group.)
FinalStays ==
    [][\A j \in known \cap Crawls : Outcome(j) \in Final => Outcome(j)' \in Final]_vars

\* A job that was accepted ends: its group comes to answer a final status and keeps to
\* it, whatever fails, is run again or is cancelled on the way.  (A batch may change
\* groups on its way there.)
KnownJobsEnd == \A j \in Jobs : j \in known ~> [](Outcome(j) \in Final)

\* docs/usage.md:333 "When status becomes completed, data holds all scraped pages".
CompletedHoldsAllPages ==
    \A c \in Clients :
        At(c, "answered") => client[c].pages >= scraped[client[c].group]
=============================================================================
