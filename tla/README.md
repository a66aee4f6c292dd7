# fire_ctrl in TLA+

fire_ctrl is a self-hosted scraping service: an HTTP API (`src/src/api.rs`) that accepts
scrape, search, crawl, batch and extract requests, a job queue kept in PostgreSQL
(`src/src/database.rs`, `src/migrations/001_initial.sql`), workers that claim and run the jobs
(`src/src/worker.rs`), a scraper with a pool of headless browsers (`src/src/scraper.rs`) and a
client of a language model (`src/src/llm.rs`). This directory holds TLA+ modules translated
from that code, TLC configurations that check them on small instances, and TLAPS proofs, for instances of every
size, of every safety property those runs check.

Paths below are relative to the repository root, called `src/` here.

## 1. Inventory

| Component | State | Operations | Module |
|---|---|---|---|
| Job queue in PostgreSQL (`database.rs`) | rows of `nuq.queue_scrape`: status, priority, created_at, lock, locked_at, stalls, group_id | enqueue, claim_next_job, complete_job, fail_job, cancel_job, requeue_stalled_jobs, fail_over_stalled_jobs, update_job_group | NuqTables, JobQueue, JobLifecycle, CrawlGroups |
| Worker loop (`worker.rs` 225-372) | permit of a shared semaphore, the claimed job, the job's timeout | acquire, claim, execute under a timeout, settle, webhook | JobQueue |
| Stall recovery (`worker.rs` 155-205) | none but the clock | requeue, then fail over | JobQueue |
| Worker supervisor (`worker.rs` 60-125) | map of join handles | select_all, restore, respawn | WorkerSupervisor |
| Crawl and batch groups (`database.rs` 340-410, `worker.rs` 380-560) | rows of `nuq.group_crawl`, the page rows of a group | create, insert pages, mark, cancel | CrawlGroups |
| Crawl and batch requests (`api.rs` 395-560) | what a handler has read so far | POST, GET, DELETE | CrawlGroups |
| Results by page (`api.rs` 459-518, `database.rs` 369-395) | cursor in the link | limit, cursor, next link | Pagination |
| Scraping runs and requests (`worker.rs` 380-720, `api.rs` 215-290, 840-960) | JoinSet, semaphore of its own, results so far | run_scrape, run_batch_scrape, run_extract, search and scrape handlers | ScrapeRuns |
| robots.txt cache (`scraper.rs` 291-324) | bounded map behind a mutex | look up, fetch, evict, insert | ScrapeTasks |
| LLM client (`llm.rs`) | attempt counter, which request is made | attempts with a timeout each, extract_json | LlmClient |
| Browser pool (`scraper.rs` 40-190) | deque behind a mutex, semaphore, guards, spawned pushes | acquire, Drop, shutdown | BrowserPool |
| Site crawl (`scraper.rs` 660-770) | visited set, queue of addresses with depth, results | the breadth-first loop | SiteCrawl |
| Sitemap walk (`scraper.rs` 326-410) | visited set, collected addresses, the stack of the recursion | recursive fetch | SitemapWalk |
| Resource gate (`api.rs` 45-73, 169-213) | packed atomic snapshot | monitor writes, gate reads | ResourceGate |
| Webhook delivery (`worker.rs` 747-789) | attempt counter | three attempts with a back-off | the delivery and its cut-off in JobQueue |
| Authentication, health, configuration, command line, request and response types, text extraction | none that changes | straight-line code | not modelled |

**How they interact.** The API and the workers share only the database. A handler inserts a job
row; a worker polls for the row of least priority and creation time, claims it with one
`UPDATE ... FOR UPDATE SKIP LOCKED` statement, runs `execute` inside `tokio::time::timeout`,
and settles the row with `complete_job` (inside `execute`) or `fail_job` (outside it). Neither
statement looks at the row's status or lock. A recovery loop requeues rows whose `locked_at`
is older than the job timeout plus 30 seconds, and fails those with too many stalls. Crawls and
batches also write a group row and one completed row per page; status requests read group,
counts and results in separate statements. A run over several addresses spawns a task for each,
held back by a semaphore of the run; the tasks share the scraper's robots cache and, with all
workers of the process, one browser pool.

**What is hard.** Statements in flight when their caller has given up (timeout, crash, lost
reply); time as the only fence between a slow worker and the recovery loop; requests that read
what a run writes, statement by statement; tasks that end in any order, panic, or are dropped
with their JoinSet; a cache that is filled and emptied between a look and an insertion; `Drop`
code that cannot await a mutex; futures dropped at any await; a monitor that rebuilds its map
from an unordered drain.

**What makes each part correct.**
- *Queue*: one worker per job at a time; a late statement never hits a later claim; a settled
  row stays settled; no job is forgotten, each stall is due to a fault of its own or to a claim
  that landed late; claims follow priority and age; permits are conserved; every queued job is eventually settled. In short: it
  keeps the life cycle of JobLifecycle.
- *Supervisor*: no handle is lost; the pool is whole again once panics stop.
- *Groups and requests*: a completed answer has the pages that were completed; a job's end is
  visible in its group; a final status does not go back; every known job ends.
- *Pages of results*: in order, none skipped or repeated, all of them unless a row hides the link.
- *Scraping runs*: every scraped page is in the result once; permits survive panics; a forbidden
  page stays unfetched; the run ends without the job timeout's help; an object in the model's
  answer is found in any wrapping.
- *Browser pool*: each browser is in exactly one place; permits are conserved; nobody waits for
  ever; whoever gets a permit finds a browser.
- *Site crawl*: everything in reach and nothing else, at its distance, once, nearest first.
- *Sitemap walk*: within its limit and its depth, each sitemap once, none skipped above the deepest level.
- *Resource gate*: the two halves of a word stay apart; a request is refused for a reason only.

`PROJECT.json` lists every component with its status, and under `hazards` each place where the
code is exposed, with the property that watches it.

## 2. Modules

**NuqTables** — each SQL statement that changes a job row, as an operator from the table to the
table: `EnqueueRow`, `ClaimRow`, `CompleteRow`, `FailRow`, `CancelRows`, `RequeueRows`,
`FailOverRows`, and `NextQueued`, the row the claim selects. A statement is atomic, as
PostgreSQL makes it. JobQueue, JobLifecycle and CrawlGroups extend it.

**JobQueue** — jobs, workers, the permits and the recovery loop, with time. Each worker is in a
stage (`acquire`, `claim`, `claimed`, `run`, `complete`, `webhook`, `fail`); `timer` counts its
ticks. Every statement sent may be lost before or after it takes effect, or arrive after its
caller left, be it by an error, a timeout or a crash. `orphans` are the `complete_job` and `fail_job`
statements in that state: they name their row, and arrive within `DbLatency` or never. `late` counts
the claims, requeues and fail-overs in that state: they choose their rows as they land, whenever that is,
and a claim that lands so makes a job active for nobody. `takenLate` is a history of those. `lockAge` is the age of `locked_at`. `Tick` makes everyone older and is
held back while a timeout is due or a statement has been on its way for `DbLatency`. `claim`
in a worker's record identifies the claim by the row's stall count and is there for the
properties only. Rows are inserted in the order of `created_at`, and a statement holds no lock while it waits
to commit: `NoOvertaking` does not speak of two inserts that commit the other way round, nor of a row that
`SKIP LOCKED` passes over for the sake of a statement that then aborts. One process holds all workers; `Crash` loses all of it but the database.

**JobLifecycle** — the abstract promise of the queue: the status of each job and who works on it,
without locks, time, permits or statements in flight. A job is taken, put back or given up only
while nobody else works on it; one with an outcome never waits again, though its outcome may be
rewritten by another one (finding 1 is such a step). JobQueue instantiates it with `status` from
the rows and `runners` from the workers' records; `KeepsLifecycle` is its specification.

**CrawlGroups** — requests and runs of crawls and batches, one action per SQL statement. The
queue's own safety (one worker per job, a requeue only once the worker is gone) is taken from
JobQueue, where it is proved; claim order and time are left out. A group is known to clients by
the id POST /v2/crawl answers with, or from the ongoing list; for the id of a job without a group
the handlers fall back on `get_job`, which is refused (see section 4). `scraped`, `sealed` and the
fields `owed` and `settled` of a request are history.

**Pagination** — one client reading a group page by page while a run inserts. Rows are numbered by
(created_at, id); the job's own row is the first and is no page. A limit below 0 is refused by the
database (`LimitRefused`). `left`, `hidden` and `upto` in the client's record are history.

**ScrapeTasks**, **LlmClient**, **ScrapeRuns** — the first is the JoinSet of tasks with its
semaphore and, in each task, `Scraper::scrape` with the robots check: the address that does not parse,
the setting that switches the check off (`respects`, drawn in the initial state), look-up, fetch, insertion
with eviction, each under the mutex of its own and with the fetch between them. A robots file is
the set of addresses it forbids. The cache is keyed by host, a file belongs to an origin. The
second is `LlmClient::extract` and `extract_json`, over completions made of tokens (braces,
brackets, fences, anything else; a text taken from a fence marked JSON may be a scalar, which parses, or not). ScrapeRuns composes them into the runs and requests that
collect pages: `batch`, `extract`, `search`, `scrape`. What JobQueue calls the stage `run` and
CrawlGroups `fetch` is one of these, or SiteCrawl.

**WorkerSupervisor** — one round of the monitor loop: drain the map in some order, a finished
handle is taken out by `select_all`, which returns the others after a `swap_remove`, and each is
put back under the id at its place.

**BrowserPool** — tasks, the deque, its mutex and the semaphore, each await a separate step.
`Drop` returns the browser itself if `try_lock` succeeds and spawns a push otherwise.
`Abandon` is a future dropped while it waits. Tasks run on several threads, so critical
sections without an await are still two steps: `try_lock` can meet them.

**SiteCrawl** — `Scraper::crawl`. The site's links, its filters, its sitemap and the two limits are
drawn in the initial state; whether a scrape succeeds is chosen when it is made.

**SitemapWalk** — `fetch_sitemap_urls`: the recursion as a stack of calls, each sitemap's body chosen
when it is fetched. Its `WithinLimit` is what SiteCrawl assumes of its `sitemap`.

**ResourceGate** — the packed word as a number below 2^64, measurements in millionths so that what
the cast cuts off is there. It has no run: nothing in it is a matter of interleaving (one store, one
load), and its arithmetic is proved for all values.

**InOrder** — the numbers of a finite set in increasing order, defined by counting instead of by
recursion, so that proofs can speak of what a sort or a filter returns. Pagination (`ORDER BY`) and
SiteCrawl (the addresses not seen before) extend it.

**JobQueueProofs**, **CrawlGroupsProofs**, **ScrapeRunsProofs**, **BrowserPoolProofs**,
**WorkerSupervisorProofs**, **SitemapWalkProofs**, **SiteCrawlProofs**, **ApiProofs** (Pagination and
ResourceGate) — the theorems of section 5.
**MC\*** modules only define constants for TLC.

A data abstraction common to all: addresses, jobs, groups and browsers are model values; what a
page says is left out except for its links. Operators marked "Mutant" stand next to the
definition they alter; no specification uses them. They record which plausible bug each
property would catch.

## 3. Runs

| Run | Instance | Shows |
|---|---|---|
| queue_safety | 2 jobs, 2 workers, 2 permits, timeout 1, latency 1, margin 2, 2 stalls, 2 faults, 1 late statement at a time | `Exclusive`, `WritesHitOwnClaim`, `LocksFresh`, `PermitsConserved`, `StallsPaid`, `NoOvertaking`; `KeepsLifecycle`: JobQueue implements JobLifecycle, in which a settled job stays settled |
| queue_liveness | 2 jobs of different priority, 1 worker, 1 stall, 2 faults, 1 late statement at a time | `EveryJobSettles`: a queued job is settled although executions hang and faults lose claims and replies |
| queue_notified | 1 job, 1 worker, no fault | **violated**: `NotifiedMeansCompleted` (finding 1) |
| supervisor | 4 workers, 3 panics | `NoHandleLost`, `PoolRefills` for every drain order |
| groups | 1 crawl or 1 batch, 2 groups, 2 requests at a time, 1 page, 1 crash, 1 stall | `CompletedGroupHoldsItsPages`, `CompletedJobClosedItsGroup`, `FinalStays`, `KnownJobsEnd` |
| groups_partial | 1 crawl of up to 2 pages, no crash | **violated**: `CompletedHoldsAllPages` (finding 2) |
| pagination | limits -1 to 4 or none, default 2, cap 3, up to 7 rows | `PagesInOrder`, `NoLinkMeansLast` |
| scrape_runs | 3 addresses, 2 at a time; two on one host under different schemes, one on another host; a cache of one host; up to 2 attempts; every origin forbids all or nothing | `PermitsConserved`, `RobotsRespected`, `EveryPageCollected`, `ObjectRecovered`, `RunEnds` |
| browser_pool | 3 tasks, 2 browsers | `EachBrowserOnce`, `PermitsConserved`, `PermitsBacked`, `WaitersServed`, `PushesLand` |
| browser_permit | the same | **violated**: `PermitMeansBrowser` (finding 3) |
| site_crawl | every site of 3 pages, depth to 2, limit to 3, sitemaps of up to 2 entries | `FindsAllInReach`, `DepthIsDistance` (each page once, at its distance), `LimitKeepsNearest` |
| sitemap_walk | 4 sitemaps of up to 2 addresses and 2 children each, in any order and circle, 3 levels, limit to 3 | `WithinLimit`, `ContributesOnce`, `NothingMissed` |

Every passing run of a module with a `TypeOK` checks that too.

### Bounds, and why they are enough

- *JobQueue*: two workers and two jobs are what a conflict needs; two faults let one fault
  follow another (a lost claim reply, then a crash while the rerun settles). The clock's values
  are the smallest at which `2 * DbLatency = StallMargin`, the tightest instance of the
  assumption below; with a margin one shorter `WritesHitOwnClaim` fails. `MaxFaults` bounds crashes,
  panics and lost replies; timeouts, hanging pages, failing executions and late webhooks are
  not counted. `MaxLate` bounds the claims and recovery statements in flight with nobody waiting, at one:
  only a fault leaves one behind, and it may land at any later moment, so that it meets the jobs as a
  second fault has left them. In queue_safety no job has a webhook (a delivery changes `notified` alone; the other
  runs have them) and both jobs have the same priority, so that jobs and workers may be exchanged
  (`SYMMETRY`); no liveness property is checked there. Queue_liveness has one
  worker, which has to settle both jobs after whatever a fault made of them. The proofs cover every other size.
- *CrawlGroups*: one job at a time (`MaxJobs`) because jobs share no state but the queue; two
  groups so that the batch's rerun gets a second; two requests so that a DELETE runs inside a
  GET. One page suffices where pages are compared with "at least", two where a page can be
  missing. Group identifiers are drawn, never reused; a request that finds none left does not
  happen. The proofs have no such bounds but `MaxPages`.
- *Pagination*: seven rows are two full pages of the largest limit and one over; the limits lie
  below, at and above the default and the cap, and include 0 and a negative one.
- *ScrapeRuns*: three tasks for two permits make one wait; two origins of one host let one read
  the other's file from the cache, and a third host evicts it, from a cache of one entry (1,000
  in the code), in every order. Two attempts are the fewest that have a pause between them. The
  completions hold an object bare, in each kind of fence and in prose with stray braces; arrays;
  text without a value; and objects that `extract_json` loses (section 4), so that the
  conditions of `ObjectRecovered` are met by some completions and missed by others.
- *BrowserPool*: a contended Drop needs a holder of the mutex, a dropper and a third task that
  takes the permit; two browsers leave one in use while the other is on its way.
- *SiteCrawl*: three pages give every shape of link graph a breadth-first search can confuse: a
  long and a short way to one page, a cycle, a page only the sitemap knows. Self-links are left out:
  a page is in `visited` when it is scraped, so they add nothing.
- *SitemapWalk*: with four sitemaps and three levels a sitemap can be read first at the deepest level and
  met again higher up, and a circle can be longer than the depth allows; two addresses per sitemap make
  the limit fall inside a body.
- *WorkerSupervisor*: four handles are enough for a `swap_remove` to disturb the order of more
  than one.

Deadlock is checked in the queue's runs, in `groups` and in `pagination`. It is switched off where
the system may stop: all panics used up, a crawl, walk or run that has returned, a pool that is shut
down, all requests of `groups_partial` answered.

### Fairness, and why the code justifies it

- *JobQueue*: the runtime polls tasks that are ready (permit, claim, start), a due timeout fires,
  the database answers, the recovery loop runs for ever (its errors are logged, `worker.rs`
  165-205), time passes. Nothing is assumed of the page, the model or the webhook's receiver:
  `run`, `complete` and `webhook` may last until the timeout. Faults are bounded, which is what
  "as long as faults stop" means. A late claim or recovery statement need never land. The jobs are finitely
  many, so `EveryJobSettles` does not speak of a job kept waiting by more urgent ones without end, which
  the claim's order allows.
- *CrawlGroups*: a run takes its next step, as the job timeout of JobQueue ends it otherwise; the
  recovery loop runs. Requests may stop anywhere: nothing is assumed of clients.
- *ScrapeRuns*: weak fairness on the run as a whole (`Progress`): as long as something can go on,
  something does. Requests for pages and robots files end by the HTTP client's timeout, an
  attempt at the provider by `timeout_seconds`, a statement returns. Which task goes on is not
  assumed, nor that anything panics or is dropped.
- *BrowserPool*: tokio's semaphore and mutex are queues, so a waiter that is granted again and
  again is not passed for ever: strong fairness on `TakePermit`, `Lock`, `SpawnedLock` and
  `ShutdownLock`. Critical sections have no await: weak fairness. A use ends: a worker's by the timeout
  around its job, a synchronous handler's by the timeouts inside `fetch_page` (`scraper.rs` 203-216). That a task enters, is abandoned or a shutdown begins is never assumed.
- *WorkerSupervisor*: the monitor is polled; nothing makes a worker die.

## 4. Findings

1. **A receiver told "completed" may read "failed"** (`worker.rs` 272, 356-369; `database.rs`
   427-432). The webhook runs inside the job timeout, after `complete_job`; when its receiver is
   slow the timeout fires and `fail_job` overwrites the completed row.
2. **A crawl that failed is reported completed** (`api.rs` 504). The run leaves its group active; with
   no pending job the handler answers `completed`, without the pages that were scraped
   (`docs/usage.md` 333 promises all of them).
3. **A permit does not mean a browser** (`scraper.rs` 80). On a contended Drop the permit is
   free before the browser is back, and the next task gets "Browser pool invariant violated"
   (`scraper.rs` 55 says the permit is released after the push). `PermitsBacked` says what is true instead:
   there is a browser for every permit handed out, in the deque or on its way back.

Seen while modelling, without a run of their own:

*Queue and groups*
- `get_job` is refused by PostgreSQL (`database.rs` 240-255): a backslash at a line's end joins
  `nuq.queue_scrape` to `WHERE`, `$1` to `ORDER` and `DESC` to `LIMIT`. `GET /v2/extract/{id}` and
  the status and cancellation of a batch by its job id therefore always fail, against
  `tests/postgres_queue.rs` 157 and `scripts/api-tests/batch_cancel.sh` 9-10.
- `set_group_status` is unguarded: a crawl cancelled while it runs is marked completed at its end
  (`worker.rs` 453).
- A crawl that failed leaves its group among the ongoing ones (`database.rs` 408). So does a POST
  whose enqueue fails after the group was created (`api.rs` 415); a poll of that group answers
  `scraping` for ever.
- A batch's rerun after a crash makes a second group and moves the job to it (`worker.rs`
  484-486), so a batch's status may go back to `scraping` once. `FinalStays` is therefore stated of crawls,
  and `KnownJobsEnd` of both.
- Between requeue and fail-over a worker can claim a job that has used up its stalls. No
  document bounds the number of runs; the run settles the job.
- A webhook's receiver may see one event several times: each attempt whose response is lost is
  repeated, and a rerun notifies again.

*Pages of results*
- The `next` link is left out when a row of the page is not in its data (`api.rs` 486), and the
  crawl's own row never is: with 25 rows or more the first page has 24 entries and no link, although
  `docs/usage.md` 333-334 says it is left out when `data` holds everything. `NoLinkMeansLast` says
  exactly when this happens, and `PagesInOrder` what holds otherwise.
- The link carries a `+` from the timestamp. Followed as it is, the request is refused with 400.

*Scraping and extraction*
- The robots cache is keyed by host, so `http` and `https` share whichever file came first; and a
  file whose body breaks off is remembered as empty (`scraper.rs` 307). `RobotsRespected` is stated
  with both: forbidden means forbidden by every origin of the host, and `cut` records the second.
- Search results come in the order in which their scrapes end, not in the engine's
  (`api.rs` 930-939).
- `extract_json` takes the first `{` to the last `}` before it looks for brackets, so an array of
  objects amid prose loses its brackets (`llm.rs` 289-290 says object or array), and it panics on a
  `}` that comes before every `{`. `ObjectRecovered` is about single objects.
- A completion that starts with the object and goes on in prose is taken whole and does not parse
  (`llm.rs` 298-300), against "surrounding prose" in `llm.rs` 289-290; so is a fence that starts with
  the object and holds more. What a fence marked as JSON holds is taken even if the object is elsewhere.
  `AmidOneObject` names the completions this spares: something before the object, and neither
  such a fence.
- `limit` is only capped from above: `?limit=-1` reaches PostgreSQL, which refuses it, and the client
  gets an internal error (`api.rs` 471).
- With `max_retries` 0 extract fails without an attempt; an unusable completion is not retried.
  `run_extract` does not cut its input to `max_input_chars` first (`worker.rs` 664-675).

*Crawls, browsers and workers*
- The sitemap's pages are scraped even with `max_depth` 0 (`scraper.rs` 691; comment at 667). When it
  lists the root, the root counts as depth 1 and the crawl reaches one level less;
  `FindsAllInReach` and `DepthIsDistance` exclude that case.
- A sitemap first read at the deepest level enters `visited` there; when it is met again higher up it is
  not read again, so what it lists is lost although it lies within the depth (`scraper.rs` 361-370).
  `NothingMissed` says exactly which sitemaps are safe from this.
- `shutdown` closes the browsers in the deque only; those in use return to a deque that nobody
  drains again (`scraper.rs` 178). The process ends right after.
- After a panic the monitor may hold a living worker's handle under another id, and respawn a
  worker under an id that is in use (`worker.rs` 72-78 says ids do not collide). Only log lines
  show it.

## 5. Proofs

| Module | Theorem | States |
|---|---|---|
| JobQueueProofs | `TypeCorrect` | `Spec => []TypeOK` |
| | `SettledForGood` | `Spec => TerminalStays` |
| | `PermitsAlways` | `Spec => []PermitsConserved` |
| | `ExclusiveClaims` | `Spec => []Exclusive`, given `MarginCovers` |
| | `WritesAreOwn` | `Spec => []WritesHitOwnClaim`, given `MarginCovers` |
| | `LocksStayFresh` | `Spec => []LocksFresh`, given `MarginCovers` |
| | `StallsArePaid` | `Spec => []StallsPaid`, given `MarginCovers` |
| | `NobodyOvertakes` | `Spec => []NoOvertaking`, given `MarginCovers` |
| | `ImplementsLifecycle` | `Spec => KeepsLifecycle`, given `MarginCovers` |
| CrawlGroupsProofs | `GroupsTypeCorrect` | `Spec => []TypeOK` |
| | `CompletedJobsCloseGroups` | `Spec => []CompletedJobClosedItsGroup` |
| | `AnswersHoldTheirPages` | `Spec => []CompletedGroupHoldsItsPages` |
| | `CrawlsStayFinal` | `Spec => FinalStays` |
| ScrapeRunsProofs | `RunsTypeCorrect` | `Spec => []TypeOK` |
| | `TaskPermitsConserved` | `Spec => []PermitsConserved` |
| | `RobotsAlwaysRespected` | `Spec => []RobotsRespected` |
| | `PagesCollected` | `Spec => []EveryPageCollected` |
| | `ObjectAlwaysRecovered` | `Spec => []ObjectRecovered` |
| | `RunsTakeBoundedSteps` | `Spec => [](StepsLeft \in Nat) /\ [][StepsLeft' < StepsLeft]_vars`: no run goes on for ever |
| | `RunsGoOn` | `Spec => []LoopGoesOn`: the `join_next` loop is never stuck on permits |
| BrowserPoolProofs | `PoolTypeCorrect` | `Spec => []TypeOK` |
| | `PoolPermitsConserved` | `Spec => []PermitsConserved` |
| | `PoolPermitsBacked` | `Spec => []PermitsBacked` |
| | `PoolKeepsBrowsers` | `Spec => []EachBrowserOnce` |
| WorkerSupervisorProofs | `SupervisorTypeCorrect` | `Spec => []TypeOK` |
| | `HandlesKept` | `Spec => []NoHandleLost` |
| SitemapWalkProofs | `WalkTypeCorrect` | `Spec => []TypeOK` |
| | `WalkWithinLimit` | `Spec => []WithinLimit` |
| | `WalkReadsOnce` | `Spec => []ContributesOnce` |
| | `WalkMissesNothing` | `Spec => []NothingMissed` |
| SiteCrawlProofs | `CrawlTypes` | `Spec => []TypeOK` |
| | `CrawlFindsAll` | `Spec => []FindsAllInReach` |
| | `CrawlDepths` | `Spec => []DepthIsDistance` |
| | `CrawlNearestFirst` | `Spec => []LimitKeepsNearest` |
| ApiProofs | `PagingTypeCorrect` | `Spec => []TypeOK` |
| | `PagingInOrder` | `Spec => []PagesInOrder` |
| | `PagingComplete` | `Spec => []NoLinkMeansLast` |
| | `HalvesKeptApart` | `Gate!Spec => []Gate!HalvesApart` |
| | `GateFollowsMeasure` | `Gate!Spec => [](Gate!RefusesForAReason /\ Gate!AdmitsOnlyBelow)` |

**Assumptions.** The constants' named assumptions in each module: finite sets of jobs, workers,
browsers, tasks and addresses, natural numbers, null values outside their sets. `MarginCovers` is
`2 * DbLatency <= StallMargin`: the code sets the
margin to 30 s and nothing bounds the latency (`pool.get()` and the queries have no timeout), so this
is the condition an operator has to meet: a claim's reply and a fail_job statement, one on either side of
`execute`, take at most 15 s each. JobQueue also has a due timeout fire before the clock
moves on. ResourceGate's limits are taken to be below 2^32 thousandths of the machine.

### The queue

`Exclusive` is not inductive: that two workers do not share a job follows from when
the recovery loop may take one away, which is a matter of lock ages. The inductive invariant is

    Safe == TypeOK /\ Exclusive /\ WritesHitOwnClaim /\ LocksFresh

`LocksFresh` says how old a lock can be in each stage of its worker: at most `DbLatency` when the
reply arrives, `DbLatency + JobTimeout` when `execute` ends, `2 * DbLatency + JobTimeout` when
`fail_job` has taken effect; a statement left in flight is bounded in the same way. With
`MarginCovers` none of these ages exceeds `JobTimeout + StallMargin`, so `Requeue` touches no job
somebody still writes to; hence a claim finds only jobs nobody holds (`Exclusive`) and the row's claim is
still the writer's (`WritesHitOwnClaim`, through the stall count). `StallsPaid`
is inductive on top of `Safe`: a job's stalls, plus one if it is active and unattended, never exceed the faults plus
the claims of it that landed late. A job becomes unattended by a fault or by such a claim, each of which raises
the right-hand side; a requeue turns the one into the other, as `Safe` says that a requeued job was unattended.
The faults alone would be no bound: a claim sent before a crash may land after the recovery
loop has charged that crash, and leave the job unattended again. `NoOvertaking` adds `Numbered`: creation
times are distinct and none is larger than the count of rows, so a new row comes last.

`ImplementsLifecycle` maps a job's status to that of its row and its runners to the workers whose
record names it. `Safe` makes each step a step of JobLifecycle or a stutter: a claim takes a job
without runners, because a queued row is free; a requeue or fail-over, because a stale one is; an outcome comes
from the only runner (`Exclusive`), or late from one who left, when `WritesHitOwnClaim` says the
row is still his or settled. A claim, requeue or fail-over that lands late is such a step too: a lifecycle
does not ask who takes a job. `Tick`, permits and statements that are lost stutter.

### Groups

`Sound` collects what the types do not say: the stage of a run or request decides which group it
has, each run's job is its own, a crawl's row has its group from the start. On top of it:
- `ClosedFirst`: a run about to complete its job has closed its group. No statement opens a closed
  group (`GroupsStayClosed`), so `CompletedJobClosedItsGroup` follows, whatever is cancelled.
- `PagesHeld`: a group has at least the pages of the run that marked it, a run has inserted what it counts,
  and a request between its reads is owed no more than the group has. Pages are never removed, so
  the order "mark after inserting, read the group before the results" is all that is needed.
- `GroupsOwned`: a group's id goes into one row only, so nothing but its own job can add
  pending work to a group that is final.

### Runs that scrape

`TasksSound` holds of the tasks alone: permits and scraping tasks make up `Parallel`; every file in
the cache or in a task's hand was served by an origin of its host, or its host is in `cut`; so a task
that goes on to fetch has read a file that does not forbid the page. `Collecting` relates tasks
and results: who has joined is over, and the pages are those of the joined tasks that succeeded,
less the one being inserted, each once. The cache's bound follows as a look at a full cache removes
one entry before it inserts one.

`ObjectRecovered` is inductive once `ExtractJson` is known: for any sequence of the tokens it looks for,
if the text is an object, has one amid prose or one in a fence, the result is that object
(`AmidExtracted`, `FencedExtracted`). The first and the last place of a token exist because a set
of numbers has a least and two places have an order; no completion is enumerated.

`RunEnds` needs fairness, but what it rests on is proved. `StepsLeft` adds up the steps of
each task, three for each attempt at the LLM and two for each page to join; every step of a run makes it
smaller (`StepTaken`), so a run takes finitely many steps whatever fails. And while a
task is not joined, some task is over, at work or has a permit to take (`RunsGoOn`): were all of them waiting,
`PermitsConserved` would make `Parallel` zero. What TLC adds is that the step that is possible is taken.

### The site crawl

No part of the invariant speaks of distances. `Safe` relates the depths of what was met:
- `Followed`: the links of a page scraped above `max_depth` have been met, one level deeper at most;
  `Caused`: each address was met as the root, from the sitemap or by a link of a page one level above.
- `Kept`: what was met waits, was scraped, failed or was filtered out; nothing falls through.
- `Levels`: the queue is sorted, spans two levels and lies below what was scraped. It is what makes
  `Followed` inductive: a page first met by one link is never nearer by another one found later.
- `Once`, `Seeded`, `Phases`, `Types`, `Site`.

Once the queue is empty, `Followed` and `Caused` bound each depth from above and from below by the
distance. Distances are the recursive function `Within` of SiteCrawl (the pages within k links):
that it exists at all (`WithinDef`) and that depths agree with it are inductions over k, made as
an argument on the least counterexample (`Least`, from `WFMin` of WellFoundedInduction), as the library's
induction theorems cannot be used. `LimitKeepsNearest` follows from `Levels`.

### Pages of results

A page of rows is the first n of the rows after the cursor. As only the first row can be missing
from the numbers 1 to `Len(table)`, `InOrder` of what is left is an interval, and the pages together
are the interval up to `upto` (`Client`): a cursor is the last row read, so the next page starts where
it ended, and rows inserted meanwhile come behind it. `NoLinkMeansLast` is part of the invariant: a
link is missing only when fewer rows came than asked for, or one of them was no data.

### The others

- *BrowserPool*: a browser is in the deque once, in one task's hands, on its way in one push, or
  closed; `Inside` says that who holds the mutex is in a critical section, so a push or a pop meets
  a deque nobody else changes. Permits are counted over the tasks that have passed the semaphore. `PermitsBacked`
  needs both counts: while nothing is closed, the browsers in the deque, in guards and on their way
  are all there are, and guards and tasks still to be served have a permit each.
- *WorkerSupervisor*: whatever bijection a drain and a `swap_remove` make between places and ids,
  the handles put back are those taken out, less the finished one and with the new one.
- *SitemapWalk*: `Nested` (a call is as deep as the stack below it, so the stack is bounded), `Counted` (the limit
  is looked at before each address), and `AllDue`: unless the walk is full, whatever was listed
  above the deepest level has been tried or has its turn ahead on the stack.
- *ResourceGate*: a half is below 2^32, so division and remainder give back what was packed; for
  any measurement, negative and out of range included.

**Only model-checked**: the liveness properties `EveryJobSettles`, `PoolRefills`, `KnownJobsEnd`,
`WaitersServed`, `PushesLand` and `RunEnds`, and the absence of deadlock: fairness and `ENABLED` are
outside the prover's reach (for `RunEnds`, `RunsTakeBoundedSteps` and `RunsGoOn` prove the rest). Every invariant and every action property of the passing runs is proved.

## 6. Not modelled, and why

- The attempts of one `fire_webhook` and their back-off: a loop that shares no state with anything.
- `map_urls` and the map handler: one fetch, a sitemap walk and a filter.
- Several worker processes. `main.rs` has a `worker` subcommand, so more than one may share the
  database; the queue's guarantees rest on time and on the rows alone, but a `Crash` here
  stops all workers at once and the permits are one semaphore.
- How an extraction's input shrinks between attempts, and the counts, errors and expiry times of a
  status answer: nothing depends on them.
- HTML and Markdown conversion, URL parsing, browser launching, HTTP: I/O and text processing.
  Two spellings of one address (`https://x` and `https://x/`) are two pages to the code, and
  to SiteCrawl and ScrapeTasks.
- Authentication, health, configuration and the command line: no state that changes.
- Redis, the backlog and retention tables: created or pinged, never used by the code.

## 7. Plan

Done: every component of section 1 that keeps state, with proofs of the safety properties named
in section 5. Left, by weight:
1. Several processes over one database: permits per process, crashes one by one, two recovery
   loops (requeue and fail-over of different processes interleaved).
2. JobQueue and CrawlGroups in one composition, so that the runs of CrawlGroups break off by the
   queue's own timeouts; an abstract contract of a polled job (scraping until final, final for
   good) implemented by it.
3. Proofs beyond the invariants: that a polled group implements an abstract contract (2), and that
   SiteCrawl's walk of the sitemap is SitemapWalk's.
4. The webhook's attempts, with started, page and completed events in one order.
