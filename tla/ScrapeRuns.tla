----------------------------- MODULE ScrapeRuns -----------------------------
(***************************************************************************)
(* The runs and requests that scrape pages and collect the results:        *)
(*                                                                         *)
(*   batch     run_batch_scrape: each page goes into a row of its own      *)
(*   extract   run_extract: the pages make up one prompt for the LLM       *)
(*   search    search_handler: the pages are the answer                    *)
(*   scrape    run_scrape and scrape_handler: one page, and what the LLM   *)
(*             extracts from it if it is asked to.  The page's scrape is   *)
(*             called directly, here a task nobody else competes with.     *)
(*                                                                         *)
(* This is what JobQueue's stage "run" and CrawlGroups' "fetch" stand for. *)
(* Results come in the order in which the tasks end.                       *)
(***************************************************************************)
EXTENDS ScrapeTasks, LlmClient

CONSTANTS
    FirstUrl,    \* the first address of the list
    NoUrl

ASSUME UrlsAssumption == FirstUrl \in Urls /\ NoUrl \notin Urls

VARIABLES
    kind,
    asks,       \* a scrape that wants an extraction; an extract does not leave the host
    run,        \* the stage of the run or request
    joined,     \* the tasks join_next has returned
    inserting,  \* the page of the enqueue_completed call in progress
    pages       \* the pages collected, in order

runVars == <<kind, asks, run, joined, inserting, pages>>

vars == <<taskVars, llm, runVars>>

(***************************************************************************)
(* The stages of a run:                                                    *)
(*   collect    in the join_next loop                                      *)
(*   insert     enqueue_completed of a page                                *)
(*   llm        waiting for LlmClient::extract                             *)
(*   settle     the statements after the last page                         *)
(*   done, failed, panic, dropped   over; a dropped future is one that the *)
(*              job timeout or a disconnecting client has cut off          *)
(***************************************************************************)
Finished == {"done", "failed", "panic", "dropped"}

\* "!allow_external_links": addresses of other hosts than the first one's are skipped.
Listed ==
    CASE kind = "scrape" -> {FirstUrl}
      [] kind = "extract" /\ asks -> PagesOf(Host(FirstUrl))
      [] OTHER -> Urls

Init ==
    /\ kind \in {"batch", "extract", "search", "scrape"}
    /\ asks \in IF kind \in {"extract", "scrape"} THEN BOOLEAN ELSE {FALSE}
    /\ run = "collect"
    /\ joined = {}
    /\ inserting = NoUrl
    /\ pages = <<>>
    /\ SpawnAll(Listed)
    /\ LlmIdle

Become(stage) == run' = stage

\* The function returns, panics or is dropped; only the cache outlives its variables.
Leave(outcome) ==
    /\ Become(outcome)
    /\ DropTasks
    /\ llm' = NoCall
    /\ joined' = {}
    /\ inserting' = NoUrl
    /\ pages' = <<>>
    /\ UNCHANGED <<kind, asks>>

Join(u) ==
    /\ run = "collect"
    /\ u \in Listed \ joined
    /\ task[u].pc \in Over
    /\ joined' = joined \cup {u}
    /\ UNCHANGED <<taskVars, llm, kind, asks>>

\* Mutant: the first page that fails ends the loop.
JoinFailedStops(u) ==
    /\ task[u].pc \in {"err", "panic"}
    /\ Join(u)
    /\ run' = IF kind = "extract" THEN "llm" ELSE run
    /\ UNCHANGED <<inserting, pages>>

\* A page that failed, or a task that panicked, is skipped.
JoinFailed(u) ==
    /\ task[u].pc \in {"err", "panic"}
    /\ Join(u)
    /\ UNCHANGED <<run, inserting, pages>>

JoinPage(u) ==
    /\ task[u].pc = "ok"
    /\ Join(u)
    /\ IF kind = "batch"
       THEN /\ Become("insert")
            /\ inserting' = u
            /\ UNCHANGED pages
       ELSE /\ pages' = Append(pages, u)
            /\ UNCHANGED <<run, inserting>>

Inserted ==
    /\ run = "insert"
    /\ pages' = Append(pages, inserting)
    /\ inserting' = NoUrl
    /\ Become("collect")
    /\ UNCHANGED <<taskVars, llm, kind, asks, joined>>

InsertFails ==
    /\ run = "insert"
    /\ Leave("failed")

\* join_next has returned None
Collected ==
    /\ run = "collect"
    /\ joined = Listed
    /\ kind # "scrape"
    /\ Become(IF kind = "extract" THEN "llm" ELSE "settle")
    /\ UNCHANGED <<taskVars, llm, kind, asks, joined, inserting, pages>>

\* The page of a scrape; its error is the scrape's error.
PageReturned ==
    /\ run = "collect"
    /\ joined = Listed
    /\ kind = "scrape"
    /\ CASE At(FirstUrl, "err")   -> Leave("failed")
         [] At(FirstUrl, "panic") -> Leave("panic")
         [] At(FirstUrl, "ok")    ->
               /\ Become(IF asks THEN "llm" ELSE "settle")
               /\ UNCHANGED <<taskVars, llm, kind, asks, joined, inserting, pages>>

Extract ==
    /\ run = "llm"
    /\ LlmStep
    /\ UNCHANGED <<taskVars, runVars>>

\* An error is the extract job's own, but only a remark in a scrape's result.
Extracted ==
    /\ run = "llm"
    /\ llm.pc \in Ended
    /\ CASE llm.pc = "panic" -> Leave("panic")
         [] llm.pc = "error" /\ kind = "extract" -> Leave("failed")
         [] OTHER ->
               /\ Become("settle")
               /\ UNCHANGED <<taskVars, llm, kind, asks, joined, inserting, pages>>

\* set_group_status and complete_job, or the handler's answer
Settled ==
    /\ run = "settle"
    /\ \E outcome \in {"done"} \cup IF kind = "search" THEN {} ELSE {"failed"} :
          Leave(outcome)

Drop ==
    /\ run \notin Finished
    /\ Leave("dropped")

Task(u) ==
    /\ run \notin Finished
    /\ TaskStep(u)
    /\ UNCHANGED <<llm, runVars>>

Collector ==
    \/ \E u \in Urls : JoinFailed(u) \/ JoinPage(u)
    \/ Inserted \/ InsertFails
    \/ Collected \/ PageReturned
    \/ Extract \/ Extracted
    \/ Settled

Progress == Collector \/ \E u \in Urls : Task(u)

Next == Progress \/ Drop

Spec == Init /\ [][Next]_vars

\* Something that can go on does: requests end by the client's timeout, the provider is
\* given up after timeout_seconds, and statements return.
FairSpec == Spec /\ WF_vars(Progress)

-----------------------------------------------------------------------------

TypeOK ==
    /\ TasksType
    /\ LlmType
    /\ kind \in {"batch", "extract", "search", "scrape"}
    /\ asks \in BOOLEAN
    /\ run \in Finished \cup {"collect", "insert", "llm", "settle"}
    /\ joined \subseteq Listed
    /\ inserting \in Urls \cup {NoUrl}
    /\ inserting # NoUrl <=> run = "insert"
    /\ pages \in Seq(Urls)

Scraped == {u \in Urls : task[u].pc = "ok"}

\* The pages a run goes on with after the loop are those that were scraped, each once:
\* none is lost because another one failed or panicked, in whatever order they ended.
EveryPageCollected ==
    run \in {"llm", "settle"} =>
        /\ Range(pages) = Scraped
        /\ Len(pages) = Cardinality(Scraped)
        /\ \A u \in Listed : task[u].pc \in Over

\* The run comes to an end without the job timeout's help: nobody waits for a permit that
\* a failed or panicked task has kept, and the attempts at the provider are bounded.
RunEnds == <>(run \in Finished)
=============================================================================
