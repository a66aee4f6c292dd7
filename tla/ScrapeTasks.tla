---------------------------- MODULE ScrapeTasks ----------------------------
(***************************************************************************)
(* The scrapes that one run or request makes: a JoinSet of tasks, one per  *)
(* address, held back by a semaphore of its own; in each, Scraper::scrape  *)
(* with its robots.txt check.                                              *)
(*                                                                         *)
(* The cache of robots files outlives the tasks and is locked only for a   *)
(* look or an insertion, never while a file is fetched.  It is keyed by    *)
(* the host, while a file belongs to an origin (scheme and host).  A file  *)
(* is the set of addresses it forbids; the empty text forbids nothing.     *)
(***************************************************************************)
EXTENDS Integers, FiniteSets

CONSTANTS
    Urls,        \* positions in the list of addresses: two may be the same page
    OriginOf,    \* the origin of each
    HostOf,      \* the host of each origin
    Rules,       \* the robots files that the origins may serve, origin by origin
    Parallel,    \* concurrent_requests
    MaxHosts,    \* the cache's capacity
    NoFile

Origins == {OriginOf[u] : u \in Urls}
Hosts   == {HostOf[o] : o \in Origins}

Host(u) == HostOf[OriginOf[u]]

Files == {{}} \cup UNION {{r[o] : o \in Origins} : r \in Rules}

PagesOf(h) == {u \in Urls : Host(u) = h}

ASSUME MapsAssumption ==
    IsFiniteSet(Urls) /\ DOMAIN OriginOf = Urls /\ Origins \subseteq DOMAIN HostOf
ASSUME RulesAssumption == Rules \subseteq [Origins -> SUBSET Urls]
ASSUME SizesAssumption == Parallel \in Nat \ {0} /\ MaxHosts \in Nat \ {0}
ASSUME NoFileAssumption == \A f \in Files : f # NoFile

VARIABLES
    respects,   \* respect_robots_txt of the configuration
    served,     \* the file each origin serves
    task,       \* the stage of each address's task, and the file it has read
    permits,
    cache,      \* robots_cache, NoFile for a host that is not in it
    cut         \* history: hosts one of whose files arrived without its body

taskVars == <<respects, served, task, permits, cache, cut>>

(***************************************************************************)
(* The stages of a task:                                                   *)
(*   none      not spawned, or dropped with its JoinSet                    *)
(*   permit    waiting for a permit                                        *)
(*   lookup    about to parse the address and look into the cache          *)
(*   request   fetching the robots file                                    *)
(*   store     about to insert it                                          *)
(*   fetch     fetching the page, which the file allows                    *)
(*   unread    fetching the page unchecked: no file was or had to be read  *)
(*   ok, err, panic   over, in a way join_next will tell                   *)
(***************************************************************************)
Scraping == {"lookup", "request", "store", "fetch", "unread"}
Over     == {"ok", "err", "panic"}
Live     == Scraping \cup {"permit"}

At(u, stage) == task[u].pc = stage

Goto(u, stage) == task' = [task EXCEPT ![u] = [pc |-> stage, file |-> NoFile]]

\* The task returns or unwinds, and its permit is dropped.
End(u, how) ==
    /\ Goto(u, how)
    /\ permits' = permits + 1

Unspawned == [pc |-> "none", file |-> NoFile]

SpawnAll(S) ==
    /\ respects \in BOOLEAN
    /\ served \in Rules
    /\ task = [u \in Urls |->
                  IF u \in S THEN [Unspawned EXCEPT !.pc = "permit"] ELSE Unspawned]
    /\ permits = Parallel
    /\ cache = [h \in Hosts |-> NoFile]
    /\ cut = {}

Acquire(u) ==
    /\ At(u, "permit")
    /\ permits > 0
    /\ permits' = permits - 1
    /\ Goto(u, "lookup")
    /\ UNCHANGED <<respects, served, cache, cut>>

\* one_agent_allowed_by_robots
Decide(u, file) ==
    IF u \in file THEN End(u, "err") ELSE Goto(u, "fetch") /\ UNCHANGED permits

\* The address is no URL, robots files are ignored, or the cache is looked into.
LookUp(u) ==
    /\ At(u, "lookup")
    /\ \/ End(u, "err")
       \/ ~respects /\ Goto(u, "unread") /\ UNCHANGED permits
       \/ /\ respects
          /\ LET file == cache[Host(u)]
             IN  IF file = NoFile THEN Goto(u, "request") /\ UNCHANGED permits ELSE Decide(u, file)
    /\ UNCHANGED <<respects, served, cache, cut>>

Read(u, file) == task' = [task EXCEPT ![u] = [pc |-> "store", file |-> file]]

RequestAnswered(u) ==
    /\ At(u, "request")
    /\ Read(u, served[OriginOf[u]])
    /\ UNCHANGED <<respects, served, permits, cache, cut>>

\* text().await.unwrap_or_default(): a body that breaks off counts as an empty file.
RequestCutShort(u) ==
    /\ At(u, "request")
    /\ Read(u, {})
    /\ cut' = cut \cup {Host(u)}
    /\ UNCHANGED <<respects, served, permits, cache>>

\* Mutant: a failed request is remembered as an empty file.
RequestFailsCached(u) ==
    /\ At(u, "request")
    /\ Read(u, {})
    /\ UNCHANGED <<respects, served, permits, cache, cut>>

\* No answer or no success: allowed, and nothing is remembered.
RequestFails(u) ==
    /\ At(u, "request")
    /\ Goto(u, "unread")
    /\ UNCHANGED <<respects, served, permits, cache, cut>>

Cached == {h \in Hosts : cache[h] # NoFile}

\* One entry is removed when the cache is full, also when the host is in it by now.
Evicted(h) == [cache EXCEPT ![h] = NoFile]

\* Mutant: nothing is ever removed.
StoreUnbounded(u) ==
    /\ At(u, "store")
    /\ cache' = [cache EXCEPT ![Host(u)] = task[u].file]
    /\ Decide(u, task[u].file)
    /\ UNCHANGED <<respects, served, cut>>

Store(u) ==
    /\ At(u, "store")
    /\ \E kept \in IF Cardinality(Cached) >= MaxHosts
                   THEN {Evicted(h) : h \in Cached}
                   ELSE {cache} :
          cache' = [kept EXCEPT ![Host(u)] = task[u].file]
    /\ Decide(u, task[u].file)
    /\ UNCHANGED <<respects, served, cut>>

FetchPage(u) ==
    /\ task[u].pc \in {"fetch", "unread"}
    /\ \E how \in {"ok", "err"} : End(u, how)
    /\ UNCHANGED <<respects, served, cache, cut>>

\* Mutant: the permit is lost with the task.
PanicKeepsPermit(u) ==
    /\ task[u].pc \in {"fetch", "unread"}
    /\ Goto(u, "panic")
    /\ UNCHANGED <<respects, served, permits, cache, cut>>

\* The conversion of the page panics; the permit goes with the task.
Panic(u) ==
    /\ task[u].pc \in {"fetch", "unread"}
    /\ End(u, "panic")
    /\ UNCHANGED <<respects, served, cache, cut>>

\* The JoinSet is dropped, and with it every task.
DropTasks ==
    /\ task' = [u \in Urls |-> Unspawned]
    /\ permits' = Parallel
    /\ UNCHANGED <<respects, served, cache, cut>>

\* What brings a task to its end: HTTP requests have the client's timeout.
TaskProgress(u) ==
    \/ Acquire(u) \/ LookUp(u)
    \/ RequestAnswered(u) \/ RequestCutShort(u) \/ RequestFails(u)
    \/ Store(u) \/ FetchPage(u)

TaskStep(u) == TaskProgress(u) \/ Panic(u)

-----------------------------------------------------------------------------

TasksType ==
    /\ respects \in BOOLEAN
    /\ served \in Rules
    /\ task \in [Urls -> [pc : Live \cup Over \cup {"none"}, file : {NoFile} \cup Files]]
    /\ permits \in 0 .. Parallel
    /\ cache \in [Hosts -> {NoFile} \cup Files]
    /\ Cardinality(Cached) <= MaxHosts
    /\ cut \subseteq Hosts

\* A permit is held exactly while a task scrapes, whatever panics, is forbidden or is
\* dropped: never more than concurrent_requests pages are fetched for one run, and never
\* fewer could be.
PermitsConserved ==
    permits + Cardinality({u \in Urls : task[u].pc \in Scraping}) = Parallel

\* Every file served under the address's host forbids it.
Forbidden(u) == \A o \in Origins : HostOf[o] = Host(u) => u \in served[o]

\* Where robots files are respected, a forbidden page is only fetched by a task whose own
\* request for the file failed, or after a file of its host lost its body: tasks that share
\* the cache, fill it at the same time or evict each other's entries never let one another
\* through.
RobotsRespected ==
    \A u \in Urls : At(u, "fetch") /\ Forbidden(u) => Host(u) \in cut
=============================================================================
