-------------------------- MODULE ScrapeRunsProofs --------------------------
(***************************************************************************)
(* Proofs about ScrapeRuns, for any addresses, origins, robots files,      *)
(* completions of the LLM, concurrency and cache size.                     *)
(***************************************************************************)
EXTENDS ScrapeRuns, FiniteSetTheorems, SequenceTheorems, TLAPS

TaskRecord == [pc : Live \cup Over \cup {"none"}, file : {NoFile} \cup Files]

Busy == {u \in Urls : task[u].pc \in Scraping}

LEMMA FiniteUrls ==
    /\ IsFiniteSet(Urls)
    /\ \A S \in SUBSET Urls : IsFiniteSet(S) /\ Cardinality(S) \in Nat
  BY MapsAssumption, FS_Subset, FS_CardinalityType

LEMMA HostOfUrl == \A u \in Urls : OriginOf[u] \in Origins /\ Host(u) \in Hosts
  BY DEF Origins, Hosts, Host

LEMMA FiniteHosts ==
    /\ IsFiniteSet(Hosts)
    /\ \A S \in SUBSET Hosts : IsFiniteSet(S) /\ Cardinality(S) \in Nat
<1> DEFINE f == [u \in Urls |-> Host(u)]
<1>1. f \in [Urls -> Hosts]
  BY HostOfUrl
<1>2. \A h \in Hosts : \E u \in Urls : f[u] = h
  BY DEF Hosts, Origins, Host
<1>3. f \in Surjection(Urls, Hosts)
  BY <1>1, <1>2 DEF Surjection
<1>4. IsFiniteSet(Hosts)
  BY <1>3, FiniteUrls, FS_Surjection
<1> QED
  BY <1>4, FS_Subset, FS_CardinalityType

-----------------------------------------------------------------------------
(***************************************************************************)
(* Permits                                                                 *)
(***************************************************************************)

\* What a task's step does to its stage and to the permits.
StageMoves(u, stage) ==
    \/ task[u].pc = "permit" /\ stage \in Scraping /\ permits > 0 /\ permits' = permits - 1
    \/ task[u].pc \in Scraping /\ stage \in Scraping /\ permits' = permits
    \/ task[u].pc \in Scraping /\ stage \in Over /\ permits' = permits + 1

Moves(u, stage, file) ==
    /\ task' = [task EXCEPT ![u] = [pc |-> stage, file |-> file]]
    /\ StageMoves(u, stage)

LEMMA DecideMoves ==
    ASSUME NEW u \in Urls, NEW file, task[u].pc \in Scraping, Decide(u, file)
    PROVE  \E stage \in {"err", "fetch"} :
              /\ Moves(u, stage, NoFile)
              /\ stage = "fetch" => u \notin file
<1>1. CASE u \in file
  BY <1>1 DEF Decide, End, Goto, Moves, StageMoves, Over
<1>2. CASE u \notin file
  BY <1>2 DEF Decide, Goto, Moves, StageMoves, Scraping
<1> QED
  BY <1>1, <1>2

LEMMA TaskMoves ==
    ASSUME TasksType, NEW u \in Urls, TaskStep(u)
    PROVE  /\ \E stage \in Scraping \cup Over, file \in {NoFile} \cup Files : Moves(u, stage, file)
           /\ served' = served /\ respects' = respects
<1>1. CASE Acquire(u)
  BY <1>1 DEF Acquire, At, Goto, Moves, StageMoves, Scraping
<1>2. CASE LookUp(u)
  <2>1. task[u].pc = "lookup" /\ served' = served /\ respects' = respects
    BY <1>2 DEF LookUp, At
  <2>2. CASE (Goto(u, "request") \/ Goto(u, "unread")) /\ UNCHANGED permits
    BY <2>1, <2>2 DEF Goto, Moves, StageMoves, Scraping
  <2>3. CASE Decide(u, cache[Host(u)])
    BY <2>1, <2>3, DecideMoves DEF Scraping, Over
  <2>4. CASE End(u, "err")
    BY <2>1, <2>4 DEF End, Goto, Moves, StageMoves, Scraping, Over
  <2> QED
    BY <1>2, <2>2, <2>3, <2>4 DEF LookUp
<1>3. CASE RequestAnswered(u)
  <2>1. served[OriginOf[u]] \in Files
    BY HostOfUrl DEF TasksType, Files
  <2> QED
    BY <1>3, <2>1 DEF RequestAnswered, At, Read, Moves, StageMoves, Scraping
<1>4. CASE RequestCutShort(u)
  BY <1>4 DEF RequestCutShort, At, Read, Moves, StageMoves, Scraping, Files
<1>5. CASE RequestFails(u)
  BY <1>5 DEF RequestFails, At, Goto, Moves, StageMoves, Scraping
<1>6. CASE Store(u)
  BY <1>6, DecideMoves DEF Store, At, Scraping, Over
<1>7. CASE FetchPage(u) \/ Panic(u)
  BY <1>7 DEF FetchPage, Panic, End, Goto, Moves, StageMoves, Scraping, Over
<1> QED
  BY <1>1, <1>2, <1>3, <1>4, <1>5, <1>6, <1>7 DEF TaskStep, TaskProgress

LEMMA PermitsStep ==
    ASSUME task \in [Urls -> TaskRecord], permits \in 0 .. Parallel, PermitsConserved,
           NEW u \in Urls, NEW stage \in Scraping \cup Over, NEW file, Moves(u, stage, file)
    PROVE  permits' \in 0 .. Parallel /\ PermitsConserved'
<1>1. /\ task'[u].pc = stage /\ \A v \in Urls \ {u} : task'[v] = task[v]
      /\ StageMoves(u, stage)
  BY DEF Moves
<1>2. permits + Cardinality(Busy) = Parallel /\ Cardinality(Busy) \in Nat /\ IsFiniteSet(Busy)
  BY FiniteUrls DEF PermitsConserved, Busy
<1>3. Cardinality(Busy') \in Nat /\ IsFiniteSet(Busy')
  BY FiniteUrls DEF Busy
<1>4. Parallel \in Nat
  BY SizesAssumption
<1>5. permits' + Cardinality(Busy') = Parallel
  <2>1. CASE task[u].pc = "permit" /\ stage \in Scraping /\ permits > 0 /\ permits' = permits - 1
    <3>1. u \notin Busy /\ Busy' = Busy \cup {u}
      BY <1>1, <2>1 DEF Busy, Scraping
    <3>2. Cardinality(Busy') = Cardinality(Busy) + 1
      BY <1>2, <3>1, FS_AddElement
    <3> QED
      BY <1>2, <2>1, <3>2
  <2>2. CASE task[u].pc \in Scraping /\ stage \in Scraping /\ permits' = permits
    <3>1. Busy' = Busy
      BY <1>1, <2>2 DEF Busy
    <3> QED
      BY <1>2, <2>2, <3>1
  <2>3. CASE task[u].pc \in Scraping /\ stage \in Over /\ permits' = permits + 1
    <3>1. u \in Busy /\ Busy' = Busy \ {u}
      BY <1>1, <2>3 DEF Busy, Scraping, Over
    <3>2. Cardinality(Busy') = Cardinality(Busy) - 1
      BY <1>2, <3>1, FS_RemoveElement
    <3> QED
      BY <1>2, <1>3, <2>3, <3>2
  <2> QED
    BY <1>1, <2>1, <2>2, <2>3 DEF StageMoves
<1>6. permits' \in Nat
  BY <1>1 DEF StageMoves
<1>7. permits' \in 0 .. Parallel
  BY <1>3, <1>4, <1>5, <1>6
<1> QED
  BY <1>5, <1>7 DEF PermitsConserved, Busy

\* Without a task that scrapes every permit is free.
LEMMA NobodyBusy ==
    ASSUME NEW t, \A u \in Urls : t[u].pc \notin Scraping
    PROVE  Parallel \in 0 .. Parallel /\ Parallel + Cardinality({u \in Urls : t[u].pc \in Scraping}) = Parallel
<1>1. {u \in Urls : t[u].pc \in Scraping} = {}
  OBVIOUS
<1> QED
  BY <1>1, FS_EmptySet, SizesAssumption

-----------------------------------------------------------------------------
(***************************************************************************)
(* The cache                                                               *)
(***************************************************************************)

LEMMA OneMore ==
    ASSUME NEW S, NEW x, IsFiniteSet(S)
    PROVE  /\ IsFiniteSet(S \cup {x}) /\ Cardinality(S \cup {x}) \in Nat
           /\ Cardinality(S \cup {x}) <= Cardinality(S) + 1
<1>1. IsFiniteSet(S \cup {x}) /\ (x \in S \/ Cardinality(S \cup {x}) = Cardinality(S) + 1)
  BY FS_AddElement
<1>2. Cardinality(S) \in Nat /\ Cardinality(S \cup {x}) \in Nat
  BY <1>1, FS_CardinalityType
<1>3. CASE x \in S
  <2>1. S \cup {x} = S
    BY <1>3
  <2> QED
    BY <1>2, <2>1
<1> QED
  BY <1>1, <1>2, <1>3

CacheType ==
    /\ cache \in [Hosts -> {NoFile} \cup Files]
    /\ Cardinality(Cached) <= MaxHosts

LEMMA StoreFits ==
    ASSUME CacheType, NEW u \in Urls, task[u].file \in Files, Store(u)
    PROVE  CacheType'
<1> DEFINE room == IF Cardinality(Cached) >= MaxHosts THEN {Evicted(h) : h \in Cached} ELSE {cache}
<1>1. PICK kept \in room : cache' = [kept EXCEPT ![Host(u)] = task[u].file]
  BY DEF Store
<1>2. Host(u) \in Hosts /\ MaxHosts \in Nat
  BY HostOfUrl, SizesAssumption
<1>3. /\ Cached \subseteq Hosts /\ Cached' \subseteq Hosts
      /\ IsFiniteSet(Cached) /\ Cardinality(Cached) \in Nat
      /\ IsFiniteSet(Cached') /\ Cardinality(Cached') \in Nat
  BY FiniteHosts DEF Cached
<1>4. CASE Cardinality(Cached) >= MaxHosts
  <2>1. PICK h \in Cached : kept = [cache EXCEPT ![h] = NoFile]
    BY <1>1, <1>4 DEF Evicted
  <2>2. h \in Hosts /\ kept \in [Hosts -> {NoFile} \cup Files]
    BY <1>3, <2>1 DEF CacheType
  <2>3. Cached' \subseteq (Cached \ {h}) \cup {Host(u)}
    BY <1>1, <1>2, <2>1, <2>2 DEF Cached, CacheType
  <2>4. /\ IsFiniteSet(Cached \ {h}) /\ Cardinality(Cached \ {h}) = Cardinality(Cached) - 1
        /\ Cardinality(Cached \ {h}) \in Nat
    BY <1>3, FS_RemoveElement, FS_CardinalityType
  <2>5. /\ IsFiniteSet((Cached \ {h}) \cup {Host(u)})
        /\ Cardinality((Cached \ {h}) \cup {Host(u)}) <= Cardinality(Cached \ {h}) + 1
        /\ Cardinality((Cached \ {h}) \cup {Host(u)}) \in Nat
    BY <2>4, OneMore
  <2>6. Cardinality(Cached') <= Cardinality((Cached \ {h}) \cup {Host(u)})
    BY <2>3, <2>5, FS_Subset
  <2>7. Cardinality(Cached') <= MaxHosts
    BY <1>2, <1>3, <2>4, <2>5, <2>6 DEF CacheType
  <2> QED
    BY <1>1, <1>2, <2>2, <2>7 DEF CacheType
<1>5. CASE ~ (Cardinality(Cached) >= MaxHosts)
  <2>1. cache' = [cache EXCEPT ![Host(u)] = task[u].file]
    BY <1>1, <1>5
  <2>2. Cached' \subseteq Cached \cup {Host(u)}
    BY <1>2, <2>1 DEF Cached, CacheType
  <2>3. /\ IsFiniteSet(Cached \cup {Host(u)})
        /\ Cardinality(Cached \cup {Host(u)}) <= Cardinality(Cached) + 1
        /\ Cardinality(Cached \cup {Host(u)}) \in Nat
    BY <1>3, OneMore
  <2>4. Cardinality(Cached') <= Cardinality(Cached \cup {Host(u)})
    BY <2>2, <2>3, FS_Subset
  <2>5. Cardinality(Cached') <= MaxHosts
    BY <1>2, <1>3, <1>5, <2>3, <2>4
  <2> QED
    BY <1>2, <2>1, <2>5 DEF CacheType
<1> QED
  BY <1>4, <1>5

\* A file is one that an origin of the host serves, unless one came without its body.
Known(h, file, s, lost) == h \in lost \/ \E o \in Origins : HostOf[o] = h /\ file = s[o]

FilesKnown ==
    /\ \A h \in Hosts : cache[h] # NoFile => Known(h, cache[h], served, cut)
    /\ \A u \in Urls : At(u, "store") => task[u].file \in Files /\ Known(Host(u), task[u].file, served, cut)

\* What the tasks of a run, the permits and the cache keep to.
TasksSound == TasksType /\ PermitsConserved /\ FilesKnown /\ RobotsRespected

\* A task that reads a known file does not go on to a page all files of its host forbid.
LEMMA DecideRespects ==
    ASSUME NEW u \in Urls, NEW file, Known(Host(u), file, served, cut), u \notin file, Forbidden(u)
    PROVE  Host(u) \in cut
  BY DEF Known, Forbidden

LEMMA TaskStepSound == ASSUME TasksSound, NEW u \in Urls, TaskStep(u) PROVE TasksSound'
<1>1. PICK stage \in Scraping \cup Over, file \in {NoFile} \cup Files : Moves(u, stage, file)
  BY TaskMoves DEF TasksSound
<1>2. served' = served /\ served \in Rules /\ respects' \in BOOLEAN
  BY TaskMoves DEF TasksSound, TasksType
<1>3. /\ task' \in [Urls -> TaskRecord]
      /\ task'[u] = [pc |-> stage, file |-> file] /\ \A v \in Urls \ {u} : task'[v] = task[v]
  <2>1. [pc |-> stage, file |-> file] \in TaskRecord
    BY DEF TaskRecord, Live
  <2>2. task \in [Urls -> TaskRecord]
    BY DEF TasksSound, TasksType, TaskRecord
  <2> QED
    BY <1>1, <2>1, <2>2 DEF Moves
<1>4. permits' \in 0 .. Parallel /\ PermitsConserved'
  <2>1. task \in [Urls -> TaskRecord] /\ permits \in 0 .. Parallel /\ PermitsConserved
    BY DEF TasksSound, TasksType, TaskRecord
  <2> QED
    BY <1>1, <2>1, PermitsStep
<1>5. cut \subseteq cut' /\ cut' \subseteq Hosts
  BY HostOfUrl DEF TasksSound, TasksType, TaskStep, TaskProgress, Acquire, LookUp, RequestAnswered,
                   RequestCutShort, RequestFails, Store, FetchPage, Panic
<1>6. CacheType' /\ \A h \in Hosts : cache'[h] # NoFile => Known(h, cache'[h], served, cut)
  <2>1. CASE UNCHANGED cache
    BY <2>1 DEF TasksSound, TasksType, CacheType, FilesKnown, Cached
  <2>2. CASE Store(u)
    <3>1. At(u, "store") /\ task[u].file \in Files /\ Known(Host(u), task[u].file, served, cut)
      BY <2>2 DEF Store, TasksSound, FilesKnown
    <3>2. CacheType
      BY DEF TasksSound, TasksType, CacheType
    <3>3. CacheType'
      BY <2>2, <3>1, <3>2, StoreFits
    <3>4. \E kept \in {Evicted(h) : h \in Cached} \cup {cache} :
             cache' = [kept EXCEPT ![Host(u)] = task[u].file]
      BY <2>2 DEF Store
    <3>5. /\ \A h \in Hosts \ {Host(u)} : cache'[h] \in {NoFile, cache[h]}
          /\ cache'[Host(u)] = task[u].file
      BY <3>2, <3>4, HostOfUrl DEF Evicted, Cached, CacheType
    <3> QED
      BY <3>1, <3>3, <3>5 DEF TasksSound, FilesKnown
  <2> QED
    BY <2>1, <2>2 DEF TaskStep, TaskProgress, Acquire, LookUp, RequestAnswered, RequestCutShort,
                      RequestFails, FetchPage, Panic
<1>7. \A h, f : Known(h, f, served, cut) => Known(h, f, served', cut')
  BY <1>2, <1>5 DEF Known
<1>8. stage = "store" => file \in Files /\ Known(Host(u), file, served', cut')
  <2>1. CASE RequestAnswered(u)
    <3>1. file = served[OriginOf[u]]
      BY <1>3, <2>1 DEF RequestAnswered, Read, TasksSound, TasksType
    <3>2. served[OriginOf[u]] \in Files
      BY <1>2, HostOfUrl DEF Files
    <3> QED
      BY <1>2, <3>1, <3>2, HostOfUrl DEF Known, Host
  <2>2. CASE RequestCutShort(u)
    <3>1. file = {} /\ Host(u) \in cut'
      BY <1>3, <2>2 DEF RequestCutShort, Read, TasksSound, TasksType
    <3> QED
      BY <3>1 DEF Known, Files
  <2>3. CASE RequestFails(u) \/ Acquire(u)
    BY <1>3, <2>3 DEF RequestFails, Acquire, Goto, TasksSound, TasksType
  <2>4. CASE FetchPage(u) \/ Panic(u)
    BY <1>3, <2>4 DEF FetchPage, Panic, End, Goto, TasksSound, TasksType
  <2>5. CASE LookUp(u) \/ Store(u)
    BY <1>3, <2>5 DEF LookUp, Store, Decide, End, Goto, TasksSound, TasksType
  <2> QED
    BY <2>1, <2>2, <2>3, <2>4, <2>5 DEF TaskStep, TaskProgress
<1>9. stage = "fetch" /\ Forbidden(u) => Host(u) \in cut
  <2>1. ASSUME NEW f, task[u].pc \in Scraping, Decide(u, f), Known(Host(u), f, served, cut), stage = "fetch", Forbidden(u)
        PROVE  Host(u) \in cut
    <3>1. u \notin f
      BY <1>3, <2>1 DEF Decide, End, Goto, TasksSound, TasksType
    <3> QED
      BY <2>1, <3>1, DecideRespects
  <2>2. CASE LookUp(u) /\ cache[Host(u)] # NoFile /\ Decide(u, cache[Host(u)])
    <3>1. task[u].pc \in Scraping /\ Known(Host(u), cache[Host(u)], served, cut)
      BY <2>2, HostOfUrl DEF LookUp, At, Scraping, TasksSound, FilesKnown
    <3> QED
      BY <2>1, <2>2, <3>1
  <2>3. CASE Store(u)
    <3>1. Decide(u, task[u].file) /\ task[u].pc \in Scraping /\ Known(Host(u), task[u].file, served, cut)
      BY <2>3 DEF Store, At, Scraping, TasksSound, FilesKnown
    <3> QED
      BY <2>1, <3>1
  <2>4. CASE LookUp(u) /\ ~ (cache[Host(u)] # NoFile /\ Decide(u, cache[Host(u)]))
    <3>1. Goto(u, "request") \/ Goto(u, "unread") \/ Goto(u, "err")
      BY <2>4 DEF LookUp, End
    <3> QED
      BY <1>3, <3>1 DEF Goto, TasksSound, TasksType
  <2>5. CASE Acquire(u) \/ RequestFails(u)
    BY <1>3, <2>5 DEF RequestFails, Acquire, Goto, TasksSound, TasksType
  <2>6. CASE RequestAnswered(u) \/ RequestCutShort(u)
    BY <1>3, <2>6 DEF RequestAnswered, RequestCutShort, Read, TasksSound, TasksType
  <2>7. CASE FetchPage(u) \/ Panic(u)
    BY <1>3, <2>7 DEF FetchPage, Panic, End, Goto, TasksSound, TasksType
  <2> QED
    BY <2>2, <2>3, <2>4, <2>5, <2>6, <2>7 DEF TaskStep, TaskProgress
<1>10. FilesKnown'
  <2>1. ASSUME NEW v \in Urls, At(v, "store")' PROVE task'[v].file \in Files /\ Known(Host(v), task'[v].file, served', cut')
    <3>1. CASE v = u
      BY <1>3, <1>8, <2>1, <3>1 DEF At
    <3>2. CASE v # u
      BY <1>3, <1>7, <2>1, <3>2 DEF At, TasksSound, FilesKnown
    <3> QED
      BY <3>1, <3>2
  <2>2. \A h \in Hosts : cache'[h] # NoFile => Known(h, cache'[h], served', cut')
    BY <1>2, <1>5, <1>6 DEF Known
  <2> QED
    BY <2>1, <2>2 DEF FilesKnown
<1>11. RobotsRespected'
  <2> SUFFICES ASSUME NEW v \in Urls, At(v, "fetch")', Forbidden(v)' PROVE Host(v) \in cut'
    BY DEF RobotsRespected
  <2>1. Forbidden(v)
    BY <1>2 DEF Forbidden
  <2>2. CASE v = u
    BY <1>3, <1>5, <1>9, <2>1, <2>2 DEF At
  <2>3. CASE v # u
    BY <1>3, <1>5, <2>1, <2>3 DEF At, TasksSound, RobotsRespected
  <2> QED
    BY <2>2, <2>3
<1>12. TasksType'
  BY <1>2, <1>3, <1>4, <1>5, <1>6 DEF TasksType, TaskRecord, CacheType
<1> QED
  BY <1>4, <1>10, <1>11, <1>12 DEF TasksSound

LEMMA DropSound == ASSUME TasksSound, DropTasks PROVE TasksSound'
<1>1. Unspawned \in TaskRecord /\ Unspawned.pc = "none"
  BY DEF Unspawned, TaskRecord
<1>2. task' \in [Urls -> TaskRecord] /\ \A u \in Urls : task'[u].pc = "none"
  BY <1>1 DEF DropTasks
<1>3. permits' = Parallel /\ UNCHANGED <<respects, served, cache, cut>>
  BY DEF DropTasks
<1>4. permits' \in 0 .. Parallel /\ PermitsConserved'
  <2>1. \A u \in Urls : task'[u].pc \notin Scraping
    BY <1>2 DEF Scraping
  <2> QED
    BY <1>3, <2>1, NobodyBusy DEF PermitsConserved
<1>5. TasksType'
  BY <1>2, <1>3, <1>4 DEF TasksSound, TasksType, TaskRecord, Cached
<1>6. FilesKnown' /\ RobotsRespected'
  BY <1>2, <1>3 DEF TasksSound, FilesKnown, RobotsRespected, At, Known, Forbidden
<1> QED
  BY <1>4, <1>5, <1>6 DEF TasksSound

LEMMA StillSound == ASSUME TasksSound, UNCHANGED taskVars PROVE TasksSound'
  BY DEF TasksSound, taskVars, TasksType, PermitsConserved, FilesKnown, RobotsRespected, At, Known,
         Forbidden, Cached

-----------------------------------------------------------------------------
(***************************************************************************)
(* The call of the LLM                                                     *)
(***************************************************************************)

LEMMA NoCallType ==
    NoCall \in [pc : Asking \cup Ended \cup {"idle", "sleep"}, attempt : 0 .. RetriesBound,
                retries : 0 .. RetriesBound, groq : BOOLEAN,
                text : Completions \cup {<<>>}, data : Values \cup {<<>>}]
  BY RetriesAssumption DEF NoCall

\* A pause is only made before another attempt.
LlmSound == LlmType /\ (llm.pc = "sleep" => llm.attempt + 1 < llm.retries)

LEMMA ReturnSound ==
    ASSUME NEW how \in Ended, NEW text \in Completions \cup {<<>>}, NEW data \in Values \cup {<<>>},
           Return(how, text, data)
    PROVE  LlmSound'
<1>1. llm' = [NoCall EXCEPT !.pc = how, !.text = text, !.data = data]
  BY DEF Return
<1>2. llm'.attempt = 0 /\ llm'.pc = how
  BY <1>1 DEF NoCall
<1>3. llm' \in [pc : Asking \cup Ended \cup {"idle", "sleep"}, attempt : 0 .. RetriesBound,
                retries : 0 .. RetriesBound, groq : BOOLEAN,
                text : Completions \cup {<<>>}, data : Values \cup {<<>>}]
  BY <1>1, NoCallType
<1> QED
  BY <1>2, <1>3 DEF LlmSound, LlmType, Ended

LEMMA LlmStepSound == ASSUME LlmSound, LlmStep PROVE LlmSound'
<1> DEFINE Record == [pc : Asking \cup Ended \cup {"idle", "sleep"}, attempt : 0 .. RetriesBound,
                      retries : 0 .. RetriesBound, groq : BOOLEAN,
                      text : Completions \cup {<<>>}, data : Values \cup {<<>>}]
<1>0. /\ llm \in Record /\ (llm.attempt > 0 => llm.attempt < llm.retries)
      /\ llm.pc = "sleep" => llm.attempt + 1 < llm.retries
  BY DEF LlmSound, LlmType
<1>1. CASE Call
  <2>1. PICK retries \in 0 .. RetriesBound, groq \in BOOLEAN :
           IF retries = 0
           THEN Return("error", <<>>, <<>>)
           ELSE llm' = [NoCall EXCEPT !.pc = FirstRequest(groq), !.retries = retries, !.groq = groq]
    BY <1>1 DEF Call
  <2>2. CASE retries = 0
    BY <2>1, <2>2, ReturnSound DEF Ended
  <2>3. CASE retries # 0
    <3>1. llm' = [NoCall EXCEPT !.pc = FirstRequest(groq), !.retries = retries, !.groq = groq]
      BY <2>1, <2>3
    <3>2. llm'.attempt = 0 /\ llm'.pc = FirstRequest(groq)
      BY <3>1 DEF NoCall
    <3>3. FirstRequest(groq) \in Asking
      BY DEF FirstRequest, Asking
    <3>4. llm' \in Record
      BY <3>1, <3>3, NoCallType
    <3> QED
      BY <3>2, <3>3, <3>4 DEF LlmSound, LlmType, Asking
  <2> QED
    BY <2>2, <2>3
<1>2. CASE Rejected
  BY <1>0, <1>2 DEF Rejected, LlmSound, LlmType, Asking
<1>3. ASSUME NEW text \in Completions, Answered(text) PROVE LlmSound'
  BY <1>3, ReturnSound DEF Answered, Ended
<1>4. CASE AttemptFails
  <2>1. CASE llm.attempt + 1 < llm.retries
    BY <1>0, <1>4, <2>1 DEF AttemptFails, LlmSound, LlmType
  <2>2. CASE ~ (llm.attempt + 1 < llm.retries)
    BY <1>4, <2>2, ReturnSound DEF AttemptFails, Ended
  <2> QED
    BY <2>1, <2>2
<1>5. CASE Wake
  <2>1. FirstRequest(llm.groq) \in Asking /\ llm.attempt + 1 \in 0 .. RetriesBound
    BY <1>0, <1>5, RetriesAssumption DEF Wake, FirstRequest, Asking
  <2>2. llm' = [llm EXCEPT !.pc = FirstRequest(llm.groq), !.attempt = llm.attempt + 1]
    BY <1>5 DEF Wake
  <2>3. /\ llm'.attempt = llm.attempt + 1 /\ llm'.retries = llm.retries
        /\ llm'.pc = FirstRequest(llm.groq)
    BY <1>0, <2>2
  <2>4. llm' \in Record
    BY <1>0, <2>1, <2>2
  <2> QED
    BY <1>0, <1>5, <2>1, <2>3, <2>4 DEF Wake, LlmSound, LlmType, Asking
<1> QED
  BY <1>1, <1>2, <1>3, <1>4, <1>5 DEF LlmStep

-----------------------------------------------------------------------------
(***************************************************************************)
(* The object in a completion                                              *)
(***************************************************************************)

LEMMA PlacesOfText ==
    ASSUME NEW text \in Seq(Tokens), NEW token
    PROVE  /\ Len(text) \in Nat /\ DOMAIN text = 1 .. Len(text)
           /\ Places(text, token) \subseteq 1 .. Len(text)
           /\ IsFiniteSet(Places(text, token))
           /\ \A i \in Places(text, token) : text[i] = token
<1>1. Len(text) \in Nat /\ DOMAIN text = 1 .. Len(text)
  BY LenProperties
<1>2. Places(text, token) \subseteq 1 .. Len(text)
  BY <1>1 DEF Places
<1>3. IsFiniteSet(1 .. Len(text))
  BY <1>1, FS_Interval
<1> QED
  BY <1>1, <1>2, <1>3, FS_Subset DEF Places

LEMMA LeastPlace ==
    ASSUME NEW S, S \subseteq Nat, S # {}
    PROVE  \E i \in S : \A k \in S : i <= k
<1>1. PICK i \in S : \A k \in S : ~ (<<k, i>> \in OpToRel(<, Nat))
  BY WFMin, NatLessThanWellFounded
<1>2. ASSUME NEW k \in S PROVE i <= k
  <2>1. i \in Nat /\ k \in Nat
    OBVIOUS
  <2>2. ~ (k < i)
    BY <1>1, <2>1 DEF OpToRel
  <2> QED
    BY <2>1, <2>2
<1> QED
  BY <1>2

LEMMA FirstOfPlaces ==
    ASSUME NEW text \in Seq(Tokens), NEW token, Places(text, token) # {}
    PROVE  /\ FirstPlace(text, token) \in Places(text, token)
           /\ \A k \in Places(text, token) : FirstPlace(text, token) <= k
<1> DEFINE P == Places(text, token)
<1>1. P \subseteq Nat /\ P # {}
  BY PlacesOfText
<1> HIDE DEF P
<1>2. \E i \in P : \A k \in P : i <= k
  BY <1>1, LeastPlace
<1> QED
  BY <1>2, Zenon DEF FirstPlace, P

LEMMA ClosingFence ==
    ASSUME NEW text \in Seq(Tokens), NEW i \in Int, FenceAfter(text, i) # {}
    PROVE  Closing(text, i) \in Places(text, "fence") /\ Closing(text, i) > i
<1> DEFINE P == FenceAfter(text, i)
<1>1. P \subseteq Nat /\ P # {}
  BY PlacesOfText DEF FenceAfter
<1> HIDE DEF P
<1>2. \E k \in P : \A l \in P : k <= l
  BY <1>1, LeastPlace
<1>3. Closing(text, i) \in P
  BY <1>2, Zenon DEF Closing, P
<1> QED
  BY <1>3 DEF P, FenceAfter

LEMMA OnePlace ==
    ASSUME NEW text \in Seq(Tokens), NEW token, Cardinality(Places(text, token)) = 1
    PROVE  /\ FirstPlace(text, token) = LastPlace(text, token)
           /\ Places(text, token) = {FirstPlace(text, token)}
<1>1. PICK p : Places(text, token) = {p}
  BY PlacesOfText, FS_Singleton
<1>2. p \in 1 .. Len(text)
  BY <1>1, PlacesOfText
<1> QED
  BY <1>1, <1>2 DEF FirstPlace, LastPlace

LEMMA TwoPlaces ==
    ASSUME NEW text \in Seq(Tokens), NEW token, Cardinality(Places(text, token)) = 2
    PROVE  /\ Places(text, token) = {FirstPlace(text, token), LastPlace(text, token)}
           /\ FirstPlace(text, token) < LastPlace(text, token)
<1> DEFINE P == Places(text, token)
<1>1. IsFiniteSet(P) /\ P \subseteq 1 .. Len(text) /\ Len(text) \in Nat
  BY PlacesOfText
<1>2. PICK p : p \in P
  BY <1>1, FS_EmptySet
<1>3. IsFiniteSet(P \ {p}) /\ Cardinality(P \ {p}) = 1
  BY <1>1, <1>2, FS_RemoveElement
<1>4. PICK q : P \ {p} = {q}
  BY <1>3, FS_Singleton
<1>5. P = {p, q} /\ p # q /\ p \in Int /\ q \in Int
  BY <1>1, <1>2, <1>4
<1>6. \E i, k \in Int : P = {i, k} /\ i < k
  <2>1. CASE p < q
    BY <1>5, <2>1, Zenon
  <2>2. CASE q < p
    <3>1. P = {q, p}
      BY <1>5
    <3> QED
      BY <1>5, <2>2, <3>1, Zenon
  <2> QED
    BY <1>5, <2>1, <2>2
<1>7. PICK i \in Int, k \in Int : P = {i, k} /\ i < k
  BY <1>6
<1>8. FirstPlace(text, token) = i
  BY <1>7 DEF FirstPlace
<1>9. LastPlace(text, token) = k
  BY <1>7 DEF LastPlace
<1> QED
  BY <1>7, <1>8, <1>9

LEMMA ObjectIs ==
    /\ Object # Unusable /\ Object # Panics /\ Object \in Values
    /\ Object # <<>> /\ OpensValue(Object)
    /\ Len(Object) = 2 /\ Object[1] = "brace" /\ Object[2] = "endbrace"
  BY DEF Object, Unusable, Panics, Values, OpensValue

LEMMA ObjectNoScalar == Object # Scalar
  BY DEF Object, Scalar

LEMMA Embraced ==
    ASSUME NEW text \in Seq(Tokens), NEW p \in Int, NEW q \in Int, q = p + 1,
           text[p] = "brace", text[q] = "endbrace"
    PROVE  SubSeq(text, p, q) = Object
<1> DEFINE s == SubSeq(text, p, q)
<1>1. \A i \in p .. q : text[i] \in Tokens
  BY DEF Tokens
<1>2. /\ s \in Seq(Tokens) /\ Len(s) = IF p <= q THEN q - p + 1 ELSE 0
      /\ \A i \in 1 .. q - p + 1 : s[i] = text[p + i - 1]
  BY <1>1, SubSeqProperties
<1> HIDE DEF s
<1>3. Len(s) = 2 /\ s[1] = text[p] /\ s[2] = text[q]
  <2>1. /\ 1 \in 1 .. q - p + 1 /\ p + 1 - 1 = p
        /\ 2 \in 1 .. q - p + 1 /\ p + 2 - 1 = q
    OBVIOUS
  <2>2. s[1] = text[p + 1 - 1] /\ s[2] = text[p + 2 - 1]
    BY <1>2, <2>1, Zenon
  <2> QED
    BY <1>2, <2>1, <2>2
<1>4. Object \in Seq(Tokens)
  BY DEF Object, Tokens
<1>5. \A i \in 1 .. Len(s) : s[i] = Object[i]
  BY <1>3, ObjectIs
<1>6. s = Object
  BY <1>2, <1>3, <1>4, <1>5, ObjectIs, SeqEqual, Zenon
<1> QED
  BY <1>6 DEF s

\* An object behind the word json.
Labelled == <<"json">> \o Object

LEMMA LabelledIs ==
    Len(Labelled) = 3 /\ Labelled[1] = "json" /\ Labelled[2] = "brace" /\ Labelled[3] = "endbrace"
<1>1. <<"json">> \in Seq(Tokens) /\ Len(<<"json">>) = 1 /\ Object \in Seq(Tokens)
  BY DEF Tokens, Object
<1>2. /\ Len(Labelled) = 1 + 2
      /\ \A i \in 1 .. 1 + 2 : Labelled[i] = IF i <= 1 THEN <<"json">>[i] ELSE Object[i - 1]
  BY <1>1, ObjectIs, ConcatProperties DEF Labelled
<1> QED
  BY <1>2, ObjectIs

LEMMA AmidExtracted ==
    ASSUME NEW text \in Seq(Tokens), AmidOneObject(text)
    PROVE  ExtractJson(text) = Object
<1> DEFINE p == FirstPlace(text, "brace")
<1>1. /\ DOMAIN text = 1 .. Len(text) /\ Len(text) \in Nat
      /\ Places(text, "brace") = {p} /\ LastPlace(text, "brace") = p
      /\ Places(text, "endbrace") = {p + 1} /\ LastPlace(text, "endbrace") = p + 1
      /\ Places(text, "bracket") = {} /\ p > 1 /\ text[p - 1] # "fence"
      /\ JsonFences(text) = {}
  BY OnePlace, PlacesOfText DEF AmidOneObject, HoldsOneObject
<1>2. p \in 1 .. Len(text) /\ p + 1 \in 1 .. Len(text) /\ text[p] = "brace" /\ text[p + 1] = "endbrace"
  BY <1>1, PlacesOfText
<1> HIDE DEF p
<1>3. ~ OpensValue(text)
  <2>1. 1 \in DOMAIN text /\ 1 \notin {p}
    BY <1>1, <1>2
  <2>2. text[1] # "brace" /\ text[1] # "bracket"
    BY <1>1, <2>1, Zenon DEF Places
  <2> QED
    BY <2>2 DEF OpensValue
<1>4. InJsonFence(text) = Unusable
  BY <1>1 DEF InJsonFence
<1>5. InFence(text) = Unusable
  <2> DEFINE open == FirstPlace(text, "fence")
             close == Closing(text, open)
             inner == Between(text, open, close)
  <2> SUFFICES ASSUME Places(text, "fence") # {}, FenceAfter(text, open) # {}
               PROVE  ~ OpensValue(inner)
    BY DEF InFence
  <2>1. open \in Places(text, "fence")
    BY FirstOfPlaces
  <2>2. close \in Places(text, "fence") /\ close > open
    BY <2>1, PlacesOfText, ClosingFence
  <2> HIDE DEF open, close
  <2>3. open \in 1 .. Len(text) /\ text[open] = "fence" /\ close \in 1 .. Len(text)
    BY <2>1, <2>2, PlacesOfText
  <2>4. \A i \in open + 1 .. close - 1 : text[i] \in Tokens
    <3> SUFFICES ASSUME NEW i \in open + 1 .. close - 1 PROVE text[i] \in Tokens
      OBVIOUS
    <3>1. i \in 1 .. Len(text)
      BY <1>1, <2>3
    <3> QED
      BY <3>1, ElementOfSeq
  <2>5. /\ inner \in Seq(Tokens)
        /\ Len(inner) = IF open + 1 <= close - 1 THEN close - 1 - (open + 1) + 1 ELSE 0
        /\ \A i \in 1 .. close - 1 - (open + 1) + 1 : inner[i] = text[open + 1 + i - 1]
    BY <2>3, <2>4, SubSeqProperties DEF Between
  <2>6. inner # <<>> => inner[1] = text[open + 1] /\ open + 1 \in 1 .. Len(text)
    <3> SUFFICES ASSUME inner # <<>> PROVE inner[1] = text[open + 1] /\ open + 1 \in 1 .. Len(text)
      OBVIOUS
    <3>1. Len(inner) # 0
      BY <2>5, EmptySeq
    <3>2. open + 1 <= close - 1
      BY <2>5, <3>1
    <3>3. 1 \in 1 .. close - 1 - (open + 1) + 1 /\ open + 1 + 1 - 1 = open + 1
      BY <2>3, <3>2
    <3>4. inner[1] = text[open + 1]
      BY <2>5, <3>3
    <3> QED
      BY <2>3, <3>2, <3>4
  <2>7. open + 1 \in 1 .. Len(text) => text[open + 1] # "brace" /\ text[open + 1] # "bracket"
    <3> SUFFICES ASSUME open + 1 \in 1 .. Len(text)
                 PROVE  text[open + 1] # "brace" /\ text[open + 1] # "bracket"
      OBVIOUS
    <3>1. text[open + 1] # "bracket"
      BY <1>1 DEF Places
    <3>2. text[open + 1] = "brace" => open + 1 = p
      BY <1>1 DEF Places
    <3>3. open + 1 = p => open = p - 1
      BY <1>1, <1>2, <2>3
    <3> QED
      BY <1>1, <2>3, <3>1, <3>2, <3>3
  <2> QED
    BY <2>6, <2>7 DEF OpensValue
<1>6. Embedded(text, "brace", "endbrace") = SubSeq(text, p, p + 1)
  <2>1. p <= p + 1 /\ p + 1 >= p /\ ~ (p > p + 1) /\ Places(text, "brace") # {} /\ Places(text, "endbrace") # {}
    BY <1>1, <1>2
  <2> QED
    BY <1>1, <2>1 DEF Embedded, p
<1>7. SubSeq(text, p, p + 1) = Object
  <2>1. p \in Int /\ p + 1 \in Int
    BY <1>1, <1>2
  <2> QED
    BY <1>2, <2>1, Embraced
<1> QED
  BY <1>3, <1>4, <1>5, <1>6, <1>7, ObjectIs DEF ExtractJson

LEMMA LengthBetween ==
    ASSUME NEW f \in Int, NEW l \in Int, NEW n \in Nat \ {0},
           n = IF f + 1 <= l - 1 THEN l - 1 - (f + 1) + 1 ELSE 0
    PROVE  l = f + n + 1
  OBVIOUS

LEMMA FencedExtracted ==
    ASSUME NEW text \in Seq(Tokens), FencesOneObject(text)
    PROVE  ExtractJson(text) = Object
<1> DEFINE f == FirstPlace(text, "fence")
           l == LastPlace(text, "fence")
           inner == Between(text, f, l)
<1>1. /\ ~ OpensValue(text) /\ inner \in {Object, <<"json">> \o Object}
      /\ Places(text, "fence") = {f, l} /\ f < l
      /\ f \in 1 .. Len(text) /\ l \in 1 .. Len(text)
      /\ DOMAIN text = 1 .. Len(text) /\ Len(text) \in Nat
  BY TwoPlaces, PlacesOfText DEF FencesOneObject
<1>2. JsonFences(text) \subseteq {f, l} /\ FenceAfter(text, f) = {l} /\ FenceAfter(text, l) = {}
  BY <1>1 DEF JsonFences, FenceAfter
<1>3. Closing(text, f) = l
  BY <1>1, <1>2 DEF Closing
<1>4. /\ Len(inner) = IF f + 1 <= l - 1 THEN l - 1 - (f + 1) + 1 ELSE 0
      /\ \A i \in 1 .. l - 1 - (f + 1) + 1 : inner[i] = text[f + 1 + i - 1]
  <2> HIDE DEF f, l
  <2>1. \A i \in f + 1 .. l - 1 : text[i] \in Tokens
    <3> SUFFICES ASSUME NEW i \in f + 1 .. l - 1 PROVE text[i] \in Tokens
      OBVIOUS
    <3>1. i \in 1 .. Len(text)
      BY <1>1
    <3> QED
      BY <3>1, ElementOfSeq
  <2> QED
    BY <1>1, <2>1, SubSeqProperties DEF Between
<1> HIDE DEF f, l, inner
<1>0. f \in Int /\ l \in Int /\ f < l /\ Len(inner) = IF f + 1 <= l - 1 THEN l - 1 - (f + 1) + 1 ELSE 0
  BY <1>1, <1>4
<1>5. CASE inner = Object
  <2>1. l = f + 3 /\ text[f + 1] = "brace"
    <3>1. Len(inner) = 2 /\ inner[1] = "brace"
      BY <1>5, ObjectIs
    <3>2. l = f + 3
      <4>1. 2 = IF f + 1 <= l - 1 THEN l - 1 - (f + 1) + 1 ELSE 0
        BY <1>0, <3>1, Zenon
      <4>2. l = f + 2 + 1
        BY <1>0, <4>1, LengthBetween
      <4> QED
        BY <1>0, <4>2
    <3>3. 1 \in 1 .. l - 1 - (f + 1) + 1 /\ f + 1 + 1 - 1 = f + 1
      BY <1>1, <3>2
    <3> QED
      BY <1>4, <3>1, <3>2, <3>3
  <2>2. f \notin JsonFences(text)
    BY <2>1 DEF JsonFences
  <2>3. JsonFences(text) = {} \/ JsonFences(text) = {l}
    BY <1>2, <2>2
  <2>4. InJsonFence(text) = Unusable
    <3>1. CASE JsonFences(text) = {}
      BY <3>1 DEF InJsonFence
    <3>2. CASE JsonFences(text) = {l}
      <4>1. (CHOOSE i \in JsonFences(text) : \A k \in JsonFences(text) : i <= k) = l
        BY <1>1, <3>2
      <4> QED
        BY <1>2, <4>1 DEF InJsonFence
    <3> QED
      BY <2>3, <3>1, <3>2
  <2>5. Between(text, f, Closing(text, f)) = Object
    BY <1>3, <1>5 DEF inner
  <2>6. InFence(text) = Object
    BY <1>1, <1>2, <2>5, ObjectIs DEF InFence, f
  <2> QED
    BY <1>1, <2>4, <2>6, ObjectIs DEF ExtractJson
<1>6. CASE inner = <<"json">> \o Object
  <2>1. /\ Len(inner) = 3 /\ inner[1] = "json" /\ inner[2] = "brace" /\ inner[3] = "endbrace"
    BY <1>6, LabelledIs DEF Labelled
  <2>2. l = f + 4
    <3>1. 3 = IF f + 1 <= l - 1 THEN l - 1 - (f + 1) + 1 ELSE 0
      BY <1>0, <2>1, Zenon
    <3>2. l = f + 3 + 1
      BY <1>0, <3>1, LengthBetween
    <3> QED
      BY <1>0, <3>2
  <2>3. text[f + 1] = "json" /\ text[f + 2] = "brace" /\ text[f + 3] = "endbrace"
    <3>1. \A i \in 1 .. 3 : i \in 1 .. l - 1 - (f + 1) + 1 /\ f + 1 + i - 1 = f + i
      BY <1>1, <2>2
    <3>2. \A i \in 1 .. 3 : inner[i] = text[f + i]
      BY <1>4, <3>1
    <3> QED
      BY <2>1, <3>2
  <2>4. f \in JsonFences(text)
    BY <1>1, <2>2, <2>3 DEF JsonFences
  <2>5. (CHOOSE i \in JsonFences(text) : \A k \in JsonFences(text) : i <= k) = f
    <3>1. \A k \in JsonFences(text) : f <= k
      BY <1>1, <1>2
    <3>2. \A i \in JsonFences(text) : (\A k \in JsonFences(text) : i <= k) => i = f
      BY <1>1, <1>2, <2>4
    <3> QED
      BY <2>4, <3>1, <3>2
  <2>6. Between(text, f + 1, l) = SubSeq(text, f + 2, f + 2 + 1)
    <3>1. f + 1 + 1 = f + 2 /\ l - 1 = f + 2 + 1
      BY <1>1, <2>2
    <3> QED
      BY <3>1, Zenon DEF Between
  <2>7. SubSeq(text, f + 2, f + 2 + 1) = Object
    <3>1. f + 2 \in Int /\ f + 2 + 1 \in Int /\ f + 2 + 1 = f + 3
      BY <1>1
    <3> QED
      BY <2>3, <3>1, Embraced
  <2>8. InJsonFence(text) = Object
    BY <1>2, <1>3, <2>4, <2>5, <2>6, <2>7 DEF InJsonFence
  <2> QED
    BY <1>1, <2>8, ObjectIs DEF ExtractJson
<1> QED
  BY <1>1, <1>5, <1>6

Recoverable(text) == text = Object \/ AmidOneObject(text) \/ FencesOneObject(text)

LEMMA RecoverableExtracted ==
    ASSUME NEW text \in Seq(Tokens), Recoverable(text)
    PROVE  ExtractJson(text) = Object
<1>1. CASE text = Object
  BY <1>1, ObjectIs DEF ExtractJson
<1> QED
  BY <1>1, AmidExtracted, FencedExtracted DEF Recoverable

LEMMA NothingToRecover == ~ Recoverable(<<>>)
<1>1. \A token : Places(<<>>, token) = {}
  BY DEF Places
<1>2. Cardinality(Places(<<>>, "brace")) = 0 /\ Cardinality(Places(<<>>, "fence")) = 0
  BY <1>1, FS_EmptySet
<1> QED
  BY <1>2, 0 # 1, 0 # 2, ObjectIs, Zenon DEF Recoverable, AmidOneObject, HoldsOneObject, FencesOneObject

LEMMA NoCallRecovers == ASSUME llm' = NoCall PROVE ObjectRecovered'
<1>1. llm'.text = <<>>
  BY DEF NoCall
<1> QED
  BY <1>1, NothingToRecover DEF ObjectRecovered, Recoverable

\* What a call does to the completion it has.
LEMMA LlmRecovers == ASSUME LlmSound, ObjectRecovered, LlmStep PROVE ObjectRecovered'
<1>1. /\ llm.text \in Completions \cup {<<>>}
      /\ llm.pc \in Asking \cup {"idle", "sleep"} => ~ Recoverable(llm.text)
  BY DEF LlmSound, LlmType, ObjectRecovered, Recoverable, Asking
<1>2. ASSUME \/ llm'.text = <<>>
             \/ llm.pc \in Asking \cup {"idle", "sleep"} /\ llm'.text = llm.text
      PROVE  ObjectRecovered'
  BY <1>1, <1>2, NothingToRecover DEF ObjectRecovered, Recoverable
<1>3. CASE Call
  <2>1. llm'.text = <<>>
    BY <1>3 DEF Call, Return, NoCall
  <2> QED
    BY <1>2, <2>1, Zenon
<1>4. CASE Rejected \/ Wake
  <2>1. llm'.text = llm.text /\ llm.pc \in {"reasoning", "sleep"}
    BY <1>4 DEF Rejected, Wake, LlmSound, LlmType
  <2> QED
    BY <1>2, <2>1 DEF Asking
<1>5. CASE AttemptFails
  <2>1. llm'.text = <<>> \/ (llm'.text = llm.text /\ llm.pc \in Asking)
    BY <1>5 DEF AttemptFails, Return, NoCall, LlmSound, LlmType
  <2>2. llm'.text = <<>> => ObjectRecovered'
    BY <1>2, Zenon
  <2>3. llm'.text = llm.text /\ llm.pc \in Asking => ObjectRecovered'
    BY <1>2
  <2> QED
    BY <2>1, <2>2, <2>3, Zenon
<1>6. ASSUME NEW text \in Completions, Answered(text) PROVE ObjectRecovered'
  <2>1. CASE Recoverable(text)
    <3>1. ExtractJson(text) = Object
      BY <2>1, CompletionsAssumption, RecoverableExtracted
    <3>2. Return("ok", text, Object)
      BY <1>6, <3>1, ObjectIs, ObjectNoScalar DEF Answered
    <3> QED
      BY <3>2 DEF Return, NoCall, ObjectRecovered
  <2>2. CASE ~ Recoverable(text)
    <3>1. llm'.text = text
      BY <1>6 DEF Answered, Return, NoCall
    <3> QED
      BY <2>2, <3>1 DEF ObjectRecovered, Recoverable
  <2> QED
    BY <2>1, <2>2
<1> QED
  BY <1>3, <1>4, <1>5, <1>6 DEF LlmStep

-----------------------------------------------------------------------------
(***************************************************************************)
(* What has been collected                                                 *)
(***************************************************************************)

Pages(s) == {s[i] : i \in 1 .. Len(s)}

LEMMA PagesOfSeq ==
    ASSUME NEW s \in Seq(Urls)
    PROVE  /\ Len(s) \in Nat /\ DOMAIN s = 1 .. Len(s)
           /\ \A i \in 1 .. Len(s) : s[i] \in Urls
           /\ Range(s) = Pages(s)
           /\ Pages(s) \subseteq Urls
<1>1. Len(s) \in Nat /\ DOMAIN s = 1 .. Len(s) /\ \A i \in 1 .. Len(s) : s[i] \in Urls
  BY LenProperties, ElementOfSeq
<1>2. Range(s) = Pages(s)
  BY <1>1, Zenon DEF Range, Pages
<1>3. Pages(s) \subseteq Urls
  BY <1>1, Zenon DEF Pages
<1> QED
  BY <1>1, <1>2, <1>3

LEMMA AppendPage ==
    ASSUME NEW s \in Seq(Urls), NEW u \in Urls, u \notin Pages(s),
           Len(s) = Cardinality(Pages(s))
    PROVE  /\ Append(s, u) \in Seq(Urls)
           /\ Pages(Append(s, u)) = Pages(s) \cup {u}
           /\ Len(Append(s, u)) = Cardinality(Pages(Append(s, u)))
<1>1. /\ Append(s, u) \in Seq(Urls) /\ Len(Append(s, u)) = Len(s) + 1 /\ Len(s) \in Nat
      /\ \A i \in 1 .. Len(s) : Append(s, u)[i] = s[i]
      /\ Append(s, u)[Len(s) + 1] = u
  BY AppendProperties, LenProperties
<1>2. Pages(Append(s, u)) = Pages(s) \cup {u}
  <2>1. Pages(Append(s, u)) = {Append(s, u)[i] : i \in 1 .. Len(s) + 1}
    BY <1>1, Zenon DEF Pages
  <2>2. 1 .. Len(s) + 1 = (1 .. Len(s)) \cup {Len(s) + 1}
    BY <1>1
  <2>3. \A v : v \in Pages(Append(s, u)) => v \in Pages(s) \cup {u}
    BY <1>1, <2>1, <2>2, Zenon DEF Pages
  <2>4. \A v : v \in Pages(s) \cup {u} => v \in Pages(Append(s, u))
    BY <1>1, <2>1, <2>2, Zenon DEF Pages
  <2> QED
    BY <2>3, <2>4, Zenon
<1>3. Pages(s) \subseteq Urls
  BY PagesOfSeq
<1>4. Cardinality(Pages(s) \cup {u}) = Cardinality(Pages(s)) + 1
  BY <1>3, FiniteUrls, FS_AddElement
<1> QED
  BY <1>1, <1>2, <1>4

\* The addresses with a task, the tasks joined and the pages collected, of a run in
\* progress; a run that is over has let go of all of them.
Collecting ==
    /\ \A u \in Urls : task[u].pc # "none" => u \in Listed
    /\ run \notin Finished => \A u \in Listed : task[u].pc # "none"
    /\ joined \subseteq Listed
    /\ \A u \in joined : task[u].pc \in Over
    /\ run \in {"llm", "settle"} => joined = Listed
    /\ inserting # NoUrl <=> run = "insert"
    /\ inserting # NoUrl => inserting \in joined /\ At(inserting, "ok")
    /\ pages \in Seq(Urls)
    /\ Pages(pages) = {u \in joined : At(u, "ok")} \ {inserting}
    /\ Len(pages) = Cardinality(Pages(pages))
    /\ run = "llm" => kind \in {"extract", "scrape"}

RunType ==
    /\ kind \in {"batch", "extract", "search", "scrape"}
    /\ asks \in BOOLEAN
    /\ run \in Finished \cup {"collect", "insert", "llm", "settle"}
    /\ inserting \in Urls \cup {NoUrl}

RunSound == TasksSound /\ LlmSound /\ RunType /\ Collecting

LEMMA ListedUrls == Listed \subseteq Urls
  BY UrlsAssumption DEF Listed, PagesOf

LEMMA RunSoundTypeOK == RunSound => TypeOK
  BY ListedUrls DEF RunSound, TasksSound, LlmSound, RunType, Collecting, TypeOK

LEMMA RunSoundCollected == RunSound => EveryPageCollected
<1> SUFFICES ASSUME RunSound, run \in {"llm", "settle"}
             PROVE  /\ Range(pages) = Scraped
                    /\ Len(pages) = Cardinality(Scraped)
                    /\ \A u \in Listed : task[u].pc \in Over
  BY DEF EveryPageCollected
<1>1. joined = Listed /\ inserting = NoUrl
  BY DEF RunSound, Collecting
<1>2. Pages(pages) = {u \in Listed : task[u].pc = "ok"}
  BY <1>1, ListedUrls, UrlsAssumption DEF RunSound, Collecting, At
<1>3. Scraped = Pages(pages)
  BY <1>2, ListedUrls DEF Scraped, RunSound, Collecting
<1>4. Range(pages) = Pages(pages)
  BY PagesOfSeq DEF RunSound, Collecting
<1> QED
  BY <1>1, <1>3, <1>4 DEF RunSound, Collecting

LEMMA NoPages == Pages(<<>>) = {} /\ Cardinality(Pages(<<>>)) = 0 /\ Len(<<>>) = 0 /\ <<>> \in Seq(Urls)
<1>1. Pages(<<>>) = {}
  BY DEF Pages
<1> QED
  BY <1>1, FS_EmptySet

LEMMA InitRunSound == Init => RunSound
<1> SUFFICES ASSUME Init PROVE RunSound
  OBVIOUS
<1>1. /\ kind \in {"batch", "extract", "search", "scrape"} /\ asks \in BOOLEAN
      /\ run = "collect" /\ joined = {} /\ inserting = NoUrl /\ pages = <<>> /\ llm = NoCall
      /\ respects \in BOOLEAN /\ served \in Rules /\ permits = Parallel /\ cut = {} /\ cache = [h \in Hosts |-> NoFile]
      /\ task = [u \in Urls |->
                    IF u \in Listed THEN [Unspawned EXCEPT !.pc = "permit"] ELSE Unspawned]
  BY DEF Init, SpawnAll, LlmIdle
<1>2. [Unspawned EXCEPT !.pc = "permit"] \in TaskRecord /\ Unspawned \in TaskRecord
      /\ [Unspawned EXCEPT !.pc = "permit"].pc = "permit" /\ Unspawned.pc = "none"
  BY DEF Unspawned, TaskRecord, Live
<1>3. /\ task \in [Urls -> TaskRecord]
      /\ \A u \in Urls : task[u].pc = IF u \in Listed THEN "permit" ELSE "none"
  BY <1>1, <1>2
<1>4. permits \in 0 .. Parallel /\ PermitsConserved
  <2>1. \A u \in Urls : task[u].pc \notin Scraping
    BY <1>3 DEF Scraping
  <2> QED
    BY <1>1, <2>1, NobodyBusy DEF PermitsConserved
<1>5. cache \in [Hosts -> {NoFile} \cup Files] /\ Cardinality(Cached) <= MaxHosts
  <2>1. Cached = {}
    BY <1>1 DEF Cached
  <2> QED
    BY <1>1, <2>1, FS_EmptySet, SizesAssumption
<1>6. TasksSound
  BY <1>1, <1>3, <1>4, <1>5 DEF TasksSound, TasksType, TaskRecord, FilesKnown, RobotsRespected, At
<1>7. LlmSound
  BY <1>1, NoCallType DEF LlmSound, LlmType, NoCall
<1>8. Collecting
  BY <1>1, <1>3, NoPages, ListedUrls DEF Collecting, Finished
<1>9. RunType
  BY <1>1 DEF RunType
<1> QED
  BY <1>6, <1>7, <1>8, <1>9 DEF RunSound

-----------------------------------------------------------------------------
(***************************************************************************)
(* The steps                                                               *)
(***************************************************************************)

LEMMA SameListed == ASSUME UNCHANGED <<kind, asks>> PROVE Listed' = Listed
  BY DEF Listed

LEMMA LeaveSound ==
    ASSUME RunSound, NEW outcome \in Finished, Leave(outcome)
    PROVE  RunSound'
<1>1. /\ run' = outcome /\ DropTasks /\ llm' = NoCall /\ joined' = {} /\ inserting' = NoUrl
      /\ pages' = <<>> /\ UNCHANGED <<kind, asks>>
  BY DEF Leave, Become
<1>2. TasksSound'
  BY <1>1, DropSound DEF RunSound
<1>3. LlmSound'
  BY <1>1, NoCallType DEF LlmSound, LlmType, NoCall
<1>4. \A u \in Urls : task'[u].pc = "none"
  BY <1>1 DEF DropTasks, Unspawned
<1>5. Collecting'
  BY <1>1, <1>4, NoPages DEF Collecting, Finished
<1>6. RunType'
  BY <1>1 DEF RunType, RunSound
<1> QED
  BY <1>2, <1>3, <1>5, <1>6 DEF RunSound

LEMMA JoinFailedSound ==
    ASSUME RunSound, NEW u \in Urls, JoinFailed(u)
    PROVE  RunSound'
<1>1. /\ run = "collect" /\ u \in Listed \ joined /\ task[u].pc \in {"err", "panic"}
      /\ joined' = joined \cup {u}
      /\ UNCHANGED <<taskVars, llm, kind, asks, run, inserting, pages>>
  BY DEF JoinFailed, Join
<1>2. TasksSound' /\ LlmSound' /\ RunType'
  BY <1>1, StillSound DEF RunSound, LlmSound, LlmType, RunType
<1>3. Listed' = Listed /\ task' = task
  BY <1>1, SameListed DEF taskVars
<1>4. {v \in joined' : task[v].pc = "ok"} = {v \in joined : task[v].pc = "ok"}
  BY <1>1
<1>5. Collecting'
  BY <1>1, <1>3, <1>4 DEF Collecting, RunSound, At, Over
<1> QED
  BY <1>2, <1>5 DEF RunSound

LEMMA JoinPageSound ==
    ASSUME RunSound, NEW u \in Urls, JoinPage(u)
    PROVE  RunSound'
<1>1. /\ run = "collect" /\ u \in Listed \ joined /\ task[u].pc = "ok"
      /\ joined' = joined \cup {u}
      /\ UNCHANGED <<taskVars, llm, kind, asks>>
  BY DEF JoinPage, Join
<1>2. TasksSound' /\ LlmSound'
  BY <1>1, StillSound DEF RunSound, LlmSound, LlmType
<1>3. Listed' = Listed /\ task' = task
  BY <1>1, SameListed DEF taskVars
<1>4. inserting = NoUrl /\ u # NoUrl
  BY <1>1, UrlsAssumption DEF RunSound, Collecting
<1>5. /\ Pages(pages) = {v \in joined : task[v].pc = "ok"}
      /\ {v \in joined' : task[v].pc = "ok"} = {v \in joined : task[v].pc = "ok"} \cup {u}
      /\ NoUrl \notin joined' /\ u \notin Pages(pages)
  BY <1>1, <1>4, ListedUrls, UrlsAssumption DEF RunSound, Collecting, At
<1>6. CASE kind = "batch"
  <2>1. run' = "insert" /\ inserting' = u /\ pages' = pages
    BY <1>6 DEF JoinPage, Become
  <2>2. Collecting'
    BY <1>1, <1>3, <1>4, <1>5, <2>1 DEF Collecting, RunSound, At, Over, Finished
  <2>3. RunType'
    BY <1>1, <2>1 DEF RunType, RunSound
  <2> QED
    BY <1>2, <2>2, <2>3 DEF RunSound
<1>7. CASE kind # "batch"
  <2>1. pages' = Append(pages, u) /\ run' = run /\ inserting' = inserting
    BY <1>7 DEF JoinPage
  <2>2. /\ pages' \in Seq(Urls)
        /\ Pages(pages') = Pages(pages) \cup {u}
        /\ Len(pages') = Cardinality(Pages(pages'))
    BY <1>5, <2>1, AppendPage DEF RunSound, Collecting
  <2>3. Pages(pages') = {v \in joined' : task[v].pc = "ok"} \ {NoUrl}
    BY <1>5, <2>2
  <2>4. Collecting'
    BY <1>1, <1>3, <1>4, <2>1, <2>2, <2>3 DEF Collecting, RunSound, At, Over, Finished
  <2>5. RunType'
    BY <1>1, <2>1 DEF RunType, RunSound
  <2> QED
    BY <1>2, <2>4, <2>5 DEF RunSound
<1> QED
  BY <1>6, <1>7

LEMMA InsertedSound == ASSUME RunSound, Inserted PROVE RunSound'
<1>1. /\ run = "insert" /\ run' = "collect" /\ inserting' = NoUrl
      /\ pages' = Append(pages, inserting)
      /\ UNCHANGED <<taskVars, llm, kind, asks, joined>>
  BY DEF Inserted, Become
<1>2. TasksSound' /\ LlmSound' /\ RunType'
  BY <1>1, StillSound DEF RunSound, LlmSound, LlmType, RunType
<1>3. Listed' = Listed /\ task' = task
  BY <1>1, SameListed DEF taskVars
<1>4. /\ inserting \in joined /\ task[inserting].pc = "ok"
      /\ Pages(pages) = {v \in joined : task[v].pc = "ok"} \ {inserting}
  BY <1>1 DEF RunSound, Collecting, At
<1>5. inserting \in Urls /\ NoUrl \notin joined
  BY <1>4, ListedUrls, UrlsAssumption DEF RunSound, Collecting
<1>6. /\ pages' \in Seq(Urls)
      /\ Pages(pages') = Pages(pages) \cup {inserting}
      /\ Len(pages') = Cardinality(Pages(pages'))
  BY <1>1, <1>4, <1>5, AppendPage DEF RunSound, Collecting
<1>7. Pages(pages') = {v \in joined : task[v].pc = "ok"} \ {NoUrl}
  BY <1>4, <1>5, <1>6
<1>8. Collecting'
  BY <1>1, <1>3, <1>6, <1>7 DEF Collecting, RunSound, At, Over, Finished
<1> QED
  BY <1>2, <1>8 DEF RunSound

\* The run goes on to the next stage.
LEMMA GoOnSound ==
    ASSUME RunSound, NEW stage \in {"llm", "settle"}, run' = stage,
           joined = Listed, inserting = NoUrl,
           stage = "llm" => kind \in {"extract", "scrape"}, run \notin Finished,
           UNCHANGED <<taskVars, llm, kind, asks, joined, inserting, pages>>
    PROVE  RunSound'
<1>1. TasksSound' /\ LlmSound' /\ RunType'
  BY StillSound DEF RunSound, LlmSound, LlmType, RunType
<1>2. Listed' = Listed /\ task' = task
  BY SameListed DEF taskVars
<1>3. Collecting'
  BY <1>2 DEF Collecting, RunSound, At, Over
<1> QED
  BY <1>1, <1>3 DEF RunSound

LEMMA ExtractSound == ASSUME RunSound, Extract PROVE RunSound'
<1>1. LlmStep /\ UNCHANGED taskVars /\ UNCHANGED runVars
  BY DEF Extract
<1>2. TasksSound' /\ LlmSound' /\ RunType'
  BY <1>1, StillSound, LlmStepSound DEF RunSound, RunType, runVars
<1>3. Listed' = Listed /\ task' = task
  BY <1>1, SameListed DEF taskVars, runVars
<1>4. Collecting'
  BY <1>1, <1>3 DEF Collecting, RunSound, At, runVars
<1> QED
  BY <1>2, <1>4 DEF RunSound

LEMMA TaskSound == ASSUME RunSound, NEW u \in Urls, Task(u) PROVE RunSound'
<1>1. TaskStep(u) /\ UNCHANGED llm /\ UNCHANGED runVars /\ run \notin Finished
  BY DEF Task
<1>2. TasksSound' /\ LlmSound' /\ RunType'
  BY <1>1, TaskStepSound DEF RunSound, RunType, runVars, LlmSound, LlmType
<1>3. Listed' = Listed
  BY <1>1, SameListed DEF runVars
<1>4. /\ task[u].pc \in Live /\ task'[u].pc # "none"
      /\ \A v \in Urls \ {u} : task'[v] = task[v]
  BY <1>1, TaskMoves DEF RunSound, TasksSound, TasksType, Moves, StageMoves, Scraping, Over, Live
<1>5. u \notin joined
  BY <1>4 DEF RunSound, Collecting, Live, Scraping, Over
<1>6. \A v \in joined : task'[v] = task[v]
  BY <1>4, <1>5, ListedUrls DEF RunSound, Collecting
<1>7. {v \in joined : task'[v].pc = "ok"} = {v \in joined : task[v].pc = "ok"}
  BY <1>6
<1>8. \A v \in Urls : task'[v].pc # "none" <=> task[v].pc # "none"
  BY <1>4 DEF Live, Scraping
<1>9. Collecting /\ UNCHANGED <<kind, run, joined, inserting, pages>>
  BY <1>1 DEF RunSound, runVars
<1>10. inserting # NoUrl => inserting \in joined /\ task'[inserting].pc = "ok"
  BY <1>6, <1>9 DEF Collecting, At
<1>11. Pages(pages) = {v \in joined : task'[v].pc = "ok"} \ {inserting}
  BY <1>7, <1>9 DEF Collecting, At
<1>12. \A v \in joined : task'[v].pc \in Over
  BY <1>6, <1>9 DEF Collecting
<1>13. /\ \A v \in Urls : task'[v].pc # "none" => v \in Listed
       /\ \A v \in Listed : task'[v].pc # "none"
  BY <1>1, <1>8, <1>9, ListedUrls DEF Collecting
<1>14. Collecting'
  BY <1>3, <1>9, <1>10, <1>11, <1>12, <1>13 DEF Collecting, At
<1> QED
  BY <1>2, <1>14 DEF RunSound

LEMMA RunSoundStep == RunSound /\ [Next]_vars => RunSound'
<1> SUFFICES ASSUME RunSound, [Next]_vars PROVE RunSound'
  OBVIOUS
<1>1. ASSUME NEW u \in Urls, JoinFailed(u) PROVE RunSound'
  BY <1>1, JoinFailedSound
<1>2. ASSUME NEW u \in Urls, JoinPage(u) PROVE RunSound'
  BY <1>2, JoinPageSound
<1>3. CASE Inserted
  BY <1>3, InsertedSound
<1>4. CASE InsertFails
  BY <1>4, LeaveSound DEF InsertFails, Finished
<1>5. CASE Collected
  <2>1. \E stage \in {"llm", "settle"} : run' = stage /\ (stage = "llm" => kind = "extract")
    BY <1>5 DEF Collected, Become
  <2> QED
    BY <1>5, <2>1, GoOnSound DEF Collected, RunSound, Collecting, Finished
<1>6. CASE PageReturned
  <2>1. \/ Leave("failed")
        \/ Leave("panic")
        \/ /\ \E stage \in {"llm", "settle"} : run' = stage
           /\ UNCHANGED <<taskVars, llm, kind, asks, joined, inserting, pages>>
    <3>1. run = "collect" /\ joined = Listed /\ kind = "scrape"
      BY <1>6 DEF PageReturned
    <3>2. FirstUrl \in joined
      BY <3>1 DEF Listed
    <3>3. task[FirstUrl].pc \in Over
      BY <3>2 DEF RunSound, Collecting
    <3> QED
      BY <1>6, <3>3 DEF PageReturned, Become, Over, At
  <2>2. run = "collect" /\ joined = Listed /\ kind = "scrape" /\ inserting = NoUrl
    BY <1>6 DEF PageReturned, RunSound, Collecting
  <2>3. CASE Leave("failed")
    BY <2>3, LeaveSound DEF Finished
  <2>4. CASE Leave("panic")
    BY <2>4, LeaveSound DEF Finished
  <2>5. ASSUME NEW stage \in {"llm", "settle"}, run' = stage,
               UNCHANGED <<taskVars, llm, kind, asks, joined, inserting, pages>>
        PROVE  RunSound'
    BY <2>2, <2>5, GoOnSound DEF Finished
  <2> QED
    BY <2>1, <2>3, <2>4, <2>5
<1>7. CASE Extract
  BY <1>7, ExtractSound
<1>8. CASE Extracted
  <2>1. run = "llm" /\ joined = Listed /\ inserting = NoUrl
    BY <1>8 DEF Extracted, RunSound, Collecting
  <2>2. \/ Leave("failed")
        \/ Leave("panic")
        \/ /\ run' = "settle"
           /\ UNCHANGED <<taskVars, llm, kind, asks, joined, inserting, pages>>
    BY <1>8 DEF Extracted, Become
  <2>3. CASE Leave("failed")
    BY <2>3, LeaveSound DEF Finished
  <2>4. CASE Leave("panic")
    BY <2>4, LeaveSound DEF Finished
  <2>5. CASE /\ run' = "settle"
             /\ UNCHANGED <<taskVars, llm, kind, asks, joined, inserting, pages>>
    BY <2>1, <2>5, GoOnSound DEF Finished
  <2> QED
    BY <2>2, <2>3, <2>4, <2>5
<1>9. CASE Settled
  BY <1>9, LeaveSound DEF Settled, Finished
<1>10. CASE Drop
  BY <1>10, LeaveSound DEF Drop, Finished
<1>11. ASSUME NEW u \in Urls, Task(u) PROVE RunSound'
  BY <1>11, TaskSound
<1>12. CASE UNCHANGED vars
  <2>1. UNCHANGED taskVars /\ UNCHANGED llm /\ UNCHANGED runVars
    BY <1>12 DEF vars
  <2>2. TasksSound' /\ LlmSound' /\ RunType'
    BY <2>1, StillSound DEF RunSound, LlmSound, LlmType, RunType, runVars
  <2>3. Listed' = Listed /\ task' = task
    BY <2>1, SameListed DEF taskVars, runVars
  <2>4. Collecting'
    BY <2>1, <2>3 DEF Collecting, RunSound, At, runVars
  <2> QED
    BY <2>2, <2>4 DEF RunSound
<1> QED
  BY <1>1, <1>2, <1>3, <1>4, <1>5, <1>6, <1>7, <1>8, <1>9, <1>10, <1>11, <1>12
  DEF Next, Progress, Collector

LEMMA RunsStaySound == Spec => []RunSound
  BY InitRunSound, RunSoundStep, PTL DEF Spec

-----------------------------------------------------------------------------
(***************************************************************************)
(* The theorems                                                            *)
(***************************************************************************)

\* Every step of a run, of its tasks and of its call of the LLM leaves each variable with
\* a value of its type; in particular the cache of robots files never outgrows its
\* capacity (scraper.rs, fetch_robots_txt).
THEOREM RunsTypeCorrect == Spec => []TypeOK
  BY RunsStaySound, RunSoundTypeOK, PTL

\* However many addresses a run has, and whichever of its tasks fail, panic or are dropped
\* with their JoinSet, the permits and the tasks that scrape make up concurrent_requests
\* (worker.rs run_batch_scrape and run_extract, api.rs search_handler).
THEOREM TaskPermitsConserved == Spec => []PermitsConserved
<1>1. RunSound => PermitsConserved
  BY DEF RunSound, TasksSound
<1> QED
  BY <1>1, RunsStaySound, PTL

\* A page that every robots file of its host forbids is not fetched by a task that has
\* read a file, unless a file of the host once lost its body: true for any number of tasks
\* over one cache of any capacity, and for any files (scraper.rs, check_robots_txt).
THEOREM RobotsAlwaysRespected == Spec => []RobotsRespected
<1>1. RunSound => RobotsRespected
  BY DEF RunSound, TasksSound
<1> QED
  BY <1>1, RunsStaySound, PTL

\* In whatever order the tasks end and however many of them fail or panic, a run that
\* leaves its join_next loop holds the pages that were scraped, each once.
THEOREM PagesCollected == Spec => []EveryPageCollected
  BY RunsStaySound, RunSoundCollected, PTL

\* Whatever else the provider may answer, a completion that is an object, has one amid its
\* prose or one in a fence gives exactly that object, on the first request or on a later one
\* (llm.rs, extract and extract_json).
THEOREM ObjectAlwaysRecovered == Spec => []ObjectRecovered
<1>1. Init => ObjectRecovered
  BY NothingToRecover DEF Init, LlmIdle, NoCall, ObjectRecovered, Recoverable
<1>2. RunSound /\ ObjectRecovered /\ [Next]_vars => ObjectRecovered'
  <2> SUFFICES ASSUME RunSound, ObjectRecovered, [Next]_vars PROVE ObjectRecovered'
    OBVIOUS
  <2>1. ASSUME UNCHANGED llm PROVE ObjectRecovered'
    BY <2>1 DEF ObjectRecovered
  <2>2. ASSUME NEW outcome, Leave(outcome) PROVE ObjectRecovered'
    BY <2>2, NoCallRecovers DEF Leave
  <2>3. CASE Extract
    BY <2>3, LlmRecovers DEF Extract, RunSound
  <2>4. ASSUME NEW u \in Urls, JoinFailed(u) \/ JoinPage(u) \/ Task(u) PROVE ObjectRecovered'
    BY <2>1, <2>4 DEF JoinFailed, JoinPage, Join, Task
  <2>5. CASE Inserted \/ InsertFails \/ Collected
    BY <2>1, <2>2, <2>5 DEF Inserted, InsertFails, Collected
  <2>6. CASE PageReturned
    <3>1. task[FirstUrl].pc \in {"err", "panic", "ok"}
      BY <2>6, UrlsAssumption DEF PageReturned, RunSound, Collecting, Listed, Over
    <3> QED
      BY <2>1, <2>2, <2>6, <3>1 DEF PageReturned, At
  <2>7. CASE Extracted
    BY <2>1, <2>2, <2>7 DEF Extracted
  <2>8. CASE Settled \/ Drop
    BY <2>2, <2>8 DEF Settled, Drop
  <2>9. CASE UNCHANGED vars
    BY <2>1, <2>9 DEF vars
  <2> QED
    BY <2>3, <2>4, <2>5, <2>6, <2>7, <2>8, <2>9 DEF Next, Progress, Collector
<1> QED
  BY <1>1, <1>2, RunsStaySound, PTL DEF Spec


-----------------------------------------------------------------------------
(***************************************************************************)
(* How long a run can last                                                 *)
(***************************************************************************)

\* The steps a task has at most before it, from a stage of its own.
Steps(stage) ==
    CASE stage = "permit"  -> 5
      [] stage = "lookup"  -> 4
      [] stage = "request" -> 3
      [] stage = "store"   -> 2
      [] stage \in {"fetch", "unread"} -> 1
      [] OTHER -> 0

\* How many tasks of t have k steps or more before them.
Behind(t, k) == Cardinality({u \in Urls : Steps(t[u].pc) >= k})

TaskSteps(t) == Behind(t, 1) + Behind(t, 2) + Behind(t, 3) + Behind(t, 4) + Behind(t, 5)

\* The steps the call of the LLM has before it: three to each attempt.
LlmSteps(l) ==
    CASE l.pc = "idle"      -> 3 * RetriesBound + 3
      [] l.pc = "reasoning" -> 3 * (l.retries - l.attempt) + 2
      [] l.pc = "plain"     -> 3 * (l.retries - l.attempt) + 1
      [] l.pc = "sleep"     -> 3 * (l.retries - l.attempt)
      [] OTHER -> 0

\* A page is joined and, in a batch, inserted.
CollectorSteps ==
    2 * Cardinality(Listed \ joined)
    + CASE run = "insert"  -> 4
        [] run = "collect" -> 3
        [] run = "llm"     -> 2
        [] OTHER           -> 1

StepsLeft ==
    IF run \in Finished THEN 0 ELSE TaskSteps(task) + LlmSteps(llm) + CollectorSteps

\* The join_next loop is never stuck: a task is over, at work or about to get a permit.
LoopGoesOn ==
    run = "collect" /\ joined # Listed =>
        \E u \in Listed \ joined :
            task[u].pc \in Over \cup Scraping \/ (At(u, "permit") /\ permits > 0)

\* No step of a run may be undone or repeated without end.
StepsDecrease == [][StepsLeft' < StepsLeft]_vars

LEMMA TaskForward ==
    ASSUME NEW u \in Urls, TasksType, TaskStep(u)
    PROVE  \E stage, file :
              /\ task' = [task EXCEPT ![u] = [pc |-> stage, file |-> file]]
              /\ Steps(stage) < Steps(task[u].pc)
<1> DEFINE Forward(stage, file) ==
              /\ task' = [task EXCEPT ![u] = [pc |-> stage, file |-> file]]
              /\ Steps(stage) < Steps(task[u].pc)
<1>1. ASSUME NEW file, task[u].pc \in {"lookup", "store"}, Decide(u, file)
      PROVE  Forward("err", NoFile) \/ Forward("fetch", NoFile)
  <2>1. Steps("err") < Steps(task[u].pc) /\ Steps("fetch") < Steps(task[u].pc)
    BY <1>1 DEF Steps
  <2> QED
    BY <1>1, <2>1 DEF Decide, End, Goto
<1>2. CASE Acquire(u)
  <2>1. Forward("lookup", NoFile)
    BY <1>2 DEF Acquire, At, Goto, Steps
  <2> QED
    BY <2>1
<1>3. CASE LookUp(u)
  <2>1. task[u].pc = "lookup"
    BY <1>3 DEF LookUp, At
  <2>2. CASE Decide(u, cache[Host(u)])
    BY <1>1, <2>1, <2>2
  <2>3. ASSUME NEW stage \in {"request", "unread", "err"}, Goto(u, stage)
        PROVE  Forward(stage, NoFile)
    BY <2>1, <2>3 DEF Goto, Steps
  <2> QED
    BY <1>3, <2>2, <2>3 DEF LookUp, End
<1>4. CASE RequestAnswered(u)
  <2>1. Forward("store", served[OriginOf[u]])
    BY <1>4 DEF RequestAnswered, At, Read, Steps
  <2> QED
    BY <2>1
<1>5. CASE RequestCutShort(u)
  <2>1. Forward("store", {})
    BY <1>5 DEF RequestCutShort, At, Read, Steps
  <2> QED
    BY <2>1
<1>6. CASE RequestFails(u)
  <2>1. Forward("unread", NoFile)
    BY <1>6 DEF RequestFails, At, Goto, Steps
  <2> QED
    BY <2>1
<1>7. CASE Store(u)
  <2>1. task[u].pc = "store" /\ Decide(u, task[u].file)
    BY <1>7 DEF Store, At
  <2> QED
    BY <1>1, <2>1
<1>8. CASE FetchPage(u) \/ Panic(u)
  <2>1. task[u].pc \in {"fetch", "unread"} /\ \E how \in Over : Goto(u, how)
    BY <1>8 DEF FetchPage, Panic, End, Over
  <2>2. PICK how \in Over : Goto(u, how)
    BY <2>1
  <2>3. Steps(how) = 0 /\ Steps(task[u].pc) = 1
    BY <2>1 DEF Steps, Over
  <2>4. Forward(how, NoFile)
    BY <2>2, <2>3 DEF Goto
  <2> QED
    BY <2>4
<1> QED
  BY <1>2, <1>3, <1>4, <1>5, <1>6, <1>7, <1>8 DEF TaskStep, TaskProgress

LEMMA StepsType == \A stage : Steps(stage) \in 0 .. 5
  BY DEF Steps

LEMMA BehindType == \A t, k : Behind(t, k) \in Nat
  BY FiniteUrls DEF Behind

\* A task that goes forward falls behind fewer of the thresholds.
LEMMA TaskStepsDecrease ==
    ASSUME NEW t, NEW v, NEW u \in Urls,
           \A w \in Urls \ {u} : v[w] = t[w],
           Steps(v[u].pc) < Steps(t[u].pc)
    PROVE  TaskSteps(v) < TaskSteps(t)
<1> DEFINE S(f, k) == {w \in Urls : Steps(f[w].pc) >= k}
<1>1. ASSUME NEW k \in 1 .. 5
      PROVE  Behind(v, k) <= Behind(t, k)
  <2>1. S(v, k) \subseteq S(t, k)
    <3> SUFFICES ASSUME NEW w \in Urls, Steps(v[w].pc) >= k PROVE Steps(t[w].pc) >= k
      OBVIOUS
    <3>1. CASE w = u
      BY <3>1, StepsType
    <3>2. CASE w # u
      BY <3>2
    <3> QED
      BY <3>1, <3>2
  <2>2. IsFiniteSet(S(t, k))
    BY FiniteUrls
  <2>3. Cardinality(S(v, k)) <= Cardinality(S(t, k))
    BY <2>1, <2>2, FS_Subset
  <2> QED
    BY <2>3 DEF Behind
<1>2. PICK k \in 1 .. 5 : k = Steps(t[u].pc)
  BY StepsType
<1>3. Behind(v, k) < Behind(t, k)
  <2>1. u \in S(t, k) /\ u \notin S(v, k) /\ IsFiniteSet(S(t, k)) /\ IsFiniteSet(S(v, k))
    BY <1>2, StepsType, FiniteUrls
  <2>2. S(v, k) \subseteq S(t, k)
    <3> SUFFICES ASSUME NEW w \in Urls, Steps(v[w].pc) >= k PROVE Steps(t[w].pc) >= k
      OBVIOUS
    <3>1. w # u
      BY <1>2, StepsType
    <3> QED
      BY <3>1
  <2>3. Cardinality(S(v, k)) # Cardinality(S(t, k)) /\ Cardinality(S(v, k)) <= Cardinality(S(t, k))
    BY <2>1, <2>2, FS_Subset
  <2>4. Cardinality(S(v, k)) \in Nat /\ Cardinality(S(t, k)) \in Nat
    BY FiniteUrls
  <2> HIDE DEF S
  <2>5. Cardinality(S(v, k)) < Cardinality(S(t, k))
    BY <2>3, <2>4
  <2> QED
    BY <2>5 DEF Behind, S
<1> HIDE DEF S
<1>4. /\ Behind(v, 1) <= Behind(t, 1) /\ Behind(v, 2) <= Behind(t, 2) /\ Behind(v, 3) <= Behind(t, 3)
      /\ Behind(v, 4) <= Behind(t, 4) /\ Behind(v, 5) <= Behind(t, 5)
  BY <1>1
<1>5. k = 1 \/ k = 2 \/ k = 3 \/ k = 4 \/ k = 5
  OBVIOUS
<1>6. \/ Behind(v, 1) < Behind(t, 1) \/ Behind(v, 2) < Behind(t, 2) \/ Behind(v, 3) < Behind(t, 3)
      \/ Behind(v, 4) < Behind(t, 4) \/ Behind(v, 5) < Behind(t, 5)
  BY <1>3, <1>5
<1> QED
  BY <1>4, <1>6, BehindType DEF TaskSteps

\* An attempt is only made while there are any.
LlmTrying == llm.pc \in Asking \cup {"sleep"} => llm.attempt < llm.retries

LEMMA LlmTryingStep == ASSUME LlmSound, LlmTrying, LlmStep PROVE LlmTrying'
<1> USE DEF LlmTrying, Asking
<1>0. /\ llm.attempt \in Int /\ llm.retries \in Int
      /\ llm.pc = "sleep" => llm.attempt + 1 < llm.retries
      /\ llm = [llm EXCEPT !.pc = llm.pc]
  BY DEF LlmSound, LlmType
<1>1. ASSUME NEW how \in Ended, NEW text, NEW data, Return(how, text, data) PROVE LlmTrying'
  BY <1>1 DEF Return, NoCall, Ended
<1>2. CASE Call
  <2>1. PICK retries \in 0 .. RetriesBound, groq \in BOOLEAN :
           IF retries = 0
           THEN Return("error", <<>>, <<>>)
           ELSE llm' = [NoCall EXCEPT !.pc = FirstRequest(groq), !.retries = retries, !.groq = groq]
    BY <1>2 DEF Call
  <2>2. CASE retries = 0
    <3>1. Return("error", <<>>, <<>>)
      BY <2>1, <2>2
    <3> QED
      BY <1>1, <3>1 DEF Ended
  <2>3. CASE retries # 0
    <3>1. llm'.attempt = 0 /\ llm'.retries = retries
      BY <2>1, <2>3 DEF NoCall
    <3> QED
      BY <2>3, <3>1, RetriesAssumption
  <2> QED
    BY <2>2, <2>3
<1>3. CASE Rejected
  BY <1>0, <1>3 DEF Rejected, LlmSound, LlmType
<1>4. CASE AttemptFails
  <2>1. CASE llm.attempt + 1 < llm.retries
    BY <1>0, <1>4, <2>1 DEF AttemptFails, LlmSound, LlmType
  <2>2. CASE ~ (llm.attempt + 1 < llm.retries)
    BY <1>1, <1>4, <2>2 DEF AttemptFails, Ended
  <2> QED
    BY <2>1, <2>2
<1>5. CASE Wake
  <2>1. llm'.attempt = llm.attempt + 1 /\ llm'.retries = llm.retries
    BY <1>5 DEF Wake, LlmSound, LlmType
  <2> QED
    BY <1>0, <1>5, <2>1 DEF Wake
<1>6. ASSUME NEW text \in Completions, Answered(text) PROVE LlmTrying'
  BY <1>1, <1>6 DEF Answered, Ended
<1> QED
  BY <1>2, <1>3, <1>4, <1>5, <1>6 DEF LlmStep

LEMMA LlmStepsNat ==
    ASSUME NEW l, l.attempt \in Nat, l.retries \in Nat,
           l.pc \in Asking \cup {"sleep"} => l.attempt < l.retries
    PROVE  LlmSteps(l) \in Nat
  BY RetriesAssumption DEF LlmSteps, Asking

LEMMA LlmStepsType ==
    ASSUME LlmSound, LlmTrying
    PROVE  /\ LlmSteps(llm) \in Nat
           /\ llm.pc \in Asking \cup {"idle"} => LlmSteps(llm) > 0
           /\ llm.pc = "sleep" => LlmSteps(llm) = 3 * (llm.retries - llm.attempt)
<1>1. /\ llm.attempt \in Nat /\ llm.retries \in Nat
      /\ llm.pc \in Asking \cup {"sleep"} => llm.retries - llm.attempt > 0
  BY RetriesAssumption DEF LlmSound, LlmType, LlmTrying
<1> QED
  BY <1>1, RetriesAssumption DEF LlmSteps, Asking

LEMMA LlmStepsDecrease ==
    ASSUME LlmSound, LlmTrying, LlmStep
    PROVE  LlmSteps(llm)' < LlmSteps(llm)
<1>0. /\ llm.attempt \in Nat /\ llm.retries \in 0 .. RetriesBound
      /\ llm.pc \in Asking \cup {"sleep"} => llm.attempt < llm.retries
  BY RetriesAssumption DEF LlmSound, LlmType, LlmTrying
<1>1. ASSUME NEW how \in Ended, NEW text, NEW data, Return(how, text, data),
             llm.pc \in Asking \cup {"idle"}
      PROVE  LlmSteps(llm)' < LlmSteps(llm)
  <2>1. LlmSteps(llm)' = 0
    BY <1>1 DEF Return, NoCall, Ended, LlmSteps
  <2> QED
    BY <1>1, <2>1, LlmStepsType
<1>2. CASE Call
  <2>1. PICK retries \in 0 .. RetriesBound, groq \in BOOLEAN :
           IF retries = 0
           THEN Return("error", <<>>, <<>>)
           ELSE llm' = [NoCall EXCEPT !.pc = FirstRequest(groq), !.retries = retries, !.groq = groq]
    BY <1>2 DEF Call
  <2>2. CASE retries = 0
    <3>1. Return("error", <<>>, <<>>) /\ llm.pc = "idle"
      BY <1>2, <2>1, <2>2 DEF Call
    <3> QED
      BY <1>1, <3>1 DEF Ended
  <2>3. CASE retries # 0
    <3>1. /\ llm'.attempt = 0 /\ llm'.retries = retries
          /\ llm'.pc \in {"plain", "reasoning"}
      BY <2>1, <2>3 DEF NoCall, FirstRequest
    <3>2. LlmSteps(llm)' <= 3 * retries + 2
      BY <3>1, RetriesAssumption DEF LlmSteps
    <3>3. LlmSteps(llm) = 3 * RetriesBound + 3
      BY <1>2 DEF Call, LlmSteps
    <3>4. LlmSteps(llm)' \in Int
      BY <3>1, RetriesAssumption DEF LlmSteps
    <3> QED
      BY <3>2, <3>3, <3>4, RetriesAssumption
  <2> QED
    BY <2>2, <2>3
<1>3. CASE Rejected
  <2>1. llm.pc = "reasoning" /\ llm'.pc = "plain" /\ llm'.attempt = llm.attempt /\ llm'.retries = llm.retries
    BY <1>3 DEF Rejected, LlmSound, LlmType
  <2> QED
    BY <1>0, <2>1 DEF LlmSteps
<1>4. CASE AttemptFails
  <2>1. CASE llm.attempt + 1 < llm.retries
    <3>1. /\ llm.pc \in Asking /\ llm'.pc = "sleep"
          /\ llm'.attempt = llm.attempt /\ llm'.retries = llm.retries
      BY <1>4, <2>1 DEF AttemptFails, LlmSound, LlmType
    <3> QED
      BY <1>0, <3>1 DEF LlmSteps, Asking
  <2>2. CASE ~ (llm.attempt + 1 < llm.retries)
    BY <1>1, <1>4, <2>2 DEF AttemptFails, Ended
  <2> QED
    BY <2>1, <2>2
<1>5. CASE Wake
  <2>1. /\ llm.pc = "sleep" /\ llm'.attempt = llm.attempt + 1 /\ llm'.retries = llm.retries
        /\ llm'.pc \in {"plain", "reasoning"}
    BY <1>5 DEF Wake, LlmSound, LlmType, FirstRequest
  <2> QED
    BY <1>0, <2>1 DEF LlmSteps
<1>6. ASSUME NEW text \in Completions, Answered(text) PROVE LlmSteps(llm)' < LlmSteps(llm)
  BY <1>1, <1>6 DEF Answered, Ended
<1> QED
  BY <1>2, <1>3, <1>4, <1>5, <1>6 DEF LlmStep

LEMMA LlmTryingInvariant == Spec => []LlmTrying
<1>1. Init => LlmTrying
  BY DEF Init, LlmIdle, NoCall, LlmTrying, Asking
<1>2. ASSUME RunSound, LlmTrying, [Next]_vars PROVE LlmTrying'
  <2>1. ASSUME UNCHANGED llm PROVE LlmTrying'
    BY <1>2, <2>1 DEF LlmTrying
  <2>2. ASSUME NEW outcome, Leave(outcome) PROVE LlmTrying'
    BY <2>2 DEF Leave, NoCall, LlmTrying, Asking
  <2>3. CASE Extract
    BY <1>2, <2>3, LlmTryingStep DEF Extract, RunSound
  <2>4. ASSUME NEW u \in Urls, JoinFailed(u) \/ JoinPage(u) \/ Task(u) PROVE LlmTrying'
    BY <2>1, <2>4 DEF JoinFailed, JoinPage, Join, Task
  <2>5. CASE Inserted \/ InsertFails \/ Collected
    BY <2>1, <2>2, <2>5 DEF Inserted, InsertFails, Collected
  <2>6. CASE PageReturned
    <3>1. task[FirstUrl].pc \in {"err", "panic", "ok"}
      BY <1>2, <2>6, UrlsAssumption DEF PageReturned, RunSound, Collecting, Listed, Over
    <3> QED
      BY <2>1, <2>2, <2>6, <3>1 DEF PageReturned, At
  <2>7. CASE Extracted
    BY <2>1, <2>2, <2>7 DEF Extracted
  <2>8. CASE Settled \/ Drop
    BY <2>2, <2>8 DEF Settled, Drop
  <2>9. CASE UNCHANGED vars
    BY <2>1, <2>9 DEF vars
  <2> QED
    BY <1>2, <2>3, <2>4, <2>5, <2>6, <2>7, <2>8, <2>9 DEF Next, Progress, Collector
<1> QED
  BY <1>1, <1>2, RunsStaySound, PTL DEF Spec

LEMMA StepsLeftType ==
    ASSUME RunSound, LlmTrying
    PROVE  /\ TaskSteps(task) \in Nat /\ LlmSteps(llm) \in Nat
           /\ CollectorSteps \in Nat \ {0} /\ Cardinality(Listed \ joined) \in Nat
           /\ StepsLeft \in Nat
           /\ run \notin Finished => StepsLeft > 0
<1>1. TaskSteps(task) \in Nat
  BY BehindType DEF TaskSteps
<1>2. LlmSteps(llm) \in Nat
  BY LlmStepsType DEF RunSound
<1>3. Cardinality(Listed \ joined) \in Nat
  BY ListedUrls, FiniteUrls
<1>4. CollectorSteps \in Nat \ {0}
  BY <1>3 DEF CollectorSteps
<1> QED
  BY <1>1, <1>2, <1>3, <1>4 DEF StepsLeft

LEMMA OneFewer ==
    ASSUME RunSound, NEW u \in Listed \ joined, UNCHANGED <<kind, asks>>, joined' = joined \cup {u}
    PROVE  Cardinality(Listed \ joined)' = Cardinality(Listed \ joined) - 1
<1>1. (Listed \ joined)' = (Listed \ joined) \ {u}
  BY SameListed
<1>2. IsFiniteSet(Listed \ joined)
  BY ListedUrls, FiniteUrls
<1> QED
  BY <1>1, <1>2, FS_RemoveElement

LEMMA StepTaken ==
    ASSUME RunSound, LlmTrying, Next
    PROVE  StepsLeft' < StepsLeft
<1> USE StepsLeftType
<1>1. ASSUME NEW outcome \in Finished, Leave(outcome), run \notin Finished
      PROVE  StepsLeft' < StepsLeft
  <2>1. StepsLeft' = 0
    BY <1>1 DEF Leave, Become, StepsLeft
  <2> QED
    BY <1>1, <2>1
\* The collector goes on, by itself or with one task less to join.
<1>2. ASSUME UNCHANGED <<task, llm>>, run \notin Finished, run' \notin Finished,
             CollectorSteps' < CollectorSteps, CollectorSteps' \in Nat
      PROVE  StepsLeft' < StepsLeft
  <2>1. TaskSteps(task)' = TaskSteps(task) /\ LlmSteps(llm)' = LlmSteps(llm)
    BY <1>2 DEF TaskSteps, Behind, LlmSteps
  <2> QED
    BY <1>2, <2>1 DEF StepsLeft
<1>3. ASSUME UNCHANGED <<task, llm, kind, asks, joined>>,
             \/ run = "insert" /\ run' = "collect"
             \/ run = "collect" /\ run' \in {"llm", "settle"}
             \/ run = "llm" /\ run' = "settle"
      PROVE  StepsLeft' < StepsLeft
  <2>1. Cardinality(Listed \ joined)' = Cardinality(Listed \ joined)
    BY <1>3, SameListed
  <2>2. CollectorSteps' < CollectorSteps /\ CollectorSteps' \in Nat
    BY <1>3, <2>1 DEF CollectorSteps
  <2> QED
    BY <1>2, <1>3, <2>2 DEF Finished
<1>4. ASSUME NEW u \in Urls, JoinFailed(u) \/ JoinPage(u)
      PROVE  StepsLeft' < StepsLeft
  <2>1. /\ u \in Listed \ joined /\ joined' = joined \cup {u}
        /\ UNCHANGED <<task, llm, kind, asks>>
        /\ run = "collect" /\ run' \in {"collect", "insert"}
    BY <1>4 DEF JoinFailed, JoinPage, Join, Become, taskVars
  <2>2. Cardinality(Listed \ joined)' = Cardinality(Listed \ joined) - 1
    BY <2>1, OneFewer
  <2>3. CollectorSteps' < CollectorSteps /\ CollectorSteps' \in Nat
    <3>1. Cardinality(Listed \ joined)' \in Nat
      <4>1. (Listed \ joined)' \subseteq Urls
        BY <2>1, ListedUrls, SameListed
      <4> QED
        BY <4>1, FiniteUrls
    <3> QED
      BY <2>1, <2>2, <3>1 DEF CollectorSteps
  <2> QED
    BY <1>2, <2>1, <2>3 DEF Finished
<1>5. CASE Inserted \/ Collected
  BY <1>3, <1>5 DEF Inserted, Collected, Become, taskVars
<1>6. CASE PageReturned
  <2>1. task[FirstUrl].pc \in {"err", "panic", "ok"} /\ run \notin Finished
    BY <1>6, UrlsAssumption DEF PageReturned, RunSound, Collecting, Listed, Over, Finished
  <2> QED
    BY <1>1, <1>3, <1>6, <2>1 DEF PageReturned, At, Become, taskVars, Finished
<1>7. CASE Extract
  <2>1. LlmSteps(llm)' < LlmSteps(llm)
    BY <1>7, LlmStepsDecrease DEF Extract, RunSound
  <2>2. LlmSteps(llm)' \in Nat
    <3>1. LlmSound' /\ LlmTrying'
      BY <1>7, LlmStepSound, LlmTryingStep DEF Extract, RunSound
    <3>2. /\ llm'.attempt \in Nat /\ llm'.retries \in Nat
          /\ llm'.pc \in Asking \cup {"sleep"} => llm'.attempt < llm'.retries
      BY <3>1, RetriesAssumption DEF LlmSound, LlmType, LlmTrying
    <3>3. LlmSteps(llm') \in Nat
      BY <3>2, LlmStepsNat
    <3> QED
      BY <3>3
  <2>3. TaskSteps(task)' = TaskSteps(task) /\ CollectorSteps' = CollectorSteps /\ run' = run
        /\ run \notin Finished
    BY <1>7, SameListed DEF Extract, taskVars, runVars, TaskSteps, Behind, CollectorSteps, Finished
  <2> QED
    BY <2>1, <2>2, <2>3 DEF StepsLeft
<1>8. CASE Extracted
  <2>1. run \notin Finished
    BY <1>8 DEF Extracted, Finished
  <2> QED
    BY <1>1, <1>3, <1>8, <2>1 DEF Extracted, Become, taskVars, Finished
<1>9. CASE InsertFails \/ Settled \/ Drop
  <2>1. run \notin Finished /\ \E outcome \in Finished : Leave(outcome)
    BY <1>9 DEF InsertFails, Settled, Drop, Finished
  <2> QED
    BY <1>1, <2>1
<1>10. ASSUME NEW u \in Urls, Task(u) PROVE StepsLeft' < StepsLeft
  <2>1. PICK stage, file :
           /\ task' = [task EXCEPT ![u] = [pc |-> stage, file |-> file]]
           /\ Steps(stage) < Steps(task[u].pc)
    BY <1>10, TaskForward DEF Task, RunSound, TasksSound
  <2>2. Steps(task'[u].pc) < Steps(task[u].pc) /\ \A w \in Urls \ {u} : task'[w] = task[w]
    BY <2>1 DEF RunSound, TasksSound, TasksType
  <2>3. TaskSteps(task') < TaskSteps(task)
    BY <2>2, TaskStepsDecrease
  <2>4. TaskSteps(task)' < TaskSteps(task) /\ TaskSteps(task)' \in Nat
    BY <2>3, BehindType DEF TaskSteps
  <2>5. LlmSteps(llm)' = LlmSteps(llm) /\ CollectorSteps' = CollectorSteps /\ run' = run
        /\ run \notin Finished
    BY <1>10, SameListed DEF Task, runVars, LlmSteps, CollectorSteps
  <2> QED
    BY <2>4, <2>5 DEF StepsLeft
<1> QED
  BY <1>4, <1>5, <1>6, <1>7, <1>8, <1>9, <1>10 DEF Next, Progress, Collector

\* No run goes on for ever, whether or not its job has a timeout: every step, of a task, of
\* the collector or of the call of the LLM, leaves fewer of a number of steps that is known
\* when the run starts (worker.rs and api.rs, the join_next loops; llm.rs, the retries).
THEOREM RunsTakeBoundedSteps == Spec => [](StepsLeft \in Nat) /\ StepsDecrease
<1>1. RunSound /\ LlmTrying => StepsLeft \in Nat
  BY StepsLeftType
<1>2. RunSound /\ LlmTrying /\ [Next]_vars => [StepsLeft' < StepsLeft]_vars
  BY StepTaken
<1> QED
  BY <1>1, <1>2, RunsStaySound, LlmTryingInvariant, PTL DEF Spec, StepsDecrease

\* As long as a task has not been joined, one is over, at work, or next to get one of the
\* permits that are left: tasks that failed or panicked never leave the others waiting for
\* a permit that nobody gives back, and the loop for tasks that cannot start.
THEOREM RunsGoOn == Spec => []LoopGoesOn
<1>1. RunSound => LoopGoesOn
  <2> SUFFICES ASSUME RunSound, run = "collect", joined # Listed
               PROVE  \E u \in Listed \ joined :
                         task[u].pc \in Over \cup Scraping \/ (At(u, "permit") /\ permits > 0)
    BY DEF LoopGoesOn
  <2>1. PICK u \in Listed \ joined : TRUE
    BY DEF RunSound, Collecting
  <2>2. u \in Urls /\ task[u].pc \in Live \cup Over
    BY <2>1, ListedUrls DEF RunSound, Collecting, Finished, TasksSound, TasksType
  <2>3. CASE permits > 0 \/ task[u].pc # "permit"
    BY <2>1, <2>2, <2>3 DEF Live, At
  <2>4. CASE permits <= 0
    <3>1. permits = 0 /\ Cardinality(Busy) = Parallel
      BY <2>4, FiniteUrls, SizesAssumption DEF RunSound, TasksSound, TasksType, PermitsConserved, Busy
    <3>2. PICK v \in Busy : TRUE
      BY <3>1, SizesAssumption, FS_EmptySet
    <3>3. v \in Listed \ joined
      BY <3>2 DEF Busy, Scraping, Over, RunSound, Collecting
    <3> QED
      BY <3>2, <3>3 DEF Busy
  <2> QED
    BY <2>3, <2>4 DEF RunSound, TasksSound, TasksType
<1> QED
  BY <1>1, RunsStaySound, PTL
=============================================================================
