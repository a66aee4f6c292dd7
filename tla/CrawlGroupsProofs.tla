-------------------------- MODULE CrawlGroupsProofs --------------------------
(***************************************************************************)
(* Proofs about CrawlGroups, for any crawls, batches, groups, clients and  *)
(* workers.                                                                *)
(***************************************************************************)
EXTENDS CrawlGroups, TLAPS

(***************************************************************************)
(* Types                                                                   *)
(***************************************************************************)

Row == [status : JobStatus, lock : Workers \cup {NoLock}, stalls : Nat,
        created : Nat, group : Groups \cup {NoGroup}]

RunRecord == [pc : Unsettled \cup {"idle", "webhook", "fail"},
              job : Jobs \cup {NoJob}, group : Groups \cup {NoGroup},
              found : 0 .. MaxPages, done : 0 .. MaxPages]

ClientRecord ==
    [pc : {"idle", "enqueue", "group", "counts", "results", "job", "cancelRows",
           "cancelGroup", "answered"},
     job : Jobs \cup {NoJob}, group : Groups \cup {NoGroup}, read : GroupStatus,
     settled : BOOLEAN, pages : Nat, owed : 0 .. MaxPages]

\* TypeOK without its last conjunct.
Types ==
    /\ rows \in [Jobs -> Row]
    /\ pages \in [Groups -> Nat]
    /\ groups \in [Groups -> GroupStatus]
    /\ run \in [Workers -> RunRecord]
    /\ client \in [Clients -> ClientRecord]
    /\ known \in SUBSET Jobs
    /\ scraped \in [Groups -> 0 .. MaxPages]
    /\ sealed \in [Groups -> 0 .. MaxPages]
    /\ crashes \in 0 .. MaxCrashes

Closed == {"completed", "cancelled"}

LEMMA IdleTypes == IdleRun \in RunRecord /\ IdleClient \in ClientRecord
  BY BoundsAssumption DEF IdleRun, IdleClient, RunRecord, ClientRecord, GroupStatus

-----------------------------------------------------------------------------
(***************************************************************************)
(* The steps, by what they write                                           *)
(***************************************************************************)

\* Requests that only read, or end: nothing but the client's own record changes.
Reads(c) ==
    \/ \E j \in Batches : AskBatch(c, j)
    \/ \E g \in Groups : GetGroup(c, g) \/ DeleteGroup(c, g)
    \/ ReadGroup(c) \/ ReadCounts(c) \/ ReadResults(c) \/ GetJobRefused(c)
    \/ RequestFails(c) \/ NextRequest(c)

\* Stages in which a request is about a group.
OfGroup == {"group", "counts", "results", "cancelRows", "cancelGroup", "answered"}

\* What a request has read so far, and what is owed to it.
AskedType ==
    \A c \in Clients : client[c].pc \in OfGroup => client[c].group \in Groups

LEMMA ReadsShape ==
    ASSUME Types, AskedType, NEW c \in Clients, Reads(c)
    PROVE  /\ UNCHANGED <<rows, pages, groups, run, known, history, crashes>>
           /\ client' \in [Clients -> ClientRecord]
           /\ client'[c].pc # "enqueue"
           /\ client'[c].pc \in OfGroup => client'[c].group \in Groups
           /\ \A d \in Clients \ {c} : client'[d] = client[d]
<1>1. \A r \in ClientRecord :
         client' = [client EXCEPT ![c] = r] =>
            /\ client' \in [Clients -> ClientRecord]
            /\ client'[c] = r
            /\ \A d \in Clients \ {c} : client'[d] = client[d]
  BY DEF Types
<1>2. client[c] \in ClientRecord
  BY DEF Types
<1>3. CASE \/ \E j \in Batches : AskBatch(c, j)
           \/ \E g \in Groups : GetGroup(c, g) \/ DeleteGroup(c, g)
  <2>1. PICK stage \in {"job", "group", "cancelRows"}, j \in Jobs \cup {NoJob},
             g \in Groups \cup {NoGroup} :
           /\ Begin(c, stage, j, g)
           /\ stage # "job" => g \in Groups
           /\ UNCHANGED <<rows, pages, groups, run, known, history, crashes>>
    BY <1>3 DEF AskBatch, GetGroup, DeleteGroup, Jobs
  <2> DEFINE r == [IdleClient EXCEPT !.pc = stage, !.job = j, !.group = g]
  <2>2. r \in ClientRecord /\ r.pc = stage /\ r.group = g
    BY <2>1, IdleTypes DEF ClientRecord, IdleClient
  <2>3. client' = [client EXCEPT ![c] = r]
    BY <2>1 DEF Begin
  <2> QED
    BY <1>1, <2>1, <2>2, <2>3 DEF OfGroup
<1>4. CASE ReadGroup(c)
  <2> DEFINE status == groups[client[c].group]
             due == IF groups[client[c].group] = "completed" THEN sealed[client[c].group] ELSE 0
             r == [client[c] EXCEPT !.pc = "counts", !.read = status, !.owed = due]
  <2>1. client[c].group \in Groups
    BY <1>4 DEF ReadGroup, AskedType, At, OfGroup
  <2>2. status \in GroupStatus /\ due \in 0 .. MaxPages
    BY <2>1, BoundsAssumption DEF Types
  <2>3. client' = [client EXCEPT ![c] = r]
    BY <1>4 DEF ReadGroup
  <2> HIDE DEF status, due
  <2>4. r \in ClientRecord /\ r.pc = "counts" /\ r.group = client[c].group
    BY <1>2, <2>2 DEF ClientRecord
  <2> QED
    BY <1>1, <1>4, <2>1, <2>3, <2>4 DEF ReadGroup
<1>5. CASE ReadCounts(c)
  <2> DEFINE r == [client[c] EXCEPT !.pc = "results", !.settled = SettledIn(client[c].group)]
  <2>1. client[c].group \in Groups
    BY <1>5 DEF ReadCounts, AskedType, At, OfGroup
  <2>2. SettledIn(client[c].group) \in BOOLEAN
    BY DEF SettledIn
  <2>3. r \in ClientRecord /\ r.pc = "results" /\ r.group = client[c].group
    BY <1>2, <2>1, <2>2 DEF ClientRecord
  <2>4. client' = [client EXCEPT ![c] = r]
    BY <1>5 DEF ReadCounts
  <2> QED
    BY <1>1, <1>5, <2>1, <2>3, <2>4 DEF ReadCounts
<1>6. CASE ReadResults(c) /\ Overall(client[c].read, client[c].settled) = "completed"
  <2> DEFINE r == [client[c] EXCEPT !.pc = "answered", !.pages = pages[client[c].group],
                                    !.settled = FALSE]
  <2>1. client[c].group \in Groups
    BY <1>6 DEF ReadResults, AskedType, At, OfGroup
  <2>2. r \in ClientRecord /\ r.pc = "answered" /\ r.group = client[c].group
    BY <1>2, <2>1 DEF Types, ClientRecord
  <2>3. client' = [client EXCEPT ![c] = r]
    BY <1>6 DEF ReadResults
  <2> QED
    BY <1>1, <1>6, <2>1, <2>2, <2>3 DEF ReadResults
<1>7. CASE \/ ReadResults(c) /\ Overall(client[c].read, client[c].settled) # "completed"
           \/ GetJobRefused(c) \/ RequestFails(c) \/ NextRequest(c)
  <2>1. /\ client' = [client EXCEPT ![c] = IdleClient]
        /\ UNCHANGED <<rows, pages, groups, run, known, history, crashes>>
    BY <1>7 DEF ReadResults, GetJobRefused, RequestFails, NextRequest, Done
  <2>2. IdleClient.pc = "idle"
    BY DEF IdleClient
  <2> QED
    BY <1>1, <2>1, <2>2, IdleTypes DEF OfGroup
<1> QED
  BY <1>3, <1>4, <1>5, <1>6, <1>7 DEF Reads

LEMMA FreshShape ==
    ASSUME FreshGroups # {}
    PROVE  FreshGroup \in Groups /\ groups[FreshGroup] = "absent"
  BY DEF FreshGroup, FreshGroups

LEMMA CancelRowsShape ==
    ASSUME NEW r \in [Jobs -> Row], NEW S
    PROVE  /\ CancelRows(r, S) \in [Jobs -> Row]
           /\ \A j \in Jobs :
                 /\ CancelRows(r, S)[j].group = r[j].group
                 /\ CancelRows(r, S)[j].status
                      = IF j \in S /\ r[j].status \in Pending THEN "cancelled" ELSE r[j].status
<1>1. \A j \in Jobs :
         CancelRows(r, S)[j] = IF j \in S /\ r[j].status \in Pending
                               THEN [r[j] EXCEPT !.status = "cancelled", !.lock = NoLock]
                               ELSE r[j]
  BY DEF CancelRows
<1>2. \A j \in Jobs : [r[j] EXCEPT !.status = "cancelled", !.lock = NoLock] \in Row
  BY DEF Row, JobStatus
<1>3. \A j \in Jobs :
         LET x == [r[j] EXCEPT !.status = "cancelled", !.lock = NoLock]
         IN  x.status = "cancelled" /\ x.group = r[j].group
  BY DEF Row
<1>4. CancelRows(r, S) \in [Jobs -> Row]
  BY <1>1, <1>2 DEF CancelRows
<1> QED
  BY <1>1, <1>3, <1>4

LEMMA RequeueRowsShape ==
    ASSUME NEW r \in [Jobs -> Row], NEW S
    PROVE  /\ RequeueRows(r, S) \in [Jobs -> Row]
           /\ \A j \in Jobs :
                 /\ RequeueRows(r, S)[j].group = r[j].group
                 /\ RequeueRows(r, S)[j].status
                      = IF j \in S /\ r[j].status = "active" THEN "queued" ELSE r[j].status
<1> DEFINE Put(x) == [x EXCEPT !.status = "queued", !.lock = NoLock, !.stalls = @ + 1]
<1>1. \A j \in Jobs :
         RequeueRows(r, S)[j] = IF j \in S /\ r[j].status = "active" THEN Put(r[j]) ELSE r[j]
  BY DEF RequeueRows
<1>2. ASSUME NEW x \in Row PROVE Put(x) \in Row /\ Put(x).status = "queued" /\ Put(x).group = x.group
  <2>1. x.stalls + 1 \in Nat
    BY DEF Row
  <2>2. \A n \in Nat :
           LET y == [x EXCEPT !.status = "queued", !.lock = NoLock, !.stalls = n]
           IN  y \in Row /\ y.status = "queued" /\ y.group = x.group
    BY DEF Row, JobStatus
  <2> QED
    BY <2>1, <2>2
<1>3. RequeueRows(r, S) = [j \in Jobs |-> IF j \in S /\ r[j].status = "active" THEN Put(r[j]) ELSE r[j]]
  BY DEF RequeueRows
<1> HIDE DEF Put
<1> QED
  BY <1>1, <1>2, <1>3

LEMMA RecoverShape ==
    ASSUME Types, Recover
    PROVE  /\ rows' \in [Jobs -> Row]
           /\ \A j \in Jobs :
                 /\ rows'[j].group = rows[j].group
                 /\ \/ rows'[j].status = rows[j].status
                    \/ j \in Unattended /\ rows'[j].status = "queued"
                    \/ rows[j].status = "queued" /\ rows'[j].status = "failed"
           /\ UNCHANGED <<pages, groups, run, client, known, history, crashes>>
<1>1. CASE Requeue
  <2>1. rows \in [Jobs -> Row] /\ rows' = RequeueRows(rows, Unattended)
    BY <1>1 DEF Requeue, Types
  <2> QED
    BY <1>1, <2>1, RequeueRowsShape DEF Requeue
<1>2. CASE FailOver
  BY <1>2 DEF FailOver, FailOverRows, Types, Row, JobStatus
<1> QED
  BY <1>1, <1>2 DEF Recover

-----------------------------------------------------------------------------
(***************************************************************************)
(* What the runs and the requests in progress hold on to                   *)
(***************************************************************************)

\* Stages of a run that has a group.
Grouped == {"link", "fetch", "insert", "complete"}

RunType ==
    \A w \in Workers :
        /\ run[w].pc = "idle" <=> run[w].job = NoJob
        /\ run[w].pc \in {"newgroup", "link"} => run[w].job \in Batches
        /\ run[w].pc \in Grouped => run[w].group \in Groups
        /\ run[w].pc \in {"newgroup", "link", "fetch"} => run[w].done = 0
        /\ run[w].done <= run[w].found

\* The row a run is about, and nobody else's.
RunRows ==
    \A w \in Workers :
        run[w].pc # "idle" =>
           /\ rows[run[w].job].status \notin {"absent", "queued"}
           /\ run[w].pc \in Unsettled => rows[run[w].job].status \in {"active", "cancelled"}
           /\ run[w].pc \in {"fetch", "insert", "complete"} =>
                 rows[run[w].job].group = run[w].group
           /\ \A v \in Workers \ {w} : run[v].job # run[w].job

\* The requests that have made a group and will insert the job.
Enqueues ==
    \A c \in Clients :
        client[c].pc = "enqueue" =>
           /\ client[c].job \in Crawls /\ rows[client[c].job].status = "absent"
           /\ client[c].group \in Groups
           /\ \A d \in Clients \ {c} :
                 client[d].pc = "enqueue" => client[d].job # client[c].job

RowGroups ==
    \A j \in Jobs :
        /\ rows[j].status = "absent" => rows[j].group = NoGroup
        /\ j \in Crawls /\ rows[j].status # "absent" => rows[j].group # NoGroup

Sound == Types /\ AskedType /\ RunType /\ RunRows /\ Enqueues /\ RowGroups

LEMMA SoundTypeOK == Sound => TypeOK
  BY DEF Sound, Types, RowGroups, TypeOK, Row, RunRecord, ClientRecord, Jobs

LEMMA InitSound == Init => Sound
<1> SUFFICES ASSUME Init PROVE Sound
  OBVIOUS
<1>1. \A j \in Jobs :
         rows[j] = [status |-> "absent", lock |-> NoLock, stalls |-> 0, created |-> 0,
                    group |-> NoGroup]
  BY DEF Init
<1>2. (\A w \in Workers : run[w] = IdleRun) /\ (\A c \in Clients : client[c] = IdleClient)
  BY DEF Init
<1>3. rows \in [Jobs -> Row]
  BY DEF Init, Row, JobStatus
<1>4. run \in [Workers -> RunRecord] /\ client \in [Clients -> ClientRecord]
  BY IdleTypes DEF Init
<1>5. Types
  BY <1>3, <1>4, BoundsAssumption DEF Init, Types, GroupStatus
<1>6. AskedType /\ RunType /\ RunRows /\ Enqueues
  BY <1>2 DEF AskedType, RunType, RunRows, Enqueues, IdleRun, IdleClient, OfGroup, Grouped
<1>7. RowGroups
  BY <1>1 DEF RowGroups
<1> QED
  BY <1>5, <1>6, <1>7 DEF Sound

-----------------------------------------------------------------------------
(***************************************************************************)
(* Steps of a run                                                          *)
(***************************************************************************)

\* A step that leaves rows and requests alone and takes the run to r.
LEMMA RunMoves ==
    ASSUME Sound, NEW w \in Workers, NEW r \in RunRecord,
           run[w].pc # "idle",
           run' = [run EXCEPT ![w] = r],
           UNCHANGED <<rows, client>>,
           r.pc = "idle" <=> r.job = NoJob,
           r.job \in {run[w].job, NoJob},
           r.pc \in {"newgroup", "link"} => r.job \in Batches,
           r.pc \in Grouped => r.group \in Groups,
           r.pc \in {"newgroup", "link", "fetch"} => r.done = 0,
           r.done <= r.found,
           r.pc \in Unsettled => run[w].pc \in Unsettled,
           r.pc \in {"fetch", "insert", "complete"} => rows[run[w].job].group = r.group
    PROVE  /\ run' \in [Workers -> RunRecord]
           /\ AskedType' /\ RunType' /\ RunRows' /\ Enqueues' /\ RowGroups'
<1>1. /\ run' \in [Workers -> RunRecord]
      /\ run'[w] = r /\ \A v \in Workers \ {w} : run'[v] = run[v]
  BY DEF Sound, Types
<1>2. AskedType' /\ Enqueues' /\ RowGroups'
  BY DEF Sound, AskedType, Enqueues, RowGroups
<1>3. RunType'
  BY <1>1 DEF Sound, RunType
<1>4. run[w].job \in Jobs
  BY DEF Sound, Types, RunType, RunRecord
<1>5. RunRows'
  <2> SUFFICES ASSUME NEW v \in Workers, run'[v].pc # "idle"
               PROVE  /\ rows[run'[v].job].status \notin {"absent", "queued"}
                      /\ run'[v].pc \in Unsettled =>
                            rows[run'[v].job].status \in {"active", "cancelled"}
                      /\ run'[v].pc \in {"fetch", "insert", "complete"} =>
                            rows[run'[v].job].group = run'[v].group
                      /\ \A u \in Workers \ {v} : run'[u].job # run'[v].job
    BY DEF RunRows
  <2>1. CASE v = w
    <3>1. run'[v] = r /\ r.job = run[w].job
      BY <1>1, <2>1
    <3>2. \A u \in Workers \ {v} : run'[u].job # run'[v].job
      BY <1>1, <2>1, <3>1 DEF Sound, RunRows
    <3> QED
      BY <2>1, <3>1, <3>2 DEF Sound, RunRows
  <2>2. CASE v # w
    <3>1. run'[v] = run[v] /\ run[v].job \in Jobs
      BY <1>1, <2>2 DEF Sound, Types, RunType, RunRecord
    <3>2. \A u \in Workers \ {v} : run'[u].job # run'[v].job
      BY <1>1, <2>2, <3>1, NullsAssumption DEF Sound, RunRows, Jobs
    <3> QED
      BY <2>2, <3>1, <3>2 DEF Sound, RunRows
  <2> QED
    BY <2>1, <2>2
<1> QED
  BY <1>1, <1>2, <1>3, <1>5

LEMMA HeldShape ==
    ASSUME Sound, NEW w \in Workers, run[w].pc # "idle"
    PROVE  run[w] \in RunRecord /\ run[w].job \in Jobs /\ run[w].job # NoJob
  BY DEF Sound, Types, RunType, RunRecord

LEMMA NewGroupSound == ASSUME Sound, NEW w \in Workers, NewGroup(w) PROVE Sound'
<1> DEFINE r == [run[w] EXCEPT !.pc = "link", !.group = FreshGroup]
<1>1. run[w].pc = "newgroup" /\ FreshGroup \in Groups
  BY FreshShape DEF NewGroup
<1>2. r \in RunRecord /\ r.pc = "link" /\ r.group = FreshGroup /\ r.job = run[w].job
      /\ r.done = run[w].done /\ r.found = run[w].found
  BY <1>1, HeldShape DEF RunRecord, Unsettled
<1>3. run' = [run EXCEPT ![w] = r] /\ UNCHANGED <<rows, client>>
  BY DEF NewGroup
<1>4. groups' \in [Groups -> GroupStatus]
  BY <1>1 DEF NewGroup, CreateGroup, Sound, Types, GroupStatus
<1>5. run[w].job \in Batches /\ run[w].done = 0 /\ run[w].done <= run[w].found
  BY <1>1 DEF Sound, RunType
<1> HIDE DEF r
<1>6. run' \in [Workers -> RunRecord] /\ AskedType' /\ RunType' /\ RunRows' /\ Enqueues' /\ RowGroups'
  BY <1>1, <1>2, <1>3, <1>5, HeldShape, RunMoves DEF Unsettled
<1> QED
  BY <1>4, <1>6 DEF Sound, Types, NewGroup, history

LEMMA FetchSound == ASSUME Sound, NEW w \in Workers, Fetch(w) PROVE Sound'
<1>1. PICK n \in 0 .. MaxPages :
         /\ run' = [run EXCEPT ![w] = [run[w] EXCEPT !.pc = "insert", !.found = n]]
         /\ scraped' = [scraped EXCEPT ![run[w].group] = n]
  BY DEF Fetch
<1> DEFINE r == [run[w] EXCEPT !.pc = "insert", !.found = n]
<1>2. run[w].pc = "fetch" /\ UNCHANGED <<rows, client>>
  BY DEF Fetch
<1>3. r \in RunRecord /\ r.pc = "insert" /\ r.group = run[w].group /\ r.job = run[w].job
      /\ r.done = run[w].done /\ r.found = n
  BY <1>2, HeldShape DEF RunRecord, Unsettled
<1>4. run[w].done = 0 /\ run[w].group \in Groups /\ rows[run[w].job].group = run[w].group
  BY <1>2 DEF Sound, RunType, RunRows, Grouped
<1>5. scraped' \in [Groups -> 0 .. MaxPages]
  BY <1>1 DEF Sound, Types
<1>6. run' = [run EXCEPT ![w] = r]
  BY <1>1
<1> HIDE DEF r
<1>7. run' \in [Workers -> RunRecord] /\ AskedType' /\ RunType' /\ RunRows' /\ Enqueues' /\ RowGroups'
  <2>1. r.done <= r.found
    BY <1>3, <1>4
  <2> QED
    BY <1>2, <1>3, <1>4, <1>6, <2>1, HeldShape, RunMoves DEF Unsettled
<1> QED
  BY <1>5, <1>7 DEF Sound, Types, Fetch

LEMMA InsertSound == ASSUME Sound, NEW w \in Workers, Insert(w) PROVE Sound'
<1> DEFINE r == [run[w] EXCEPT !.done = run[w].done + 1]
<1>1. /\ run[w].pc = "insert" /\ run[w].done < run[w].found /\ UNCHANGED <<rows, client>>
      /\ run' = [run EXCEPT ![w].done = run[w].done + 1]
      /\ pages' = [pages EXCEPT ![run[w].group] = pages[run[w].group] + 1]
  BY DEF Insert
<1>2. run[w].done + 1 \in 0 .. MaxPages /\ run[w].done + 1 <= run[w].found
  BY <1>1, HeldShape, BoundsAssumption DEF RunRecord
<1>3. r \in RunRecord /\ r.pc = "insert" /\ r.group = run[w].group /\ r.job = run[w].job
      /\ r.done = run[w].done + 1 /\ r.found = run[w].found
  BY <1>1, <1>2, HeldShape DEF RunRecord
<1>4. run[w].group \in Groups /\ rows[run[w].job].group = run[w].group
  BY <1>1 DEF Sound, RunType, RunRows, Grouped
<1>5. pages' \in [Groups -> Nat]
  BY <1>1, <1>4 DEF Sound, Types
<1>6. run' = [run EXCEPT ![w] = r]
  BY <1>1 DEF Sound, Types
<1> HIDE DEF r
<1>7. run' \in [Workers -> RunRecord] /\ AskedType' /\ RunType' /\ RunRows' /\ Enqueues' /\ RowGroups'
  BY <1>1, <1>2, <1>3, <1>4, <1>6, HeldShape, RunMoves DEF Unsettled
<1> QED
  BY <1>5, <1>7 DEF Sound, Types, Insert, history

LEMMA SealSound == ASSUME Sound, NEW w \in Workers, Seal(w) PROVE Sound'
<1> DEFINE r == [run[w] EXCEPT !.pc = "complete"]
<1>1. /\ run[w].pc = "insert" /\ UNCHANGED <<rows, client>>
      /\ run' = [run EXCEPT ![w].pc = "complete"]
      /\ groups' = [groups EXCEPT ![run[w].group] = "completed"]
      /\ sealed' = [sealed EXCEPT ![run[w].group] = run[w].found]
  BY DEF Seal, Step, SetGroup
<1>2. r \in RunRecord /\ r.pc = "complete" /\ r.group = run[w].group /\ r.job = run[w].job
      /\ r.done = run[w].done /\ r.found = run[w].found
  BY <1>1, HeldShape DEF RunRecord, Unsettled
<1>3. /\ run[w].group \in Groups /\ rows[run[w].job].group = run[w].group
      /\ run[w].done <= run[w].found /\ run[w].found \in 0 .. MaxPages
  BY <1>1, HeldShape DEF Sound, RunType, RunRows, Grouped, RunRecord
<1>4. groups' \in [Groups -> GroupStatus] /\ sealed' \in [Groups -> 0 .. MaxPages]
  BY <1>1, <1>3 DEF Sound, Types, GroupStatus
<1>5. run' = [run EXCEPT ![w] = r]
  <2>1. run \in [Workers -> RunRecord] /\ run' = [run EXCEPT ![w].pc = "complete"]
    BY DEF Seal, Step, Sound, Types
  <2> QED
    BY <2>1
<1> HIDE DEF r
<1>6. run' \in [Workers -> RunRecord] /\ AskedType' /\ RunType' /\ RunRows' /\ Enqueues' /\ RowGroups'
  <2>1. run[w].pc # "idle" /\ UNCHANGED <<rows, client>>
    BY <1>1
  <2>2. r.pc = "idle" <=> r.job = NoJob
    BY <1>1, <1>2, HeldShape
  <2>3. r.pc \in Unsettled => run[w].pc \in Unsettled
    BY <1>1 DEF Unsettled
  <2> QED
    BY <1>2, <1>3, <1>5, <2>1, <2>2, <2>3, RunMoves
<1> QED
  BY <1>4, <1>6 DEF Sound, Types, Seal

LEMMA BreakSound == ASSUME Sound, NEW w \in Workers, Break(w) PROVE Sound'
<1> DEFINE r == [run[w] EXCEPT !.pc = "fail"]
<1>1. /\ run[w].pc # "idle" /\ UNCHANGED <<rows, client>>
      /\ run' = [run EXCEPT ![w].pc = "fail"]
  BY DEF Break, Step, Unsettled
<1>2. r \in RunRecord /\ r.pc = "fail" /\ r.job = run[w].job
      /\ r.done = run[w].done /\ r.found = run[w].found
  BY <1>1, HeldShape DEF RunRecord
<1>3. run[w].done <= run[w].found
  BY DEF Sound, RunType
<1>4. run' = [run EXCEPT ![w] = r]
  BY <1>1 DEF Sound, Types
<1> HIDE DEF r
<1>5. run' \in [Workers -> RunRecord] /\ AskedType' /\ RunType' /\ RunRows' /\ Enqueues' /\ RowGroups'
  BY <1>1, <1>2, <1>3, <1>4, HeldShape, RunMoves DEF Unsettled, Grouped
<1> QED
  BY <1>5 DEF Sound, Types, Break, history

LEMMA LeaveSound ==
    ASSUME Sound, NEW w \in Workers, Finish(w) \/ Crash(w)
    PROVE  Sound'
<1>1. /\ run[w].pc # "idle" /\ UNCHANGED <<rows, client, pages, groups, known, history>>
      /\ run' = [run EXCEPT ![w] = IdleRun]
  BY DEF Finish, Crash
<1>2. IdleRun.pc = "idle" /\ IdleRun.job = NoJob /\ IdleRun.done <= IdleRun.found
  BY DEF IdleRun
<1>3. crashes' \in 0 .. MaxCrashes
  BY BoundsAssumption DEF Finish, Crash, Sound, Types
<1>4. run' \in [Workers -> RunRecord] /\ AskedType' /\ RunType' /\ RunRows' /\ Enqueues' /\ RowGroups'
  BY <1>1, <1>2, IdleTypes, RunMoves DEF Unsettled, Grouped
<1> QED
  BY <1>1, <1>3, <1>4 DEF Sound, Types, history

\* A record of a run, and of the row of its job, in agreement.
Fits(r, j, row) ==
    /\ r.pc = "idle" <=> r.job = NoJob
    /\ r.job \in {j, NoJob}
    /\ r.pc \in {"newgroup", "link"} => r.job \in Batches
    /\ r.pc \in Grouped => r.group \in Groups
    /\ r.pc \in {"newgroup", "link", "fetch"} => r.done = 0
    /\ r.done <= r.found
    /\ row.status \notin {"absent", "queued"}
    /\ r.pc \in Unsettled => row.status \in {"active", "cancelled"}
    /\ r.pc \in {"fetch", "insert", "complete"} => row.group = r.group

\* A step that writes the row of the job a run holds, and takes the run to r.
LEMMA RunWrites ==
    ASSUME Sound, NEW w \in Workers, NEW r \in RunRecord, NEW j \in Jobs, NEW row \in Row,
           run' = [run EXCEPT ![w] = r],
           rows' = [rows EXCEPT ![j] = row],
           client' = client,
           rows[j].status # "absent",
           \A v \in Workers \ {w} : run[v].job # j,
           Fits(r, j, row),
           j \in Crawls => row.group = rows[j].group
    PROVE  /\ run' \in [Workers -> RunRecord] /\ rows' \in [Jobs -> Row]
           /\ AskedType' /\ RunType' /\ RunRows' /\ Enqueues' /\ RowGroups'
<1>1. /\ run' \in [Workers -> RunRecord]
      /\ run'[w] = r /\ \A v \in Workers \ {w} : run'[v] = run[v]
  BY DEF Sound, Types
<1>2. /\ rows' \in [Jobs -> Row]
      /\ rows'[j] = row /\ \A i \in Jobs \ {j} : rows'[i] = rows[i]
  BY DEF Sound, Types
<1>3. AskedType'
  BY DEF Sound, AskedType
<1>4. RunType'
  BY <1>1 DEF Sound, RunType, Fits
<1>5. RowGroups'
  BY <1>2 DEF Sound, RowGroups, Fits
<1>6. Enqueues'
  BY <1>2 DEF Sound, Enqueues, Jobs
<1>7. RunRows'
  <2> SUFFICES ASSUME NEW v \in Workers, run'[v].pc # "idle"
               PROVE  /\ rows'[run'[v].job].status \notin {"absent", "queued"}
                      /\ run'[v].pc \in Unsettled =>
                            rows'[run'[v].job].status \in {"active", "cancelled"}
                      /\ run'[v].pc \in {"fetch", "insert", "complete"} =>
                            rows'[run'[v].job].group = run'[v].group
                      /\ \A u \in Workers \ {v} : run'[u].job # run'[v].job
    BY DEF RunRows
  <2>1. CASE v = w
    <3>1. run'[v] = r /\ r.job = j
      BY <1>1, <2>1 DEF Fits
    <3>2. \A u \in Workers \ {v} : run'[u].job # run'[v].job
      BY <1>1, <2>1, <3>1, NullsAssumption DEF Jobs
    <3> QED
      BY <1>2, <3>1, <3>2 DEF Fits
  <2>2. CASE v # w
    <3>1. run'[v] = run[v] /\ run[v].job \in Jobs \ {j} /\ rows'[run[v].job] = rows[run[v].job]
      BY <1>1, <1>2, <2>2, HeldShape
    <3>2. \A u \in Workers \ {v} : run'[u].job # run'[v].job
      BY <1>1, <2>2, <3>1, NullsAssumption DEF Sound, RunRows, Jobs, Fits
    <3> QED
      BY <2>2, <3>1, <3>2 DEF Sound, RunRows
  <2> QED
    BY <2>1, <2>2
<1> QED
  BY <1>1, <1>2, <1>3, <1>4, <1>5, <1>6, <1>7

LEMMA ClaimSound ==
    ASSUME Sound, NEW w \in Workers, NEW j \in Jobs, Claim(w, j)
    PROVE  Sound'
<1> DEFINE r == [pc |-> IF j \in Crawls THEN "fetch" ELSE "newgroup",
                 job |-> j, group |-> rows[j].group, found |-> 0, done |-> 0]
           row == [rows[j] EXCEPT !.status = "active", !.lock = w]
<1>1. /\ rows[j].status = "queued" /\ run' = [run EXCEPT ![w] = r]
      /\ UNCHANGED <<pages, groups, client, known, history, crashes>>
  BY DEF Claim
<1>2. rows[j] \in Row
  BY DEF Sound, Types
<1>3. row \in Row /\ row.status = "active" /\ row.group = rows[j].group
  BY <1>2 DEF Row, JobStatus
<1>4. rows' = [rows EXCEPT ![j] = row]
  <2>1. rows \in [Jobs -> Row]
    BY DEF Sound, Types
  <2>2. rows' = ClaimRow(rows, j, w)
    BY DEF Claim
  <2> QED
    BY <2>1, <2>2 DEF ClaimRow
<1>5. r \in RunRecord
  BY <1>2, BoundsAssumption DEF RunRecord, Row, Unsettled
<1>6. j \in Crawls => rows[j].group \in Groups
  BY <1>1, <1>2 DEF Sound, RowGroups, Row
<1>7. \A v \in Workers : run[v].job # j
  BY <1>1, NullsAssumption DEF Sound, RunRows, RunType, Jobs
<1>8. r.pc # "idle" /\ r.job = j /\ j # NoJob /\ r.group = rows[j].group /\ r.done = 0 /\ r.found = 0
      /\ (r.pc \in Grouped => j \in Crawls) /\ (r.pc \in {"newgroup", "link"} => j \in Batches)
  BY NullsAssumption DEF Grouped, Jobs
<1> HIDE DEF r, row
<1>9. /\ run' \in [Workers -> RunRecord] /\ rows' \in [Jobs -> Row]
      /\ AskedType' /\ RunType' /\ RunRows' /\ Enqueues' /\ RowGroups'
  <2>1. Fits(r, j, row)
    BY <1>3, <1>6, <1>8 DEF Fits
  <2>2. run' = [run EXCEPT ![w] = r] /\ client' = client /\ rows[j].status # "absent"
    BY <1>1
  <2> QED
    BY <1>3, <1>4, <1>5, <1>7, <2>1, <2>2, RunWrites
<1> QED
  BY <1>1, <1>9 DEF Sound, Types, history

LEMMA LinkSound == ASSUME Sound, NEW w \in Workers, Link(w) PROVE Sound'
<1> DEFINE j == run[w].job
           r == [run[w] EXCEPT !.pc = "fetch"]
           row == [rows[j] EXCEPT !.group = run[w].group]
<1>1. /\ run[w].pc = "link" /\ run' = [run EXCEPT ![w].pc = "fetch"]
      /\ rows' = [rows EXCEPT ![j].group = run[w].group]
      /\ UNCHANGED <<pages, groups, client, known, history, crashes>>
  BY DEF Link, Step
<1>2. /\ run[w] \in RunRecord /\ j \in Jobs /\ j # NoJob /\ rows[j] \in Row
      /\ run[w].group \in Groups /\ j \in Batches /\ run[w].done = 0 /\ run[w].done <= run[w].found
      /\ rows[j].status \in {"active", "cancelled"}
      /\ \A v \in Workers \ {w} : run[v].job # j
  BY <1>1, HeldShape DEF Sound, Types, RunType, RunRows, Grouped, Unsettled
<1>3. row \in Row /\ row.status = rows[j].status /\ row.group = run[w].group
  BY <1>2 DEF Row
<1>4. r \in RunRecord /\ r.pc = "fetch" /\ r.job = j /\ r.group = run[w].group
      /\ r.done = run[w].done /\ r.found = run[w].found
  BY <1>2 DEF RunRecord, Unsettled
<1>5. rows' = [rows EXCEPT ![j] = row] /\ run' = [run EXCEPT ![w] = r]
  BY <1>1 DEF Sound, Types
<1>6. j \notin Crawls
  BY <1>2, KindsAssumption
<1> HIDE DEF r, row, j
<1>7. /\ run' \in [Workers -> RunRecord] /\ rows' \in [Jobs -> Row]
      /\ AskedType' /\ RunType' /\ RunRows' /\ Enqueues' /\ RowGroups'
  <2>1. Fits(r, j, row)
    BY <1>2, <1>3, <1>4 DEF Fits
  <2>2. client' = client /\ rows[j].status # "absent" /\ j \in Jobs
    BY <1>1, <1>2
  <2>3. \A v \in Workers \ {w} : run[v].job # j
    BY <1>2
  <2> QED
    BY <1>3, <1>4, <1>5, <1>6, <2>1, <2>2, <2>3, RunWrites
<1> QED
  BY <1>1, <1>7 DEF Sound, Types, history

LEMMA SettleSound ==
    ASSUME Sound, NEW w \in Workers, Complete(w) \/ Fail(w)
    PROVE  Sound'
<1> DEFINE j == run[w].job
<1>1. run[w].pc \in {"complete", "fail"}
  BY DEF Complete, Fail
<1>2. /\ run[w] \in RunRecord /\ j \in Jobs /\ j # NoJob /\ rows[j] \in Row
      /\ run[w].done <= run[w].found
      /\ rows[j].status \notin {"absent", "queued"}
      /\ \A v \in Workers \ {w} : run[v].job # j
  BY <1>1, HeldShape DEF Sound, Types, RunType, RunRows
<1>3. PICK status \in {"completed", "failed"}, r \in RunRecord :
         /\ run' = [run EXCEPT ![w] = r]
         /\ rows' = [rows EXCEPT ![j] = [rows[j] EXCEPT !.status = status, !.lock = NoLock]]
         /\ \/ r = IdleRun
            \/ r.pc = "webhook" /\ r.job = j /\ r.done <= r.found
  <2>1. CASE Complete(w)
    <3> DEFINE r == [run[w] EXCEPT !.pc = "webhook"]
    <3>1. run' = [run EXCEPT ![w] = r]
      BY <2>1 DEF Complete, Step, Sound, Types
    <3>2. r \in RunRecord /\ r.pc = "webhook" /\ r.job = j /\ r.done <= r.found
      BY <1>2 DEF RunRecord
    <3>3. rows' = [rows EXCEPT ![j] = [rows[j] EXCEPT !.status = "completed", !.lock = NoLock]]
      <4>1. rows \in [Jobs -> Row] /\ rows' = CompleteRow(rows, j)
        BY <2>1 DEF Complete, Sound, Types
      <4> QED
        BY <1>2, <4>1 DEF CompleteRow
    <3> QED
      BY <3>1, <3>2, <3>3
  <2>2. CASE Fail(w)
    <3>1. rows' = [rows EXCEPT ![j] = [rows[j] EXCEPT !.status = "failed", !.lock = NoLock]]
      <4>1. rows \in [Jobs -> Row] /\ rows' = FailRow(rows, j)
        BY <2>2 DEF Fail, Sound, Types
      <4> QED
        BY <1>2, <4>1 DEF FailRow
    <3>2. run' = [run EXCEPT ![w] = IdleRun]
      BY <2>2 DEF Fail
    <3> QED
      BY <3>1, <3>2, IdleTypes
  <2> QED
    BY <2>1, <2>2
<1> DEFINE row == [rows[j] EXCEPT !.status = status, !.lock = NoLock]
<1>4. row \in Row /\ row.status = status /\ row.group = rows[j].group
  BY <1>2 DEF Row, JobStatus
<1>5. /\ r.pc \notin Unsettled /\ r.pc \notin Grouped /\ r.done <= r.found
      /\ r.pc = "idle" <=> r.job = NoJob
      /\ r.job \in {j, NoJob}
  BY <1>2, <1>3 DEF IdleRun, Unsettled, Grouped
<1>6. UNCHANGED <<pages, groups, client, known, history, crashes>>
  BY DEF Complete, Fail
<1> HIDE DEF row, j
<1>7. /\ run' \in [Workers -> RunRecord] /\ rows' \in [Jobs -> Row]
      /\ AskedType' /\ RunType' /\ RunRows' /\ Enqueues' /\ RowGroups'
  <2>1. rows' = [rows EXCEPT ![j] = row]
    BY <1>3 DEF row
  <2>2. Fits(r, j, row)
    BY <1>4, <1>5 DEF Fits, Unsettled, Grouped
  <2>3. client' = client /\ rows[j].status # "absent" /\ j \in Jobs
    BY <1>2, <1>6
  <2>4. \A v \in Workers \ {w} : run[v].job # j
    BY <1>2
  <2>5. run' = [run EXCEPT ![w] = r]
    BY <1>3
  <2> QED
    BY <1>4, <2>1, <2>2, <2>3, <2>4, <2>5, RunWrites
<1> QED
  BY <1>6, <1>7 DEF Sound, Types, history

-----------------------------------------------------------------------------
(***************************************************************************)
(* Steps of the recovery loop and of the requests                          *)
(***************************************************************************)

\* A step that leaves the runs alone and does no harm to the rows they hold.
LEMMA RunsStay ==
    ASSUME Sound, run' = run,
           \A j \in Jobs : rows[j].status # "absent" =>
              rows'[j].status # "absent" /\ rows'[j].group = rows[j].group,
           \A w \in Workers : run[w].pc # "idle" =>
              /\ rows'[run[w].job].status # "queued"
              /\ run[w].pc \in Unsettled => rows'[run[w].job].status \in {"active", "cancelled"}
    PROVE  RunType' /\ RunRows'
<1>1. RunType'
  BY DEF Sound, RunType
<1>2. RunRows'
  <2> SUFFICES ASSUME NEW w \in Workers, run[w].pc # "idle"
               PROVE  /\ rows'[run[w].job].status \notin {"absent", "queued"}
                      /\ run[w].pc \in Unsettled =>
                            rows'[run[w].job].status \in {"active", "cancelled"}
                      /\ run[w].pc \in {"fetch", "insert", "complete"} =>
                            rows'[run[w].job].group = run[w].group
                      /\ \A v \in Workers \ {w} : run[v].job # run[w].job
    BY DEF RunRows
  <2>1. run[w].job \in Jobs /\ rows[run[w].job].status # "absent"
    BY HeldShape DEF Sound, RunRows
  <2> QED
    BY <2>1 DEF Sound, RunRows
<1> QED
  BY <1>1, <1>2

LEMMA RecoverSound == ASSUME Sound, Recover PROVE Sound'
<1>1. /\ rows' \in [Jobs -> Row]
      /\ \A j \in Jobs :
            /\ rows'[j].group = rows[j].group
            /\ \/ rows'[j].status = rows[j].status
               \/ j \in Unattended /\ rows'[j].status = "queued"
               \/ rows[j].status = "queued" /\ rows'[j].status = "failed"
      /\ UNCHANGED <<pages, groups, run, client, known, history, crashes>>
  BY RecoverShape DEF Sound
<1>2. \A j \in Jobs : (rows[j].status = "absent") <=> (rows'[j].status = "absent")
  BY <1>1 DEF Unattended
<1>3. \A w \in Workers : run[w].pc # "idle" =>
         rows'[run[w].job].status = rows[run[w].job].status
  BY <1>1, HeldShape DEF Unattended, Sound, RunRows
<1>4. RunType' /\ RunRows'
  <2>1. \A w \in Workers : run[w].pc # "idle" =>
           /\ rows'[run[w].job].status # "queued"
           /\ run[w].pc \in Unsettled => rows'[run[w].job].status \in {"active", "cancelled"}
    BY <1>3 DEF Sound, RunRows
  <2> QED
    BY <1>1, <1>2, <2>1, RunsStay
<1>5. AskedType' /\ Enqueues' /\ RowGroups'
  BY <1>1, <1>2 DEF Sound, AskedType, Enqueues, RowGroups, Jobs
<1> QED
  BY <1>1, <1>4, <1>5 DEF Sound, Types, history

LEMMA ReadsSound == ASSUME Sound, NEW c \in Clients, Reads(c) PROVE Sound'
<1>1. /\ UNCHANGED <<rows, pages, groups, run, known, history, crashes>>
      /\ client' \in [Clients -> ClientRecord]
      /\ client'[c].pc # "enqueue"
      /\ client'[c].pc \in OfGroup => client'[c].group \in Groups
      /\ \A d \in Clients \ {c} : client'[d] = client[d]
  BY ReadsShape DEF Sound
<1>2. AskedType' /\ Enqueues'
  BY <1>1 DEF Sound, AskedType, Enqueues
<1>3. RunType' /\ RunRows' /\ RowGroups'
  BY <1>1 DEF Sound, RunType, RunRows, RowGroups
<1> QED
  BY <1>1, <1>2, <1>3 DEF Sound, Types, history

LEMMA PostCrawlSound ==
    ASSUME Sound, NEW c \in Clients, NEW j \in Crawls, PostCrawl(c, j)
    PROVE  Sound'
<1> DEFINE r == [IdleClient EXCEPT !.pc = "enqueue", !.job = j, !.group = FreshGroup]
<1>1. /\ FreshGroup \in Groups /\ groups' = [groups EXCEPT ![FreshGroup] = "active"]
      /\ client' = [client EXCEPT ![c] = r]
      /\ UNCHANGED <<rows, pages, run, known, history, crashes>>
  BY FreshShape DEF PostCrawl, CreateGroup, Begin
<1>2. rows[j].status = "absent" /\ \A d \in Clients : client[d].pc = "enqueue" => client[d].job # j
  BY DEF PostCrawl, CanPost, At, Jobs
<1>3. r \in ClientRecord /\ r.pc = "enqueue" /\ r.job = j /\ r.group = FreshGroup
  BY <1>1, IdleTypes DEF ClientRecord, IdleClient, Jobs
<1> HIDE DEF r
<1>4. /\ client' \in [Clients -> ClientRecord]
      /\ client'[c] = r /\ \A d \in Clients \ {c} : client'[d] = client[d]
  BY <1>1, <1>3 DEF Sound, Types
<1>5. groups' \in [Groups -> GroupStatus]
  BY <1>1 DEF Sound, Types, GroupStatus
<1>6. Enqueues'
  BY <1>1, <1>2, <1>3, <1>4 DEF Sound, Enqueues
<1>7. AskedType' /\ RunType' /\ RunRows' /\ RowGroups'
  BY <1>1, <1>3, <1>4 DEF Sound, AskedType, RunType, RunRows, RowGroups, OfGroup
<1> QED
  BY <1>1, <1>4, <1>5, <1>6, <1>7 DEF Sound, Types, history

\* The row of job j is inserted; only request c may have had it in hand.
LEMMA RowInserted ==
    ASSUME Sound, NEW j \in Jobs, NEW row \in Row,
           rows' = [rows EXCEPT ![j] = row],
           UNCHANGED <<run, client>> \/ (run' = run /\ \E c \in Clients : client[c].pc = "enqueue" /\ client[c].job = j
                                             /\ client' = [client EXCEPT ![c] = IdleClient]),
           rows[j].status = "absent",
           row.status = "queued",
           j \in Crawls => row.group # NoGroup,
           UNCHANGED client => \A d \in Clients : client[d].pc = "enqueue" => client[d].job # j
    PROVE  /\ rows' \in [Jobs -> Row] /\ client' \in [Clients -> ClientRecord]
           /\ AskedType' /\ RunType' /\ RunRows' /\ Enqueues' /\ RowGroups'
<1>1. rows' \in [Jobs -> Row] /\ rows'[j] = row /\ \A i \in Jobs \ {j} : rows'[i] = rows[i]
  BY DEF Sound, Types
<1>2. client' \in [Clients -> ClientRecord]
  BY IdleTypes DEF Sound, Types
<1>3. \A d \in Clients : client'[d].pc # "idle" =>
         client'[d] = client[d] /\ (client[d].pc = "enqueue" => client[d].job # j)
  <2>1. CASE UNCHANGED client
    BY <2>1
  <2>2. CASE \E c \in Clients : /\ client[c].pc = "enqueue" /\ client[c].job = j
                                /\ client' = [client EXCEPT ![c] = IdleClient]
    <3>1. PICK c \in Clients : /\ client[c].pc = "enqueue" /\ client[c].job = j
                               /\ client' = [client EXCEPT ![c] = IdleClient]
      BY <2>2
    <3>2. IdleClient.pc = "idle"
      BY DEF IdleClient
    <3> QED
      BY <3>1, <3>2 DEF Sound, Enqueues, Types
  <2> QED
    BY <2>1, <2>2
<1>4. AskedType'
  BY <1>3 DEF Sound, AskedType, OfGroup
<1>5. Enqueues'
  <2> SUFFICES ASSUME NEW c \in Clients, client'[c].pc = "enqueue"
               PROVE  /\ client'[c].job \in Crawls /\ rows'[client'[c].job].status = "absent"
                      /\ client'[c].group \in Groups
                      /\ \A d \in Clients \ {c} :
                            client'[d].pc = "enqueue" => client'[d].job # client'[c].job
    BY DEF Enqueues
  <2>1. client'[c] = client[c] /\ client[c].job # j
    BY <1>3
  <2>2. client[c].job \in Jobs
    BY <2>1 DEF Sound, Enqueues, Jobs
  <2> QED
    BY <1>1, <1>3, <2>1, <2>2 DEF Sound, Enqueues
<1>6. RunType' /\ RunRows'
  <2>1. \A i \in Jobs : rows[i].status # "absent" => rows'[i] = rows[i]
    BY <1>1
  <2>2. \A w \in Workers : run[w].pc # "idle" =>
           run[w].job \in Jobs /\ rows'[run[w].job] = rows[run[w].job]
    BY <2>1, HeldShape DEF Sound, RunRows
  <2>3. \A w \in Workers : run[w].pc # "idle" =>
           /\ rows'[run[w].job].status # "queued"
           /\ run[w].pc \in Unsettled => rows'[run[w].job].status \in {"active", "cancelled"}
    BY <2>2 DEF Sound, RunRows
  <2>4. run' = run
    OBVIOUS
  <2> QED
    BY <2>1, <2>3, <2>4, RunsStay
<1>7. RowGroups'
  BY <1>1 DEF Sound, RowGroups
<1> QED
  BY <1>1, <1>2, <1>4, <1>5, <1>6, <1>7

LEMMA EnqueueCrawlSound == ASSUME Sound, NEW c \in Clients, EnqueueCrawl(c) PROVE Sound'
<1> DEFINE j == client[c].job
           row == [rows[j] EXCEPT !.status = "queued", !.created = 1, !.group = client[c].group]
<1>1. /\ client[c].pc = "enqueue" /\ client' = [client EXCEPT ![c] = IdleClient]
      /\ known' = known \cup {j}
      /\ UNCHANGED <<pages, groups, run, history, crashes>>
  BY DEF EnqueueCrawl, At, Done
<1>2. j \in Crawls /\ j \in Jobs /\ rows[j].status = "absent" /\ client[c].group \in Groups
      /\ rows[j] \in Row
  BY <1>1 DEF Sound, Enqueues, Jobs, Types
<1>3. row \in Row /\ row.status = "queued" /\ row.group = client[c].group
  BY <1>2 DEF Row, JobStatus
<1>4. rows' = [rows EXCEPT ![j] = row]
  <2>1. /\ rows \in [Jobs -> Row]
        /\ rows' = [EnqueueRow(rows, j, 1) EXCEPT ![j].group = client[c].group]
    BY DEF EnqueueCrawl, Sound, Types
  <2>2. EnqueueRow(rows, j, 1) = [rows EXCEPT ![j] = [rows[j] EXCEPT !.status = "queued", !.created = 1]]
    BY <1>2, <2>1 DEF EnqueueRow
  <2> QED
    BY <1>2, <2>1, <2>2
<1>5. row.group # NoGroup
  BY <1>2, <1>3, NullsAssumption
<1> HIDE DEF row, j
<1>6. /\ rows' \in [Jobs -> Row] /\ client' \in [Clients -> ClientRecord]
      /\ AskedType' /\ RunType' /\ RunRows' /\ Enqueues' /\ RowGroups'
  <2>1. client' # client
    BY <1>1 DEF IdleClient, Sound, Types
  <2>2. run' = run /\ client[c].job = j
    BY <1>1 DEF j
  <2> QED
    BY <1>1, <1>2, <1>3, <1>4, <1>5, <2>1, <2>2, RowInserted
<1> QED
  BY <1>1, <1>2, <1>6 DEF Sound, Types, history

LEMMA PostBatchSound ==
    ASSUME Sound, NEW c \in Clients, NEW j \in Batches, PostBatch(c, j)
    PROVE  Sound'
<1> DEFINE row == [rows[j] EXCEPT !.status = "queued", !.created = 1]
<1>1. /\ known' = known \cup {j}
      /\ UNCHANGED <<pages, groups, run, client, history, crashes>>
  BY DEF PostBatch
<1>2. /\ rows[j].status = "absent" /\ j \in Jobs /\ j \notin Crawls /\ rows[j] \in Row
      /\ \A d \in Clients : client[d].pc = "enqueue" => client[d].job # j
  BY KindsAssumption DEF PostBatch, CanPost, At, Jobs, Sound, Types
<1>3. row \in Row /\ row.status = "queued"
  BY <1>2 DEF Row, JobStatus
<1>4. rows' = [rows EXCEPT ![j] = row]
  BY <1>2 DEF PostBatch, EnqueueRow
<1> HIDE DEF row
<1>5. /\ rows' \in [Jobs -> Row] /\ client' \in [Clients -> ClientRecord]
      /\ AskedType' /\ RunType' /\ RunRows' /\ Enqueues' /\ RowGroups'
  <2>1. UNCHANGED <<run, client>>
    BY <1>1
  <2> QED
    BY <1>2, <1>3, <1>4, <2>1, RowInserted
<1> QED
  BY <1>1, <1>2, <1>5 DEF Sound, Types, history

LEMMA CancelGroupRowsSound == ASSUME Sound, NEW c \in Clients, CancelGroupRows(c) PROVE Sound'
<1> DEFINE S == JobsIn(client[c].group)
           r == [client[c] EXCEPT !.pc = "cancelGroup"]
<1>1. /\ client[c].pc = "cancelRows" /\ rows' = CancelRows(rows, S)
      /\ client' = [client EXCEPT ![c].pc = "cancelGroup"]
      /\ UNCHANGED <<pages, groups, run, known, history, crashes>>
  BY DEF CancelGroupRows, At, Goto
<1>2. client[c] \in ClientRecord /\ client[c].group \in Groups
  BY <1>1 DEF Sound, Types, AskedType, OfGroup
<1>3. r \in ClientRecord /\ r.pc = "cancelGroup" /\ r.group = client[c].group
  BY <1>2 DEF ClientRecord
<1>4. client' = [client EXCEPT ![c] = r]
  BY <1>1 DEF Sound, Types
<1>5. /\ rows' \in [Jobs -> Row]
      /\ \A j \in Jobs :
            /\ rows'[j].group = rows[j].group
            /\ \/ rows'[j].status = rows[j].status
               \/ rows[j].status \in Pending /\ rows'[j].status = "cancelled"
  <2>1. rows \in [Jobs -> Row]
    BY DEF Sound, Types
  <2> HIDE DEF S
  <2> QED
    BY <1>1, <2>1, CancelRowsShape
<1> HIDE DEF r, S
<1>6. /\ client' \in [Clients -> ClientRecord]
      /\ client'[c] = r /\ \A d \in Clients \ {c} : client'[d] = client[d]
  BY <1>3, <1>4 DEF Sound, Types
<1>7. \A j \in Jobs : (rows[j].status = "absent") <=> (rows'[j].status = "absent")
  BY <1>5 DEF Pending
<1>8. RunType' /\ RunRows'
  <2>1. \A w \in Workers : run[w].pc # "idle" =>
           /\ rows'[run[w].job].status # "queued"
           /\ run[w].pc \in Unsettled => rows'[run[w].job].status \in {"active", "cancelled"}
    BY <1>5, HeldShape DEF Sound, RunRows
  <2>2. run' = run
    BY <1>1
  <2> QED
    BY <1>5, <1>7, <2>1, <2>2, RunsStay
<1>9. AskedType' /\ Enqueues'
  BY <1>2, <1>3, <1>6, <1>7 DEF Sound, AskedType, Enqueues, Jobs
<1>10. RowGroups'
  BY <1>5, <1>7 DEF Sound, RowGroups
<1> QED
  BY <1>1, <1>5, <1>6, <1>8, <1>9, <1>10 DEF Sound, Types, history

LEMMA CancelGroupSound == ASSUME Sound, NEW c \in Clients, CancelGroup(c) PROVE Sound'
<1>1. /\ client[c].pc = "cancelGroup" /\ client' = [client EXCEPT ![c] = IdleClient]
      /\ groups' = [groups EXCEPT ![client[c].group] = "cancelled"]
      /\ UNCHANGED <<rows, pages, run, known, history, crashes>>
  BY DEF CancelGroup, At, Done, SetGroup
<1>2. groups' \in [Groups -> GroupStatus]
  BY <1>1 DEF Sound, Types, GroupStatus
<1>3. /\ client' \in [Clients -> ClientRecord]
      /\ client'[c].pc = "idle" /\ \A d \in Clients \ {c} : client'[d] = client[d]
  BY <1>1, IdleTypes DEF Sound, Types, IdleClient
<1>4. AskedType' /\ Enqueues'
  BY <1>1, <1>3 DEF Sound, AskedType, Enqueues, OfGroup
<1>5. RunType' /\ RunRows' /\ RowGroups'
  BY <1>1 DEF Sound, RunType, RunRows, RowGroups
<1> QED
  BY <1>1, <1>2, <1>3, <1>4, <1>5 DEF Sound, Types, history

-----------------------------------------------------------------------------

LEMMA RequestCases ==
    ASSUME NEW c \in Clients, Request(c)
    PROVE  \/ \E j \in Crawls : PostCrawl(c, j)
           \/ \E j \in Batches : PostBatch(c, j)
           \/ EnqueueCrawl(c) \/ CancelGroupRows(c) \/ CancelGroup(c)
           \/ Reads(c)
  BY DEF Request, Reads

LEMMA StutterSound == ASSUME Sound, UNCHANGED vars PROVE Sound'
<1>1. UNCHANGED <<rows, pages, groups, run, client, known, scraped, sealed, crashes>>
  BY DEF vars
<1>2. Types'
  BY <1>1 DEF Sound, Types
<1>3. AskedType' /\ RunType' /\ RunRows' /\ Enqueues' /\ RowGroups'
  BY <1>1 DEF Sound, AskedType, RunType, RunRows, Enqueues, RowGroups
<1> QED
  BY <1>2, <1>3 DEF Sound

LEMMA SoundStep == Sound /\ [Next]_vars => Sound'
<1> SUFFICES ASSUME Sound, [Next]_vars PROVE Sound'
  OBVIOUS
<1>1. ASSUME NEW w \in Workers, Run(w) \/ Crash(w) PROVE Sound'
  BY <1>1, ClaimSound, NewGroupSound, LinkSound, FetchSound, InsertSound, SealSound, SettleSound,
     BreakSound, LeaveSound DEF Run
<1>2. CASE Recover
  BY <1>2, RecoverSound
<1>3. ASSUME NEW c \in Clients, Request(c) PROVE Sound'
  BY <1>3, RequestCases, PostCrawlSound, PostBatchSound, EnqueueCrawlSound,
     CancelGroupRowsSound, CancelGroupSound, ReadsSound
<1>4. CASE UNCHANGED vars
  BY <1>4, StutterSound
<1> QED
  BY <1>1, <1>2, <1>3, <1>4 DEF Next

LEMMA AlwaysSound == Spec => []Sound
  BY InitSound, SoundStep, PTL DEF Spec

\* Rows, groups, runs and requests keep their types, and a crawl's row its group, for any
\* crawls, batches, groups, clients and workers.
THEOREM GroupsTypeCorrect == Spec => []TypeOK
  BY AlwaysSound, SoundTypeOK, PTL

-----------------------------------------------------------------------------
(***************************************************************************)
(* Jobs and the groups they close                                          *)
(***************************************************************************)

\* A run that is about to complete its job has closed its group, and so has the run of
\* each completed job.
ClosedFirst ==
    /\ \A w \in Workers : run[w].pc = "complete" => groups[run[w].group] \in Closed
    /\ \A j \in Jobs :
          rows[j].status = "completed" =>
             rows[j].group \in Groups /\ groups[rows[j].group] \in Closed

\* No statement opens a closed group again.
LEMMA GroupsStayClosed ==
    ASSUME Sound, [Next]_vars, NEW g \in Groups, groups[g] \in Closed
    PROVE  groups'[g] \in Closed
<1>0. groups \in [Groups -> GroupStatus]
  BY DEF Sound, Types
<1>1. CASE UNCHANGED groups
  BY <1>1
<1>2. ASSUME NEW w \in Workers, NewGroup(w) PROVE groups'[g] \in Closed
  BY <1>0, <1>2, FreshShape DEF NewGroup, CreateGroup, Closed
<1>3. ASSUME NEW w \in Workers, Seal(w) PROVE groups'[g] \in Closed
  BY <1>0, <1>3 DEF Seal, SetGroup, Closed
<1>4. ASSUME NEW c \in Clients, NEW j \in Crawls, PostCrawl(c, j) PROVE groups'[g] \in Closed
  BY <1>0, <1>4, FreshShape DEF PostCrawl, CreateGroup, Closed
<1>5. ASSUME NEW c \in Clients, CancelGroup(c) PROVE groups'[g] \in Closed
  BY <1>0, <1>5 DEF CancelGroup, SetGroup, Closed
<1>6. ASSUME NEW w \in Workers, Run(w) \/ Crash(w)
      PROVE  NewGroup(w) \/ Seal(w) \/ UNCHANGED groups
  BY <1>6 DEF Run, Crash, Claim, Link, Fetch, Insert, Complete, Break, Fail, Finish
<1>7. ASSUME Recover PROVE UNCHANGED groups
  BY <1>7 DEF Recover, Requeue, FailOver
<1>8. ASSUME NEW c \in Clients, Request(c)
      PROVE  (\E j \in Crawls : PostCrawl(c, j)) \/ CancelGroup(c) \/ UNCHANGED groups
  BY <1>8, RequestCases, ReadsShape DEF Sound, PostBatch, EnqueueCrawl, CancelGroupRows
<1> QED
  BY <1>1, <1>2, <1>3, <1>4, <1>5, <1>6, <1>7, <1>8 DEF Next, vars

\* What a step does to the row of a job, as far as it can matter to its group.
RowFate(j) ==
    \/ rows'[j].group = rows[j].group /\ rows'[j].status = rows[j].status
    \/ /\ rows'[j].group = rows[j].group
       /\ rows[j].status # "absent" /\ rows'[j].status \notin {"absent", "completed"}
       /\ rows[j].status \in Terminal => rows'[j].status \in Terminal
    \/ /\ \E w \in Workers : Complete(w) /\ run[w].job = j
       /\ rows[j].status # "absent"
       /\ rows'[j].group = rows[j].group /\ rows'[j].status = "completed"
    \/ \E w \in Workers : /\ Link(w) /\ run[w].job = j
                          /\ rows'[j].group = run[w].group
                          /\ rows'[j].status = rows[j].status
                          /\ rows[j].status \in {"active", "cancelled"}
    \/ \E c \in Clients : /\ EnqueueCrawl(c) /\ client[c].job = j
                          /\ rows'[j].group = client[c].group
                          /\ rows[j].status = "absent" /\ rows'[j].status = "queued"
    \/ /\ j \in Batches /\ rows[j].status = "absent" /\ rows'[j].status = "queued"
       /\ rows'[j].group = rows[j].group

LEMMA RowsOfStep ==
    ASSUME Sound, [Next]_vars, NEW j \in Jobs
    PROVE  RowFate(j)
<1>0. rows \in [Jobs -> Row] /\ rows[j] \in Row
  BY DEF Sound, Types
<1>1. CASE UNCHANGED rows
  BY <1>1 DEF RowFate
<1>2. ASSUME NEW w \in Workers, NEW i \in Jobs, Claim(w, i) PROVE RowFate(j)
  <2>1. rows' = ClaimRow(rows, i, w) /\ rows[i].status = "queued"
    BY <1>2 DEF Claim
  <2> QED
    BY <1>0, <2>1 DEF ClaimRow, Row, Terminal, RowFate
<1>3. ASSUME NEW w \in Workers, Complete(w) PROVE RowFate(j)
  <2>1. rows' = CompleteRow(rows, run[w].job) /\ run[w].pc = "complete"
    BY <1>3 DEF Complete
  <2>2. run[w].job \in Jobs /\ rows[run[w].job].status # "absent"
    BY <2>1, HeldShape DEF Sound, RunRows
  <2> QED
    BY <1>0, <1>3, <2>1, <2>2 DEF CompleteRow, Row, RowFate
<1>4. ASSUME NEW w \in Workers, Fail(w) PROVE RowFate(j)
  <2>1. rows' = FailRow(rows, run[w].job) /\ run[w].pc = "fail"
    BY <1>4 DEF Fail
  <2>2. run[w].job \in Jobs /\ rows[run[w].job].status # "absent"
    BY <2>1, HeldShape DEF Sound, RunRows
  <2> QED
    BY <1>0, <2>1, <2>2 DEF FailRow, Row, Terminal, RowFate
<1>5. ASSUME NEW w \in Workers, Link(w) PROVE RowFate(j)
  <2>1. rows' = [rows EXCEPT ![run[w].job].group = run[w].group] /\ run[w].pc = "link"
    BY <1>5 DEF Link
  <2>2. run[w].job \in Jobs /\ rows[run[w].job].status \in {"active", "cancelled"}
    BY <2>1, HeldShape DEF Sound, RunRows, Unsettled
  <2> QED
    BY <1>0, <1>5, <2>1, <2>2 DEF Row, RowFate
<1>6. CASE Recover
  <2>1. /\ rows'[j].group = rows[j].group
        /\ \/ rows'[j].status = rows[j].status
           \/ j \in Unattended /\ rows'[j].status = "queued"
           \/ rows[j].status = "queued" /\ rows'[j].status = "failed"
    BY <1>6, RecoverShape DEF Sound
  <2> QED
    BY <2>1 DEF Unattended, Terminal, RowFate
<1>7. ASSUME NEW c \in Clients, EnqueueCrawl(c) PROVE RowFate(j)
  <2>1. /\ client[c].pc = "enqueue"
        /\ rows' = [EnqueueRow(rows, client[c].job, 1) EXCEPT ![client[c].job].group = client[c].group]
    BY <1>7 DEF EnqueueCrawl, At
  <2>2. client[c].job \in Jobs /\ rows[client[c].job].status = "absent"
    BY <2>1 DEF Sound, Enqueues, Jobs
  <2>3. rows' = [rows EXCEPT ![client[c].job] =
                   [rows[client[c].job] EXCEPT !.status = "queued", !.created = 1, !.group = client[c].group]]
    BY <1>0, <2>1, <2>2 DEF EnqueueRow
  <2> QED
    BY <1>0, <1>7, <2>2, <2>3 DEF Row, RowFate
<1>8. ASSUME NEW c \in Clients, NEW i \in Batches, PostBatch(c, i) PROVE RowFate(j)
  <2>1. rows' = EnqueueRow(rows, i, 1) /\ rows[i].status = "absent" /\ i \in Jobs
    BY <1>8 DEF PostBatch, CanPost, Jobs
  <2> QED
    BY <1>0, <1>8, <2>1 DEF EnqueueRow, Row, RowFate
<1>9. ASSUME NEW c \in Clients, CancelGroupRows(c) PROVE RowFate(j)
  <2>1. rows' = CancelRows(rows, JobsIn(client[c].group))
    BY <1>9 DEF CancelGroupRows
  <2>2. /\ rows'[j].group = rows[j].group
        /\ \/ rows'[j].status = rows[j].status
           \/ rows[j].status \in Pending /\ rows'[j].status = "cancelled"
    BY <1>0, <2>1, CancelRowsShape
  <2> QED
    BY <2>2 DEF Pending, Terminal, RowFate
<1>10. ASSUME NEW w \in Workers, Run(w) \/ Crash(w) PROVE RowFate(j)
  <2>1. \/ \E i \in Jobs : Claim(w, i)
        \/ Complete(w) \/ Fail(w) \/ Link(w) \/ UNCHANGED rows
    BY <1>10 DEF Run, Crash, NewGroup, Fetch, Insert, Seal, Break, Finish
  <2> QED
    BY <1>1, <1>2, <1>3, <1>4, <1>5, <2>1
<1>11. ASSUME NEW c \in Clients, Request(c) PROVE RowFate(j)
  <2>1. \/ EnqueueCrawl(c) \/ CancelGroupRows(c) \/ UNCHANGED rows
        \/ \E i \in Batches : PostBatch(c, i)
    BY <1>11, RequestCases, ReadsShape DEF Sound, PostCrawl, CancelGroup
  <2> QED
    BY <1>1, <1>7, <1>8, <1>9, <2>1
<1> QED
  BY <1>1, <1>6, <1>10, <1>11 DEF Next, vars

\* A run comes to complete its job only by marking its group.
LEMMA CompletesAfterSeal ==
    ASSUME Sound, [Next]_vars, NEW w \in Workers, run'[w].pc = "complete"
    PROVE  run'[w].group = run[w].group /\ (run[w].pc = "complete" \/ Seal(w))
<1>1. CASE UNCHANGED run
  BY <1>1
<1>2. ASSUME NEW v \in Workers, v # w, Run(v) \/ Crash(v) PROVE run'[w] = run[w]
  BY <1>2 DEF Run, Crash, Claim, NewGroup, Link, Fetch, Insert, Seal, Complete, Break, Fail,
              Finish, Step, Sound, Types
<1>3. CASE Seal(w)
  BY <1>3 DEF Seal, Step, Sound, Types, RunRecord
<1>4. ASSUME Run(w) \/ Crash(w) PROVE Seal(w)
  <2>1. run \in [Workers -> RunRecord]
    BY DEF Sound, Types
  <2>2. ASSUME NEW j \in Jobs, Claim(w, j) PROVE FALSE
    BY <2>1, <2>2 DEF Claim
  <2>3. CASE NewGroup(w) \/ Fetch(w) \/ Insert(w)
    BY <2>1, <2>3 DEF NewGroup, Fetch, Insert, RunRecord
  <2>4. CASE Link(w) \/ Complete(w) \/ Break(w)
    BY <2>1, <2>4 DEF Link, Complete, Break, Step, RunRecord
  <2>5. CASE Fail(w) \/ Finish(w) \/ Crash(w)
    BY <2>1, <2>5 DEF Fail, Finish, Crash, IdleRun
  <2> QED
    BY <1>4, <2>2, <2>3, <2>4, <2>5 DEF Run
<1>5. CASE Recover
  BY <1>1, <1>5 DEF Recover, Requeue, FailOver
<1>6. ASSUME NEW c \in Clients, Request(c) PROVE UNCHANGED run
  BY <1>6, RequestCases, ReadsShape
     DEF Sound, PostCrawl, PostBatch, EnqueueCrawl, CancelGroupRows, CancelGroup
<1> QED
  BY <1>1, <1>2, <1>3, <1>4, <1>5, <1>6 DEF Next, vars

LEMMA ClosedFirstStep == Sound /\ ClosedFirst /\ [Next]_vars => ClosedFirst'
<1> SUFFICES ASSUME Sound, ClosedFirst, [Next]_vars PROVE ClosedFirst'
  OBVIOUS
<1>1. ASSUME NEW w \in Workers, run'[w].pc = "complete" PROVE groups'[run'[w].group] \in Closed
  <2>1. run'[w].group = run[w].group /\ (run[w].pc = "complete" \/ Seal(w))
    BY <1>1, CompletesAfterSeal
  <2>2. run[w].pc \in {"insert", "complete"}
    BY <2>1 DEF Seal
  <2>3. run[w].group \in Groups
    BY <2>2 DEF Sound, RunType, Grouped
  <2>4. CASE run[w].pc = "complete"
    BY <2>1, <2>3, <2>4, GroupsStayClosed DEF ClosedFirst
  <2>5. CASE Seal(w)
    BY <2>1, <2>3, <2>5 DEF Seal, SetGroup, Closed, Sound, Types
  <2> QED
    BY <2>1, <2>4, <2>5
<1>2. ASSUME NEW j \in Jobs, rows'[j].status = "completed"
      PROVE  rows'[j].group \in Groups /\ groups'[rows'[j].group] \in Closed
  <2>1. /\ rows'[j].group = rows[j].group
        /\ rows[j].status = "completed" \/ \E w \in Workers : Complete(w) /\ run[w].job = j
    BY <1>2, RowsOfStep DEF RowFate
  <2>2. rows[j].group \in Groups /\ groups[rows[j].group] \in Closed
    <3>1. CASE rows[j].status = "completed"
      BY <3>1 DEF ClosedFirst
    <3>2. ASSUME NEW w \in Workers, Complete(w), run[w].job = j
          PROVE  rows[j].group \in Groups /\ groups[rows[j].group] \in Closed
      BY <3>2 DEF Complete, Sound, RunRows, RunType, Grouped, ClosedFirst
    <3> QED
      BY <2>1, <3>1, <3>2
  <2> QED
    BY <2>1, <2>2, GroupsStayClosed
<1> QED
  BY <1>1, <1>2 DEF ClosedFirst

LEMMA InitClosedFirst == Init => ClosedFirst
  BY DEF Init, ClosedFirst, IdleRun

\* A job row becomes completed only after its group was marked or cancelled, and the group
\* stays so: for any number of crawls, batches, workers, reruns and cancellations.
THEOREM CompletedJobsCloseGroups == Spec => []CompletedJobClosedItsGroup
<1>1. ClosedFirst => CompletedJobClosedItsGroup
  BY DEF ClosedFirst, CompletedJobClosedItsGroup, Closed
<1> QED
  BY <1>1, AlwaysSound, InitClosedFirst, ClosedFirstStep, PTL DEF Spec

-----------------------------------------------------------------------------
(***************************************************************************)
(* Answers and the pages they hold                                         *)
(***************************************************************************)

\* A group has the pages of the run that marked it, a run has inserted what it counts,
\* and an answer in the making has not promised more than its group has.
PagesHeld ==
    /\ \A g \in Groups : pages[g] >= sealed[g]
    /\ \A w \in Workers : run[w].pc = "insert" => pages[run[w].group] >= run[w].done
    /\ \A c \in Clients :
          client[c].pc \in {"counts", "results"} => pages[client[c].group] >= client[c].owed
    /\ CompletedGroupHoldsItsPages

LEMMA InitPagesHeld == Init => PagesHeld
  BY DEF Init, PagesHeld, IdleRun, IdleClient, CompletedGroupHoldsItsPages, At

\* What a step does to pages and sealed.
LEMMA PagesOfStep ==
    ASSUME Sound, [Next]_vars, NEW g \in Groups
    PROVE  /\ pages'[g] >= pages[g]
           /\ \/ sealed'[g] = sealed[g]
              \/ \E w \in Workers : Seal(w) /\ g = run[w].group /\ sealed'[g] = run[w].found
<1>0. pages \in [Groups -> Nat] /\ sealed \in [Groups -> 0 .. MaxPages]
  BY DEF Sound, Types
<1>1. CASE UNCHANGED <<pages, sealed>>
  BY <1>0, <1>1
<1>2. ASSUME NEW w \in Workers, Insert(w)
      PROVE  pages'[g] >= pages[g] /\ sealed'[g] = sealed[g]
  BY <1>0, <1>2 DEF Insert, history
<1>3. ASSUME NEW w \in Workers, Seal(w)
      PROVE  /\ pages'[g] >= pages[g]
             /\ \/ sealed'[g] = sealed[g]
                \/ g = run[w].group /\ sealed'[g] = run[w].found
  BY <1>0, <1>3 DEF Seal
<1>4. ASSUME NEW w \in Workers, Run(w) \/ Crash(w)
      PROVE  Insert(w) \/ Seal(w) \/ UNCHANGED <<pages, sealed>>
  BY <1>4 DEF Run, Crash, Claim, NewGroup, Link, Fetch, Complete, Break, Fail, Finish, history
<1>5. CASE Recover
  BY <1>1, <1>5 DEF Recover, Requeue, FailOver, history
<1>6. ASSUME NEW c \in Clients, Request(c) PROVE UNCHANGED <<pages, sealed>>
  BY <1>6, RequestCases, ReadsShape
     DEF Sound, PostCrawl, PostBatch, EnqueueCrawl, CancelGroupRows, CancelGroup, history
<1> QED
  BY <1>1, <1>2, <1>3, <1>4, <1>5, <1>6 DEF Next, vars

\* A run that inserts has just fetched, has just inserted one more page, or has not moved.
LEMMA InsertsOfStep ==
    ASSUME Sound, [Next]_vars, NEW w \in Workers, run'[w].pc = "insert"
    PROVE  /\ run'[w].group = run[w].group
           /\ \/ run'[w].done = run[w].done /\ run[w].pc \in {"fetch", "insert"}
              \/ Insert(w) /\ run'[w].done = run[w].done + 1
<1> DEFINE Shown == /\ run'[w].group = run[w].group
                    /\ \/ run'[w].done = run[w].done /\ run[w].pc \in {"fetch", "insert"}
                       \/ Insert(w) /\ run'[w].done = run[w].done + 1
<1>0. run \in [Workers -> RunRecord]
  BY DEF Sound, Types
<1>1. CASE UNCHANGED run
  BY <1>1
<1>2. ASSUME NEW v \in Workers, v # w, Run(v) \/ Crash(v) PROVE run'[w] = run[w]
  BY <1>2 DEF Run, Crash, Claim, NewGroup, Link, Fetch, Insert, Seal, Complete, Break, Fail,
              Finish, Step, Sound, Types
<1>3. ASSUME Run(w) \/ Crash(w) PROVE Shown
  <2>1. ASSUME NEW j \in Jobs, Claim(w, j) PROVE FALSE
    BY <1>0, <2>1 DEF Claim
  <2>2. CASE NewGroup(w)
    BY <1>0, <2>2 DEF NewGroup, RunRecord
  <2>3. CASE Fetch(w)
    BY <1>0, <2>3 DEF Fetch, RunRecord
  <2>4. CASE Insert(w)
    BY <1>0, <2>4 DEF Insert, RunRecord
  <2>5. CASE Link(w) \/ Seal(w) \/ Complete(w) \/ Break(w)
    BY <1>0, <2>5 DEF Link, Seal, Complete, Break, Step, RunRecord
  <2>6. CASE Fail(w) \/ Finish(w) \/ Crash(w)
    BY <1>0, <2>6 DEF Fail, Finish, Crash, IdleRun
  <2> QED
    BY <1>3, <2>1, <2>2, <2>3, <2>4, <2>5, <2>6 DEF Run
<1>4. CASE Recover
  BY <1>1, <1>4 DEF Recover, Requeue, FailOver
<1>5. ASSUME NEW c \in Clients, Request(c) PROVE UNCHANGED run
  BY <1>5, RequestCases, ReadsShape
     DEF Sound, PostCrawl, PostBatch, EnqueueCrawl, CancelGroupRows, CancelGroup
<1> QED
  BY <1>1, <1>2, <1>3, <1>4, <1>5 DEF Next, vars

\* How a request comes to have read its group, and to have an answer.
AnswerFate(c) ==
    /\ client'[c].pc \in {"counts", "results"} =>
          /\ client'[c].group = client[c].group /\ client[c].pc \in OfGroup
          /\ \/ client[c].pc \in {"counts", "results"} /\ client'[c].owed = client[c].owed
             \/ client'[c].owed \in {0, sealed[client[c].group]}
    /\ client'[c].pc = "answered" =>
          \/ client'[c] = client[c]
          \/ /\ client[c].pc = "results" /\ client'[c].owed = client[c].owed
             /\ client'[c].pages = pages[client[c].group]

LEMMA AnswersOfStep ==
    ASSUME Sound, [Next]_vars, NEW c \in Clients
    PROVE  AnswerFate(c)
<1>0. client \in [Clients -> ClientRecord] /\ client[c] \in ClientRecord
  BY DEF Sound, Types
<1>1. CASE client'[c] = client[c]
  BY <1>1 DEF AnswerFate, OfGroup
<1>2. CASE client'[c].pc \notin {"counts", "results", "answered"}
  BY <1>2 DEF AnswerFate
<1>3. CASE ReadGroup(c)
  <2> DEFINE due == IF groups[client[c].group] = "completed" THEN sealed[client[c].group] ELSE 0
  <2>1. /\ client[c].pc = "group"
        /\ client' = [client EXCEPT ![c] =
              [client[c] EXCEPT !.pc = "counts", !.read = groups[client[c].group], !.owed = due]]
    BY <1>3 DEF ReadGroup, At
  <2>2. due \in {0, sealed[client[c].group]}
    OBVIOUS
  <2> HIDE DEF due
  <2>3. client'[c].pc = "counts" /\ client'[c].group = client[c].group /\ client'[c].owed = due
    BY <1>0, <2>1 DEF ClientRecord
  <2> QED
    BY <2>1, <2>2, <2>3 DEF AnswerFate, OfGroup
<1>4. CASE ReadCounts(c)
  <2>1. /\ client[c].pc = "counts"
        /\ client' = [client EXCEPT ![c] =
              [client[c] EXCEPT !.pc = "results", !.settled = SettledIn(client[c].group)]]
    BY <1>4 DEF ReadCounts, At
  <2>2. /\ client'[c].pc = "results" /\ client'[c].group = client[c].group
        /\ client'[c].owed = client[c].owed
    BY <1>0, <2>1 DEF ClientRecord
  <2> QED
    BY <2>1, <2>2 DEF AnswerFate, OfGroup
<1>5. CASE ReadResults(c) /\ Overall(client[c].read, client[c].settled) = "completed"
  <2>1. /\ client[c].pc = "results"
        /\ client' = [client EXCEPT ![c] =
              [client[c] EXCEPT !.pc = "answered", !.pages = pages[client[c].group], !.settled = FALSE]]
    BY <1>5 DEF ReadResults, At
  <2>2. /\ client'[c].pc = "answered" /\ client'[c].owed = client[c].owed
        /\ client'[c].pages = pages[client[c].group]
    BY <1>0, <2>1 DEF ClientRecord
  <2> QED
    BY <2>1, <2>2 DEF AnswerFate
<1>6. CASE client' = [client EXCEPT ![c] = IdleClient]
  BY <1>0, <1>2, <1>6 DEF IdleClient
<1>7. ASSUME NEW stage \in {"enqueue", "group", "job", "cancelRows"}, NEW j, NEW g, Begin(c, stage, j, g)
      PROVE  AnswerFate(c)
  BY <1>0, <1>2, <1>7 DEF Begin, IdleClient
<1>8. CASE CancelGroupRows(c)
  BY <1>0, <1>2, <1>8 DEF CancelGroupRows, Goto, ClientRecord
<1>9. ASSUME NEW d \in Clients, Request(d) PROVE AnswerFate(c)
  <2>1. CASE d # c
    BY <1>0, <1>1, <1>9, <2>1
       DEF Request, PostCrawl, PostBatch, AskBatch, GetGroup, DeleteGroup, EnqueueCrawl, ReadGroup,
           ReadCounts, ReadResults, GetJobRefused, CancelGroupRows, CancelGroup, RequestFails,
           NextRequest, Begin, Done, Goto
  <2>2. CASE d = c
    <3>1. Request(c)
      BY <1>9, <2>2
    <3>2. \/ \E stage \in {"enqueue", "group", "job", "cancelRows"} : \E j, g : Begin(c, stage, j, g)
          \/ client' = [client EXCEPT ![c] = IdleClient] \/ client'[c] = client[c]
          \/ ReadGroup(c) \/ ReadCounts(c) \/ CancelGroupRows(c)
          \/ ReadResults(c) /\ Overall(client[c].read, client[c].settled) = "completed"
      BY <3>1 DEF Request, PostCrawl, PostBatch, AskBatch, GetGroup, DeleteGroup, EnqueueCrawl,
                  ReadResults, GetJobRefused, CancelGroup, RequestFails, NextRequest, Done
    <3> QED
      BY <1>1, <1>3, <1>4, <1>5, <1>6, <1>7, <1>8, <3>2
  <2> QED
    BY <2>1, <2>2
<1>10. ASSUME NEW w \in Workers, Run(w) \/ Crash(w) PROVE UNCHANGED client
  BY <1>10 DEF Run, Crash, Claim, NewGroup, Link, Fetch, Insert, Seal, Complete, Break, Fail, Finish
<1>11. ASSUME Recover PROVE UNCHANGED client
  BY <1>11 DEF Recover, Requeue, FailOver
<1> QED
  BY <1>1, <1>9, <1>10, <1>11 DEF Next, vars

LEMMA PagesHeldStep == Sound /\ PagesHeld /\ [Next]_vars => PagesHeld'
<1> SUFFICES ASSUME Sound, PagesHeld, [Next]_vars PROVE PagesHeld'
  OBVIOUS
<1>0. /\ pages \in [Groups -> Nat] /\ sealed \in [Groups -> 0 .. MaxPages]
      /\ pages' \in [Groups -> Nat] /\ sealed' \in [Groups -> 0 .. MaxPages]
      /\ run \in [Workers -> RunRecord] /\ client \in [Clients -> ClientRecord]
      /\ client' \in [Clients -> ClientRecord]
  BY SoundStep DEF Sound, Types
<1>1. ASSUME NEW g \in Groups PROVE pages'[g] >= sealed'[g]
  <2>1. pages'[g] >= pages[g] /\ pages[g] >= sealed[g]
    BY PagesOfStep DEF PagesHeld
  <2>2. CASE sealed'[g] = sealed[g]
    BY <1>0, <2>1, <2>2
  <2>3. ASSUME NEW w \in Workers, Seal(w), g = run[w].group, sealed'[g] = run[w].found
        PROVE  pages'[g] >= sealed'[g]
    <3>1. run[w].done = run[w].found /\ pages[g] >= run[w].done
      BY <2>3 DEF Seal, PagesHeld
    <3> QED
      BY <1>0, <2>1, <2>3, <3>1
  <2> QED
    BY <2>2, <2>3, PagesOfStep
<1>2. ASSUME NEW w \in Workers, run'[w].pc = "insert" PROVE pages'[run'[w].group] >= run'[w].done
  <2>1. /\ run'[w].group = run[w].group
        /\ \/ run'[w].done = run[w].done /\ run[w].pc \in {"fetch", "insert"}
           \/ Insert(w) /\ run'[w].done = run[w].done + 1
    BY <1>2, InsertsOfStep
  <2>2. run[w].pc \in {"fetch", "insert"} /\ run[w].group \in Groups /\ run[w].done \in Nat
        /\ (run[w].pc = "fetch" => run[w].done = 0)
    BY <1>0, <2>1 DEF Insert, Sound, RunType, Grouped, RunRecord
  <2>3. pages[run[w].group] >= run[w].done /\ pages'[run[w].group] >= pages[run[w].group]
    BY <1>0, <2>2, PagesOfStep DEF PagesHeld
  <2>4. CASE run'[w].done = run[w].done
    BY <1>0, <2>1, <2>2, <2>3, <2>4
  <2>5. CASE Insert(w) /\ run'[w].done = run[w].done + 1
    <3>1. pages'[run[w].group] = pages[run[w].group] + 1
      BY <1>0, <2>2, <2>5 DEF Insert
    <3> QED
      BY <1>0, <2>1, <2>2, <2>3, <2>5, <3>1
  <2> QED
    BY <2>1, <2>4, <2>5
<1>3. ASSUME NEW c \in Clients, client'[c].pc \in {"counts", "results"}
      PROVE  pages'[client'[c].group] >= client'[c].owed
  <2>1. /\ client'[c].group = client[c].group /\ client[c].pc \in OfGroup
        /\ \/ client[c].pc \in {"counts", "results"} /\ client'[c].owed = client[c].owed
           \/ client'[c].owed \in {0, sealed[client[c].group]}
    BY <1>3, AnswersOfStep DEF AnswerFate
  <2>2. client[c].group \in Groups
    BY <2>1 DEF Sound, AskedType
  <2>3. pages'[client[c].group] >= pages[client[c].group] /\ pages[client[c].group] >= sealed[client[c].group]
    BY <2>2, PagesOfStep DEF PagesHeld
  <2>4. pages[client[c].group] >= client'[c].owed
    BY <1>0, <2>1, <2>2, <2>3 DEF PagesHeld
  <2>5. client'[c].owed \in Nat
    BY <1>0, BoundsAssumption DEF ClientRecord
  <2> QED
    BY <1>0, <2>1, <2>2, <2>3, <2>4, <2>5
<1>4. ASSUME NEW c \in Clients, client'[c].pc = "answered", client'[c].read = "completed"
      PROVE  client'[c].pages >= client'[c].owed
  <2>1. \/ client'[c] = client[c]
        \/ /\ client[c].pc = "results" /\ client'[c].owed = client[c].owed
           /\ client'[c].pages = pages[client[c].group]
    BY <1>4, AnswersOfStep DEF AnswerFate
  <2> QED
    BY <1>4, <2>1 DEF PagesHeld, CompletedGroupHoldsItsPages, At
<1> QED
  BY <1>1, <1>2, <1>3, <1>4 DEF PagesHeld, CompletedGroupHoldsItsPages, At

\* An answer that calls a group completed holds at least the pages of the run that marked
\* it, whatever runs, reruns and cancellations happen between the handler's three reads.
THEOREM AnswersHoldTheirPages == Spec => []CompletedGroupHoldsItsPages
<1>1. PagesHeld => CompletedGroupHoldsItsPages
  BY DEF PagesHeld
<1> QED
  BY <1>1, AlwaysSound, InitPagesHeld, PagesHeldStep, PTL DEF Spec

-----------------------------------------------------------------------------
(***************************************************************************)
(* Crawls that have come to an end                                         *)
(***************************************************************************)

\* A group is made for one job: until a request or a run has put its id into the row of
\* that job, no row has it and nobody else will write it.
GroupsOwned ==
    /\ \A j \in Jobs :
          rows[j].group # NoGroup => rows[j].group \in Groups /\ groups[rows[j].group] # "absent"
    /\ \A w \in Workers :
          run[w].pc = "link" =>
             /\ groups[run[w].group] # "absent"
             /\ \A j \in Jobs : rows[j].group # run[w].group
             /\ \A v \in Workers \ {w} : run[v].pc = "link" => run[v].group # run[w].group
    /\ \A c \in Clients :
          client[c].pc = "enqueue" =>
             /\ groups[client[c].group] # "absent"
             /\ \A j \in Jobs : rows[j].group # client[c].group
             /\ \A w \in Workers : run[w].pc = "link" => run[w].group # client[c].group
             /\ \A d \in Clients \ {c} :
                   client[d].pc = "enqueue" => client[d].group # client[c].group
    /\ \A j \in known : rows[j].status # "absent"

LEMMA InitGroupsOwned == Init => GroupsOwned
<1> SUFFICES ASSUME Init PROVE GroupsOwned
  OBVIOUS
<1>1. \A j \in Jobs : rows[j].group = NoGroup
  BY DEF Init
<1>2. (\A w \in Workers : run[w].pc = "idle") /\ \A c \in Clients : client[c].pc = "idle"
  BY DEF Init, IdleRun, IdleClient
<1> QED
  BY <1>1, <1>2 DEF Init, GroupsOwned

\* Runs about to link, requests about to enqueue, and new groups.
LEMMA OwnersOfStep ==
    ASSUME Sound, [Next]_vars
    PROVE  /\ \A w \in Workers :
                 run'[w].pc = "link" =>
                    \/ run[w].pc = "link" /\ run'[w].group = run[w].group /\ ~Link(w)
                    \/ NewGroup(w) /\ run'[w].group = FreshGroup
           /\ \A c \in Clients :
                 client'[c].pc = "enqueue" =>
                    \/ client'[c] = client[c] /\ ~EnqueueCrawl(c)
                    \/ (\E j \in Crawls : PostCrawl(c, j)) /\ client'[c].group = FreshGroup
           /\ \A g \in Groups : groups[g] # "absent" => groups'[g] # "absent"
<1>0. run \in [Workers -> RunRecord] /\ client \in [Clients -> ClientRecord]
      /\ groups \in [Groups -> GroupStatus]
  BY DEF Sound, Types
<1>1. ASSUME NEW w \in Workers, run'[w].pc = "link"
      PROVE  \/ run[w].pc = "link" /\ run'[w].group = run[w].group /\ ~Link(w)
             \/ NewGroup(w) /\ run'[w].group = FreshGroup
  <2>1. CASE UNCHANGED run
    <3>1. ~Link(w)
      BY <1>0, <1>1, <2>1 DEF Link, Step, RunRecord
    <3> QED
      BY <1>1, <2>1, <3>1
  <2>2. ASSUME NEW v \in Workers, v # w, Run(v) \/ Crash(v)
        PROVE  run'[w] = run[w] /\ ~Link(w)
    <3>1. run'[w] = run[w]
      BY <2>2 DEF Run, Crash, Claim, NewGroup, Link, Fetch, Insert, Seal, Complete, Break, Fail,
                  Finish, Step, Sound, Types
    <3>2. ~Link(w)
      BY <1>0, <1>1 DEF Link, Step, RunRecord
    <3> QED
      BY <3>1, <3>2
  <2>3. ASSUME Run(w) \/ Crash(w) PROVE NewGroup(w) /\ run'[w].group = FreshGroup
    <3>1. ASSUME NEW j \in Jobs, Claim(w, j) PROVE FALSE
      BY <1>0, <1>1, <3>1 DEF Claim
    <3>2. CASE NewGroup(w)
      BY <1>0, <3>2 DEF NewGroup, RunRecord
    <3>3. CASE Fetch(w) \/ Insert(w)
      BY <1>0, <1>1, <3>3 DEF Fetch, Insert, RunRecord
    <3>4. CASE Link(w) \/ Seal(w) \/ Complete(w) \/ Break(w)
      BY <1>0, <1>1, <3>4 DEF Link, Seal, Complete, Break, Step, RunRecord
    <3>5. CASE Fail(w) \/ Finish(w) \/ Crash(w)
      BY <1>0, <1>1, <3>5 DEF Fail, Finish, Crash, IdleRun
    <3> QED
      BY <2>3, <3>1, <3>2, <3>3, <3>4, <3>5 DEF Run
  <2>4. ASSUME Recover PROVE UNCHANGED run
    BY <2>4 DEF Recover, Requeue, FailOver
  <2>5. ASSUME NEW c \in Clients, Request(c) PROVE UNCHANGED run
    BY <2>5, RequestCases, ReadsShape
       DEF Sound, PostCrawl, PostBatch, EnqueueCrawl, CancelGroupRows, CancelGroup
  <2> QED
    BY <1>1, <2>1, <2>2, <2>3, <2>4, <2>5 DEF Next, vars
<1>2. ASSUME NEW c \in Clients, client'[c].pc = "enqueue"
      PROVE  \/ client'[c] = client[c] /\ ~EnqueueCrawl(c)
             \/ (\E j \in Crawls : PostCrawl(c, j)) /\ client'[c].group = FreshGroup
  <2>0. ~EnqueueCrawl(c)
    BY <1>0, <1>2 DEF EnqueueCrawl, Done, IdleClient
  <2>1. CASE client'[c] = client[c]
    BY <2>0, <2>1
  <2>2. ASSUME NEW d \in Clients, d # c, Request(d) PROVE client'[c] = client[c]
    BY <1>0, <2>2
       DEF Request, PostCrawl, PostBatch, AskBatch, GetGroup, DeleteGroup, EnqueueCrawl, ReadGroup,
           ReadCounts, ReadResults, GetJobRefused, CancelGroupRows, CancelGroup, RequestFails,
           NextRequest, Begin, Done, Goto
  <2>3. ASSUME Request(c)
        PROVE  \/ client'[c] = client[c]
               \/ (\E j \in Crawls : PostCrawl(c, j)) /\ client'[c].group = FreshGroup
    <3>1. ASSUME NEW j \in Crawls, PostCrawl(c, j) PROVE client'[c].group = FreshGroup
      BY <1>0, <3>1 DEF PostCrawl, Begin, IdleClient
    <3>2. ASSUME NEW j \in Batches, PostBatch(c, j) PROVE client'[c] = client[c]
      BY <3>2 DEF PostBatch
    <3>3. CASE CancelGroupRows(c)
      BY <1>0, <1>2, <3>3 DEF CancelGroupRows, Goto, ClientRecord
    <3>4. CASE CancelGroup(c)
      BY <1>0, <1>2, <3>4 DEF CancelGroup, Done, IdleClient
    <3>5. ASSUME Reads(c) PROVE FALSE
      BY <1>2, <3>5, ReadsShape DEF Sound
    <3> QED
      BY <2>0, <2>3, <3>1, <3>2, <3>3, <3>4, <3>5, RequestCases
  <2>4. ASSUME NEW w \in Workers, Run(w) \/ Crash(w) PROVE UNCHANGED client
    BY <2>4 DEF Run, Crash, Claim, NewGroup, Link, Fetch, Insert, Seal, Complete, Break, Fail, Finish
  <2>5. ASSUME Recover PROVE UNCHANGED client
    BY <2>5 DEF Recover, Requeue, FailOver
  <2> QED
    BY <2>0, <2>1, <2>2, <2>3, <2>4, <2>5 DEF Next, vars
<1>3. ASSUME NEW g \in Groups, groups[g] # "absent" PROVE groups'[g] # "absent"
  <2>1. CASE UNCHANGED groups
    BY <1>3, <2>1
  <2>2. ASSUME NEW w \in Workers, NewGroup(w) \/ Seal(w) PROVE groups'[g] # "absent"
    BY <1>0, <1>3, <2>2 DEF NewGroup, CreateGroup, Seal, SetGroup
  <2>3. ASSUME NEW c \in Clients, CancelGroup(c) \/ \E j \in Crawls : PostCrawl(c, j)
        PROVE  groups'[g] # "absent"
    BY <1>0, <1>3, <2>3 DEF CancelGroup, SetGroup, PostCrawl, CreateGroup
  <2>4. ASSUME NEW w \in Workers, Run(w) \/ Crash(w)
        PROVE  NewGroup(w) \/ Seal(w) \/ UNCHANGED groups
    BY <2>4 DEF Run, Crash, Claim, Link, Fetch, Insert, Complete, Break, Fail, Finish
  <2>5. ASSUME Recover PROVE UNCHANGED groups
    BY <2>5 DEF Recover, Requeue, FailOver
  <2>6. ASSUME NEW c \in Clients, Request(c)
        PROVE  (\E j \in Crawls : PostCrawl(c, j)) \/ CancelGroup(c) \/ UNCHANGED groups
    BY <2>6, RequestCases, ReadsShape DEF Sound, PostBatch, EnqueueCrawl, CancelGroupRows
  <2> QED
    BY <2>1, <2>2, <2>3, <2>4, <2>5, <2>6 DEF Next, vars
<1> QED
  BY <1>1, <1>2, <1>3

\* A group that is just made is nobody's, and its maker changes nothing else of note.
LEMMA MakesFresh ==
    ASSUME Sound, GroupsOwned,
           (\E w \in Workers : NewGroup(w)) \/ (\E c \in Clients, j \in Crawls : PostCrawl(c, j))
    PROVE  /\ FreshGroup \in Groups /\ groups[FreshGroup] = "absent"
           /\ groups'[FreshGroup] = "active" /\ rows' = rows
           /\ \A j \in Jobs : rows[j].group # FreshGroup
           /\ \A w \in Workers : run[w].pc = "link" => run[w].group # FreshGroup
           /\ \A c \in Clients : client[c].pc = "enqueue" => client[c].group # FreshGroup
<1>1. /\ FreshGroups # {} /\ rows' = rows
      /\ groups' = [groups EXCEPT ![FreshGroup] = "active"]
  BY DEF NewGroup, PostCrawl, CreateGroup
<1>2. FreshGroup \in Groups /\ groups[FreshGroup] = "absent"
  BY <1>1, FreshShape
<1>3. groups'[FreshGroup] = "active"
  BY <1>1, <1>2 DEF Sound, Types
<1> QED
  BY <1>1, <1>2, <1>3, NullsAssumption DEF GroupsOwned

LEMMA KnownOfStep ==
    ASSUME Sound, GroupsOwned, [Next]_vars, NEW j \in known'
    PROVE  rows'[j].status # "absent"
<1>0. rows \in [Jobs -> Row] /\ known \subseteq Jobs
  BY DEF Sound, Types
<1>1. CASE j \in known
  BY <1>0, <1>1, RowsOfStep DEF GroupsOwned, RowFate
<1>2. CASE j \notin known
  <2>1. ASSUME NEW c \in Clients, EnqueueCrawl(c) PROVE rows'[j].status # "absent"
    <3>1. j = client[c].job /\ j \in Jobs
      BY <1>2, <2>1 DEF EnqueueCrawl, At, Sound, Enqueues, Jobs
    <3> QED
      BY <1>0, <2>1, <3>1 DEF EnqueueCrawl, EnqueueRow, Row
  <2>2. ASSUME NEW c \in Clients, NEW i \in Batches, PostBatch(c, i) PROVE rows'[j].status # "absent"
    <3>1. j = i /\ j \in Jobs
      BY <1>2, <2>2 DEF PostBatch, Jobs
    <3> QED
      BY <1>0, <2>2, <3>1 DEF PostBatch, EnqueueRow, Row
  <2>3. ASSUME NEW w \in Workers, Run(w) \/ Crash(w) PROVE UNCHANGED known
    BY <2>3 DEF Run, Crash, Claim, NewGroup, Link, Fetch, Insert, Seal, Complete, Break, Fail, Finish
  <2>4. ASSUME Recover PROVE UNCHANGED known
    BY <2>4 DEF Recover, Requeue, FailOver
  <2>5. ASSUME NEW c \in Clients, Request(c)
        PROVE  EnqueueCrawl(c) \/ (\E i \in Batches : PostBatch(c, i)) \/ UNCHANGED known
    BY <2>5, RequestCases, ReadsShape DEF Sound, PostCrawl, CancelGroupRows, CancelGroup
  <2> QED
    BY <1>2, <2>1, <2>2, <2>3, <2>4, <2>5 DEF Next, vars
<1> QED
  BY <1>1, <1>2

LEMMA GroupsOwnedStep == Sound /\ GroupsOwned /\ [Next]_vars => GroupsOwned'
<1> SUFFICES ASSUME Sound, GroupsOwned, [Next]_vars PROVE GroupsOwned'
  OBVIOUS
<1>0. /\ \A w \in Workers : run[w].pc = "link" => run[w].group \in Groups
      /\ \A c \in Clients : client[c].pc = "enqueue" => client[c].group \in Groups
  BY DEF Sound, RunType, Enqueues, Grouped
<1>1. ASSUME NEW j \in Jobs, rows'[j].group # NoGroup
      PROVE  rows'[j].group \in Groups /\ groups'[rows'[j].group] # "absent"
  <2>1. \/ rows'[j].group = rows[j].group
        \/ \E w \in Workers : run[w].pc = "link" /\ rows'[j].group = run[w].group
        \/ \E c \in Clients : client[c].pc = "enqueue" /\ rows'[j].group = client[c].group
    BY RowsOfStep DEF RowFate, Link, EnqueueCrawl, At
  <2>2. rows'[j].group \in Groups /\ groups[rows'[j].group] # "absent"
    BY <1>0, <1>1, <2>1 DEF GroupsOwned
  <2> QED
    BY <2>2, OwnersOfStep
<1>2. ASSUME NEW w \in Workers, run'[w].pc = "link"
      PROVE  /\ groups'[run'[w].group] # "absent"
             /\ \A j \in Jobs : rows'[j].group # run'[w].group
             /\ \A v \in Workers \ {w} : run'[v].pc = "link" => run'[v].group # run'[w].group
  <2>1. CASE NewGroup(w) /\ run'[w].group = FreshGroup
    <3>1. \A v \in Workers \ {w} : run'[v] = run[v]
      BY <2>1 DEF NewGroup, Sound, Types
    <3> QED
      BY <2>1, <3>1, MakesFresh
  <2>2. CASE run[w].pc = "link" /\ run'[w].group = run[w].group /\ ~Link(w)
    <3>1. groups[run[w].group] # "absent" /\ groups'[run[w].group] # "absent"
      BY <1>0, <2>2, OwnersOfStep DEF GroupsOwned
    <3>2. ASSUME NEW j \in Jobs PROVE rows'[j].group # run[w].group
      <4>1. \/ rows'[j].group = rows[j].group
            \/ \E v \in Workers : v # w /\ run[v].pc = "link" /\ rows'[j].group = run[v].group
            \/ \E c \in Clients : client[c].pc = "enqueue" /\ rows'[j].group = client[c].group
        BY <2>2, RowsOfStep DEF RowFate, Link, EnqueueCrawl, At
      <4> QED
        BY <2>2, <4>1 DEF GroupsOwned
    <3>3. ASSUME NEW v \in Workers \ {w}, run'[v].pc = "link" PROVE run'[v].group # run[w].group
      <4>1. CASE run[v].pc = "link" /\ run'[v].group = run[v].group
        BY <2>2, <4>1 DEF GroupsOwned
      <4>2. CASE NewGroup(v) /\ run'[v].group = FreshGroup
        BY <2>2, <4>2, MakesFresh
      <4> QED
        BY <3>3, <4>1, <4>2, OwnersOfStep
    <3> QED
      BY <2>2, <3>1, <3>2, <3>3
  <2> QED
    BY <1>2, <2>1, <2>2, OwnersOfStep
<1>3. ASSUME NEW c \in Clients, client'[c].pc = "enqueue"
      PROVE  /\ groups'[client'[c].group] # "absent"
             /\ \A j \in Jobs : rows'[j].group # client'[c].group
             /\ \A w \in Workers : run'[w].pc = "link" => run'[w].group # client'[c].group
             /\ \A d \in Clients \ {c} :
                   client'[d].pc = "enqueue" => client'[d].group # client'[c].group
  <2>1. ASSUME NEW j \in Crawls, PostCrawl(c, j), client'[c].group = FreshGroup
        PROVE  /\ groups'[client'[c].group] # "absent"
               /\ \A i \in Jobs : rows'[i].group # client'[c].group
               /\ \A w \in Workers : run'[w].pc = "link" => run'[w].group # client'[c].group
               /\ \A d \in Clients \ {c} :
                     client'[d].pc = "enqueue" => client'[d].group # client'[c].group
    <3>1. run' = run /\ \A d \in Clients \ {c} : client'[d] = client[d]
      BY <2>1 DEF PostCrawl, Begin, Sound, Types
    <3> QED
      BY <2>1, <3>1, MakesFresh
  <2>2. CASE client'[c] = client[c] /\ ~EnqueueCrawl(c)
    <3>0. client[c].pc = "enqueue"
      BY <1>3, <2>2
    <3>1. groups[client[c].group] # "absent" /\ groups'[client[c].group] # "absent"
      BY <1>0, <3>0, OwnersOfStep DEF GroupsOwned
    <3>2. ASSUME NEW j \in Jobs PROVE rows'[j].group # client[c].group
      <4>1. \/ rows'[j].group = rows[j].group
            \/ \E w \in Workers : run[w].pc = "link" /\ rows'[j].group = run[w].group
            \/ \E d \in Clients : d # c /\ client[d].pc = "enqueue" /\ rows'[j].group = client[d].group
        BY <2>2, RowsOfStep DEF RowFate, Link, EnqueueCrawl, At
      <4> QED
        BY <3>0, <4>1 DEF GroupsOwned
    <3>3. ASSUME NEW w \in Workers, run'[w].pc = "link" PROVE run'[w].group # client[c].group
      <4>1. CASE run[w].pc = "link" /\ run'[w].group = run[w].group
        BY <3>0, <4>1 DEF GroupsOwned
      <4>2. CASE NewGroup(w) /\ run'[w].group = FreshGroup
        BY <3>0, <4>2, MakesFresh
      <4> QED
        BY <3>3, <4>1, <4>2, OwnersOfStep
    <3>4. ASSUME NEW d \in Clients \ {c}, client'[d].pc = "enqueue"
          PROVE  client'[d].group # client[c].group
      <4>1. CASE client'[d] = client[d]
        BY <3>0, <3>4, <4>1 DEF GroupsOwned
      <4>2. CASE (\E j \in Crawls : PostCrawl(d, j)) /\ client'[d].group = FreshGroup
        BY <3>0, <4>2, MakesFresh
      <4> QED
        BY <3>4, <4>1, <4>2, OwnersOfStep
    <3> QED
      BY <2>2, <3>1, <3>2, <3>3, <3>4
  <2> QED
    BY <1>3, <2>1, <2>2, OwnersOfStep
<1> QED
  BY <1>1, <1>2, <1>3, KnownOfStep DEF GroupsOwned

LEMMA FinalStaysStep ==
    ASSUME Sound, GroupsOwned, [Next]_vars, NEW j \in known \cap Crawls, Outcome(j) \in Final
    PROVE  Outcome(j)' \in Final
<1> DEFINE g == rows[j].group
<1>1. /\ j \in Jobs /\ rows[j].status # "absent" /\ g \in Groups /\ g # NoGroup
      /\ groups[g] # "absent"
  BY NullsAssumption DEF GroupsOwned, Sound, RowGroups, Jobs
<1>2. rows'[j].group = g
  <2>1. \A w \in Workers : Link(w) => run[w].job \in Batches
    BY DEF Link, Sound, RunType
  <2> QED
    BY <1>1, <2>1, KindsAssumption, RowsOfStep DEF RowFate
<1>3. Outcome(j) = Overall(groups[g], SettledIn(g)) /\ Outcome(j)' = Overall(groups'[g], SettledIn(g)')
  BY <1>1, <1>2 DEF Outcome, StatusOf
<1>4. groups'[g] \in {"active", "completed", "cancelled"}
  BY <1>1, OwnersOfStep, SoundStep DEF Sound, Types, GroupStatus
<1>5. CASE groups[g] \in Closed
  BY <1>1, <1>3, <1>5, GroupsStayClosed DEF Overall, Final, Closed
<1>6. CASE groups[g] \notin Closed
  <2>1. SettledIn(g)
    BY <1>3, <1>6 DEF Overall, Final, Closed
  <2>2. ASSUME NEW i \in Jobs, rows'[i].group = g PROVE rows'[i].status \notin Pending
    <3>1. \A w \in Workers : Link(w) => run[w].group # g
      BY <1>1 DEF Link, GroupsOwned
    <3>2. \A c \in Clients : EnqueueCrawl(c) => client[c].group # g
      BY <1>1 DEF EnqueueCrawl, At, GroupsOwned
    <3>3. rows[i].group = g
      BY <2>2, <3>1, <3>2, RowsOfStep DEF RowFate
    <3>4. rows[i].status \notin Pending /\ rows[i].status # "absent" /\ rows[i].status \in JobStatus
      BY <1>1, <2>1, <3>3 DEF SettledIn, JobsIn, Sound, RowGroups, Types, Row
    <3>5. rows[i].status \in Terminal
      BY <3>4 DEF JobStatus, Pending, Terminal
    <3> QED
      BY <2>2, <3>1, <3>2, <3>4, <3>5, RowsOfStep DEF RowFate, Pending, Terminal
  <2>3. SettledIn(g)'
    BY <1>1, <1>2, <2>2 DEF SettledIn, JobsIn
  <2> QED
    BY <1>3, <1>4, <2>3 DEF Overall, Final
<1> QED
  BY <1>5, <1>6

\* Once a poll of a crawl would say it has ended, none ever says scraping again: for any
\* number of crawls and batches, requests in progress, reruns and late statements.
THEOREM CrawlsStayFinal == Spec => FinalStays
<1>1. Sound /\ GroupsOwned /\ [Next]_vars =>
         [\A j \in known \cap Crawls : Outcome(j) \in Final => Outcome(j)' \in Final]_vars
  BY FinalStaysStep
<1> QED
  BY <1>1, AlwaysSound, InitGroupsOwned, GroupsOwnedStep, PTL DEF Spec, FinalStays

=============================================================================
