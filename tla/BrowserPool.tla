----------------------------- MODULE BrowserPool -----------------------------
(***************************************************************************)
(* The pool of headless browsers of scraper.rs: a deque behind an async    *)
(* mutex, a semaphore with one permit per browser, and a guard whose Drop  *)
(* puts the browser back.  Drop cannot wait for the mutex: when try_lock   *)
(* finds it taken, a spawned task pushes the browser later, while the      *)
(* guard's permit is released at once.                                     *)
(*                                                                         *)
(* Tasks are the futures inside fetch_page.  The runtime is multithreaded, *)
(* so a critical section without an await is still seen by try_lock.       *)
(***************************************************************************)
EXTENDS Integers, Sequences, FiniteSets

CONSTANTS
    Tasks,
    Browsers,    \* as many as the pool's size, at least one (size.max(1))
    NoBrowser,
    Nobody,      \* the mutex is free
    Closer       \* the caller of shutdown

ASSUME TasksAssumption == IsFiniteSet(Tasks)
ASSUME BrowsersAssumption == IsFiniteSet(Browsers) /\ Browsers # {}
ASSUME NamesAssumption ==
    /\ NoBrowser \notin Browsers
    /\ Nobody \notin Tasks \cup Browsers \cup {Closer}
    /\ Closer \notin Tasks \cup Browsers
    /\ Tasks \cap Browsers = {}

VARIABLES
    deque,     \* pool.pool
    mutex,     \* who is inside pool.pool's mutex: a task, the spawned push of a
               \* browser (named by the browser), Closer or Nobody
    permits,   \* free permits of the semaphore
    pc,        \* where each task is
    has,       \* the browser a task's guard owns
    pushing,   \* browsers a spawned task is to push back
    pool,      \* "up", then shutdown's progress: "closed", "draining", "down"
    closed     \* browsers shutdown has closed

vars == <<deque, mutex, permits, pc, has, pushing, pool, closed>>

Size == Cardinality(Browsers)

(***************************************************************************)
(* Where a task is:                                                        *)
(*   idle       outside the pool                                           *)
(*   waiting    in semaphore.acquire_owned                                 *)
(*   locking    has a permit, waits for the mutex                          *)
(*   popping    has the mutex                                              *)
(*   empty      found the deque empty: acquire returns the "pool invariant *)
(*              violated" error                                            *)
(*   using      has a guard                                                *)
(*   returning  in Drop, try_lock succeeded                                *)
(*   releasing  Drop is done with the browser, the permit goes next        *)
(***************************************************************************)
WithPermit == {"locking", "popping", "empty", "using", "returning", "releasing"}

Owners == {"using", "returning"}

Stay(t, stage) == pc' = [pc EXCEPT ![t] = stage]

\* acquire: ask the semaphore, which fails once it is closed.
Acquire(t) ==
    /\ pc[t] = "idle"
    /\ pool = "up"
    /\ Stay(t, "waiting")
    /\ UNCHANGED <<deque, mutex, permits, has, pushing, pool, closed>>

TakePermit(t) ==
    /\ pc[t] = "waiting"
    /\ pool = "up"
    /\ permits > 0
    /\ permits' = permits - 1
    /\ Stay(t, "locking")
    /\ UNCHANGED <<deque, mutex, has, pushing, pool, closed>>

\* "Browser semaphore closed"
RefuseClosed(t) ==
    /\ pc[t] = "waiting"
    /\ pool # "up"
    /\ Stay(t, "idle")
    /\ UNCHANGED <<deque, mutex, permits, has, pushing, pool, closed>>

Lock(t) ==
    /\ pc[t] = "locking"
    /\ mutex = Nobody
    /\ mutex' = t
    /\ Stay(t, "popping")
    /\ UNCHANGED <<deque, permits, has, pushing, pool, closed>>

\* Mutant: the front browser is looked at and left in the deque.
PopPeeks(t) ==
    /\ pc[t] = "popping"
    /\ deque # <<>>
    /\ has' = [has EXCEPT ![t] = Head(deque)]
    /\ mutex' = Nobody
    /\ Stay(t, "using")
    /\ UNCHANGED <<deque, permits, pushing, pool, closed>>

Pop(t) ==
    /\ pc[t] = "popping"
    /\ deque # <<>>
    /\ deque' = Tail(deque)
    /\ has' = [has EXCEPT ![t] = Head(deque)]
    /\ mutex' = Nobody
    /\ Stay(t, "using")
    /\ UNCHANGED <<permits, pushing, pool, closed>>

\* Mutant: the error return forgets the permit.
PopEmptyKeepsPermit(t) ==
    /\ pc[t] = "popping"
    /\ deque = <<>>
    /\ mutex' = Nobody
    /\ Stay(t, "idle")
    /\ UNCHANGED <<deque, permits, has, pushing, pool, closed>>

PopEmpty(t) ==
    /\ pc[t] = "popping"
    /\ deque = <<>>
    /\ mutex' = Nobody
    /\ Stay(t, "empty")
    /\ UNCHANGED <<deque, permits, has, pushing, pool, closed>>

\* Mutant: a future dropped between semaphore and mutex takes the permit with it.
AbandonKeepsPermit(t) ==
    /\ pc[t] \in {"waiting", "locking"}
    /\ Stay(t, "idle")
    /\ UNCHANGED <<deque, mutex, permits, has, pushing, pool, closed>>

\* The caller's future is dropped while it waits: the job timed out.
Abandon(t) ==
    /\ \/ pc[t] = "waiting" /\ permits' = permits
       \/ pc[t] = "locking" /\ permits' = permits + 1
    /\ Stay(t, "idle")
    /\ UNCHANGED <<deque, mutex, has, pushing, pool, closed>>

\* Drop of the guard (fetch_page is done, failed or was dropped): try_lock.
DropLocked(t) ==
    /\ pc[t] = "using"
    /\ mutex = Nobody
    /\ mutex' = t
    /\ Stay(t, "returning")
    /\ UNCHANGED <<deque, permits, has, pushing, pool, closed>>

\* Mutant: nobody is sent to push the browser back.
DropContendedForgets(t) ==
    /\ pc[t] = "using"
    /\ mutex # Nobody
    /\ has' = [has EXCEPT ![t] = NoBrowser]
    /\ Stay(t, "releasing")
    /\ UNCHANGED <<deque, mutex, permits, pushing, pool, closed>>

DropContended(t) ==
    /\ pc[t] = "using"
    /\ mutex # Nobody
    /\ pushing' = pushing \cup {has[t]}
    /\ has' = [has EXCEPT ![t] = NoBrowser]
    /\ Stay(t, "releasing")
    /\ UNCHANGED <<deque, mutex, permits, pool, closed>>

\* Mutant: Drop pushes a clone and keeps the browser.
PushBackKeeps(t) ==
    /\ pc[t] = "returning"
    /\ deque' = Append(deque, has[t])
    /\ mutex' = Nobody
    /\ Stay(t, "releasing")
    /\ UNCHANGED <<permits, has, pushing, pool, closed>>

PushBack(t) ==
    /\ pc[t] = "returning"
    /\ deque' = Append(deque, has[t])
    /\ has' = [has EXCEPT ![t] = NoBrowser]
    /\ mutex' = Nobody
    /\ Stay(t, "releasing")
    /\ UNCHANGED <<permits, pushing, pool, closed>>

\* The permit is dropped, after Drop or with acquire's error.
ReleasePermit(t) ==
    /\ pc[t] \in {"releasing", "empty"}
    /\ permits' = permits + 1
    /\ Stay(t, "idle")
    /\ UNCHANGED <<deque, mutex, has, pushing, pool, closed>>

\* Mutant: the spawned task gives up once the pool shuts down.
SpawnedLockWhileUp(b) ==
    /\ pool = "up"
    /\ b \in pushing
    /\ mutex = Nobody
    /\ mutex' = b
    /\ UNCHANGED <<deque, permits, pc, has, pushing, pool, closed>>

\* The task Drop spawned.
SpawnedLock(b) ==
    /\ b \in pushing
    /\ mutex = Nobody
    /\ mutex' = b
    /\ UNCHANGED <<deque, permits, pc, has, pushing, pool, closed>>

SpawnedPush(b) ==
    /\ mutex = b
    /\ deque' = Append(deque, b)
    /\ pushing' = pushing \ {b}
    /\ mutex' = Nobody
    /\ UNCHANGED <<permits, pc, has, pool, closed>>

\* shutdown: close the semaphore, lock, close every browser in the deque.
ShutdownClose ==
    /\ pool = "up"
    /\ pool' = "closed"
    /\ UNCHANGED <<deque, mutex, permits, pc, has, pushing, closed>>

ShutdownLock ==
    /\ pool = "closed"
    /\ mutex = Nobody
    /\ mutex' = Closer
    /\ pool' = "draining"
    /\ UNCHANGED <<deque, permits, pc, has, pushing, closed>>

ShutdownPop ==
    /\ pool = "draining"
    /\ deque # <<>>
    /\ closed' = closed \cup {Head(deque)}
    /\ deque' = Tail(deque)
    /\ UNCHANGED <<mutex, permits, pc, has, pushing, pool>>

ShutdownDone ==
    /\ pool = "draining"
    /\ deque = <<>>
    /\ mutex' = Nobody
    /\ pool' = "down"
    /\ UNCHANGED <<deque, permits, pc, has, pushing, closed>>

Init ==
    /\ deque \in {s \in [1 .. Size -> Browsers] :
                     \A i, j \in 1 .. Size : s[i] = s[j] => i = j}
    /\ mutex = Nobody
    /\ permits = Size
    /\ pc = [t \in Tasks |-> "idle"]
    /\ has = [t \in Tasks |-> NoBrowser]
    /\ pushing = {}
    /\ pool = "up"
    /\ closed = {}

\* fetch_page up to its guard, and the guard's Drop
Enter(t) == Acquire(t) \/ TakePermit(t) \/ RefuseClosed(t) \/ Lock(t) \/ Pop(t) \/ PopEmpty(t)
Leave(t) == DropLocked(t) \/ DropContended(t) \/ PushBack(t) \/ ReleasePermit(t)

Spawned(b) == SpawnedLock(b) \/ SpawnedPush(b)

Shutdown == ShutdownClose \/ ShutdownLock \/ ShutdownPop \/ ShutdownDone

Next ==
    \/ \E t \in Tasks : Enter(t) \/ Abandon(t) \/ Leave(t)
    \/ \E b \in Browsers : Spawned(b)
    \/ Shutdown

Spec == Init /\ [][Next]_vars

(***************************************************************************)
(* Fairness.  tokio's semaphore and mutex serve waiters in order, hence    *)
(* strong fairness for each wait; critical sections have no await; every   *)
(* use ends: a worker's by the timeout around its job, a synchronous       *)
(* handler's by the timeouts inside fetch_page.  Nothing makes a task      *)
(* enter, be abandoned or the pool shut down, but a shutdown that has      *)
(* begun goes on.                                                          *)
(***************************************************************************)
Fairness ==
    /\ \A t \in Tasks :
          /\ SF_vars(TakePermit(t))
          /\ WF_vars(RefuseClosed(t))
          /\ SF_vars(Lock(t))
          /\ WF_vars(Pop(t) \/ PopEmpty(t))
          /\ WF_vars(Leave(t))
    /\ \A b \in Browsers : SF_vars(SpawnedLock(b)) /\ WF_vars(SpawnedPush(b))
    /\ SF_vars(ShutdownLock)
    /\ WF_vars(ShutdownPop \/ ShutdownDone)

FairSpec == Spec /\ Fairness

-----------------------------------------------------------------------------

TypeOK ==
    /\ deque \in Seq(Browsers)
    /\ mutex \in Tasks \cup Browsers \cup {Closer, Nobody}
    /\ permits \in 0 .. Size
    /\ pc \in [Tasks -> WithPermit \cup {"idle", "waiting"}]
    /\ has \in [Tasks -> Browsers \cup {NoBrowser}]
    /\ pushing \in SUBSET Browsers
    /\ pool \in {"up", "closed", "draining", "down"}
    /\ closed \in SUBSET Browsers
    /\ \A t \in Tasks : pc[t] \in Owners <=> has[t] # NoBrowser

\* A browser is never lost and never handed out twice: each is in the deque once, in
\* one guard, on its way back or closed, whatever Drops meet contention, acquires are
\* abandoned or a shutdown runs.
EachBrowserOnce ==
    \A b \in Browsers :
        Cardinality({i \in DOMAIN deque : deque[i] = b})
        + Cardinality({t \in Tasks : has[t] = b})
        + (IF b \in pushing THEN 1 ELSE 0)
        + (IF b \in closed THEN 1 ELSE 0) = 1

\* A permit is released exactly once on every way out of acquire and of the guard.
PermitsConserved ==
    permits + Cardinality({t \in Tasks : pc[t] \in WithPermit}) = Size

\* Tasks between the semaphore and the pop: each has a permit and is to find a browser.
Served == {t \in Tasks : pc[t] \in {"locking", "popping"}}

\* What is true of the pool invariant that acquire and scraper.rs:55 speak of: as long as the
\* pool is up there is a browser for every permit handed out, in the deque or on its way
\* back.  An acquire finds the deque empty only while a spawned push is still to come.
PermitsBacked ==
    pool = "up" => Cardinality(Served) <= Len(deque) + Cardinality(pushing)

\* A task that waits for a browser stops waiting: nobody waits on everybody, whatever
\* the order of Drops, spawned pushes and a shutdown.
WaitersServed == \A t \in Tasks : pc[t] \in {"waiting", "locking"} ~> pc[t] \notin {"waiting", "locking"}

\* A browser whose Drop met contention comes back to the deque.
PushesLand == \A b \in Browsers : b \in pushing ~> b \notin pushing

\* scraper.rs:55 "Permit released on drop, AFTER we push back to the pool", and the
\* error acquire calls a violated pool invariant: as long as the pool is up, whoever
\* gets a permit finds a browser.
PermitMeansBrowser == pool = "up" => \A t \in Tasks : pc[t] # "empty"
=============================================================================
