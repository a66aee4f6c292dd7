-------------------------- MODULE BrowserPoolProofs --------------------------
(***************************************************************************)
(* Proofs about BrowserPool, for any number of tasks and browsers.         *)
(*                                                                         *)
(* EachBrowserOnce counts places.  The invariant says the same without     *)
(* counting: a browser is in the deque, in a guard, on its way back or     *)
(* closed, never in two of these, and in the deque or in guards at one     *)
(* place only.  It needs to know who is inside the mutex: a spawned push   *)
(* or a Drop appends its own browser there, and no other.                  *)
(***************************************************************************)
EXTENDS BrowserPool, FiniteSetTheorems, SequenceTheorems, TLAPS

USE DEF WithPermit, Owners

In(b, s) == \E i \in 1 .. Len(s) : s[i] = b

Distinct(s) == \A i, j \in 1 .. Len(s) : s[i] = s[j] => i = j

Held(b) == \E t \in Tasks : has[t] = b

-----------------------------------------------------------------------------
(***************************************************************************)
(* Deques                                                                  *)
(***************************************************************************)

\* Pushing a browser that is not in the deque.
LEMMA AppendNew ==
    ASSUME NEW s \in Seq(Browsers), NEW b \in Browsers, Distinct(s), ~ In(b, s)
    PROVE  /\ Append(s, b) \in Seq(Browsers)
           /\ Distinct(Append(s, b))
           /\ \A c \in Browsers : In(c, Append(s, b)) <=> In(c, s) \/ c = b
<1> DEFINE u == Append(s, b)
<1>1. /\ u \in Seq(Browsers) /\ Len(u) = Len(s) + 1 /\ Len(s) \in Nat
      /\ \A i \in 1 .. Len(s) : u[i] = s[i]
      /\ u[Len(s) + 1] = b
  BY AppendProperties, LenProperties
<1> HIDE DEF u
<1>2. \A i \in 1 .. Len(u) : i \in 1 .. Len(s) \/ i = Len(s) + 1
  BY <1>1
<1>3. Distinct(u)
  BY <1>1, <1>2 DEF Distinct, In
<1>4. \A c \in Browsers : In(c, u) <=> In(c, s) \/ c = b
  BY <1>1, <1>2 DEF In
<1> QED
  BY <1>1, <1>3, <1>4 DEF u

\* Popping the front of the deque.
LEMMA TailOld ==
    ASSUME NEW s \in Seq(Browsers), s # <<>>, Distinct(s)
    PROVE  /\ Tail(s) \in Seq(Browsers) /\ Head(s) \in Browsers
           /\ In(Head(s), s)
           /\ Distinct(Tail(s))
           /\ \A c \in Browsers : In(c, Tail(s)) <=> In(c, s) /\ c # Head(s)
<1> DEFINE u == Tail(s)
<1>1. /\ u \in Seq(Browsers) /\ Len(u) = Len(s) - 1 /\ Len(s) \in Nat \ {0}
      /\ \A i \in 1 .. Len(u) : u[i] = s[i + 1]
      /\ Head(s) = s[1] /\ Head(s) \in Browsers
  BY HeadTailProperties, EmptySeq, LenProperties
<1> HIDE DEF u
<1>2. Distinct(u)
  BY <1>1 DEF Distinct
<1>3. In(Head(s), s)
  BY <1>1 DEF In
<1>4. ASSUME NEW c \in Browsers
      PROVE  In(c, u) <=> In(c, s) /\ c # Head(s)
  <2>1. ASSUME NEW i \in 1 .. Len(u), u[i] = c PROVE In(c, s) /\ c # Head(s)
    <3>1. i + 1 \in 1 .. Len(s) /\ s[i + 1] = c /\ 1 \in 1 .. Len(s) /\ i + 1 # 1
      BY <1>1, <2>1
    <3> QED
      BY <1>1, <3>1 DEF Distinct, In
  <2>2. ASSUME NEW i \in 1 .. Len(s), s[i] = c, c # Head(s) PROVE In(c, u)
    <3>1. i - 1 \in 1 .. Len(u) /\ s[(i - 1) + 1] = c
      BY <1>1, <2>2
    <3> QED
      BY <1>1, <3>1 DEF In
  <2> QED
    BY <2>1, <2>2 DEF In
<1> QED
  BY <1>1, <1>2, <1>3, <1>4 DEF u

-----------------------------------------------------------------------------
(***************************************************************************)
(* The invariant                                                           *)
(***************************************************************************)

Types ==
    /\ deque \in Seq(Browsers)
    /\ mutex \in Tasks \cup Browsers \cup {Closer, Nobody}
    /\ permits \in Nat
    /\ pc \in [Tasks -> WithPermit \cup {"idle", "waiting"}]
    /\ has \in [Tasks -> Browsers \cup {NoBrowser}]
    /\ pushing \in SUBSET Browsers
    /\ pool \in {"up", "closed", "draining", "down"}
    /\ closed \in SUBSET Browsers
    /\ \A t \in Tasks : pc[t] \in Owners <=> has[t] # NoBrowser

\* Who is inside the mutex is at the place in its code where that can be.
Inside ==
    /\ \A t \in Tasks : mutex = t <=> pc[t] \in {"popping", "returning"}
    /\ \A b \in Browsers : mutex = b => b \in pushing
    /\ mutex = Closer <=> pool = "draining"

\* Where the browsers are.
Placed ==
    /\ Distinct(deque)
    /\ \A t, u \in Tasks : has[t] # NoBrowser /\ has[t] = has[u] => t = u
    /\ \A b \in Browsers :
          /\ In(b, deque) \/ Held(b) \/ b \in pushing \/ b \in closed
          /\ In(b, deque) => ~ Held(b) /\ b \notin pushing /\ b \notin closed
          /\ Held(b) => b \notin pushing /\ b \notin closed
          /\ b \in pushing => b \notin closed

LEMMA SizeNat == Size \in Nat \ {0}
  BY BrowsersAssumption, FS_CardinalityType, FS_EmptySet DEF Size

LEMMA TypesInit == Init => Types /\ Inside
<1> SUFFICES ASSUME Init PROVE Types /\ Inside
  OBVIOUS
<1>1. deque \in Seq(Browsers)
  BY SizeNat DEF Init
<1> QED
  BY <1>1, SizeNat, NamesAssumption DEF Init, Types, Inside

\* As many different browsers as there are: all of them.
LEMMA PlacedInit == Init => Placed
<1> SUFFICES ASSUME Init PROVE Placed
  OBVIOUS
<1>1. /\ deque \in [1 .. Size -> Browsers] /\ Size \in Nat
      /\ \A i, j \in 1 .. Size : deque[i] = deque[j] => i = j
  BY SizeNat DEF Init
<1>2. deque \in Seq(Browsers) /\ Len(deque) = Size
  BY <1>1
<1>3. deque \in Injection(1 .. Size, Browsers)
  BY <1>1 DEF Injection, IsInjective
<1>4. Cardinality(1 .. Size) = Size
  BY <1>1, FS_Interval
<1>5. deque \in Surjection(1 .. Size, Browsers)
  BY <1>3, <1>4, BrowsersAssumption, FS_Injection DEF Size
<1>6. \A b \in Browsers : In(b, deque)
  BY <1>2, <1>5 DEF Surjection, In
<1>7. has = [t \in Tasks |-> NoBrowser] /\ pushing = {} /\ closed = {}
  BY DEF Init
<1>8. \A b \in Browsers : ~ Held(b)
  BY <1>7, NamesAssumption DEF Held
<1>9. Distinct(deque)
  BY <1>1, <1>2 DEF Distinct
<1> QED
  BY <1>6, <1>7, <1>8, <1>9 DEF Placed

LEMMA TypesStep == Types /\ Inside /\ [Next]_vars => Types' /\ Inside'
<1> SUFFICES ASSUME Types, Inside, [Next]_vars PROVE Types' /\ Inside'
  OBVIOUS
<1> USE NamesAssumption DEF Types, Inside
<1>1. ASSUME NEW t \in Tasks, Enter(t) PROVE Types' /\ Inside'
  <2>1. CASE Acquire(t) \/ TakePermit(t) \/ RefuseClosed(t)
    BY <2>1 DEF Acquire, TakePermit, RefuseClosed, Stay
  <2>2. CASE Lock(t)
    BY <2>2 DEF Lock, Stay
  <2>3. CASE Pop(t)
    <3>1. Tail(deque) \in Seq(Browsers) /\ Head(deque) \in Browsers
      BY <2>3, HeadTailProperties DEF Pop
    <3> QED
      BY <2>3, <3>1 DEF Pop, Stay
  <2>4. CASE PopEmpty(t)
    BY <2>4 DEF PopEmpty, Stay
  <2> QED
    BY <1>1, <2>1, <2>2, <2>3, <2>4 DEF Enter
<1>2. ASSUME NEW t \in Tasks, Abandon(t) PROVE Types' /\ Inside'
  BY <1>2 DEF Abandon, Stay
<1>3. ASSUME NEW t \in Tasks, Leave(t) PROVE Types' /\ Inside'
  <2>1. CASE DropLocked(t)
    BY <2>1 DEF DropLocked, Stay
  <2>2. CASE DropContended(t)
    BY <2>2 DEF DropContended, Stay
  <2>3. CASE PushBack(t)
    <3>1. has[t] \in Browsers
      BY <2>3 DEF PushBack
    <3>2. Append(deque, has[t]) \in Seq(Browsers)
      BY <3>1, AppendProperties
    <3> QED
      BY <2>3, <3>2 DEF PushBack, Stay
  <2>4. CASE ReleasePermit(t)
    BY <2>4 DEF ReleasePermit, Stay
  <2> QED
    BY <1>3, <2>1, <2>2, <2>3, <2>4 DEF Leave
<1>4. ASSUME NEW b \in Browsers, Spawned(b) PROVE Types' /\ Inside'
  <2>1. CASE SpawnedLock(b)
    BY <2>1 DEF SpawnedLock
  <2>2. CASE SpawnedPush(b)
    <3>1. Append(deque, b) \in Seq(Browsers)
      BY AppendProperties
    <3> QED
      BY <2>2, <3>1 DEF SpawnedPush
  <2> QED
    BY <1>4, <2>1, <2>2 DEF Spawned
<1>5. CASE Shutdown
  <2>1. CASE ShutdownClose \/ ShutdownLock \/ ShutdownDone
    BY <2>1 DEF ShutdownClose, ShutdownLock, ShutdownDone
  <2>2. CASE ShutdownPop
    <3>1. Tail(deque) \in Seq(Browsers) /\ Head(deque) \in Browsers
      BY <2>2, HeadTailProperties DEF ShutdownPop
    <3> QED
      BY <2>2, <3>1 DEF ShutdownPop
  <2> QED
    BY <1>5, <2>1, <2>2 DEF Shutdown
<1>6. CASE UNCHANGED vars
  BY <1>6 DEF vars
<1> QED
  BY <1>1, <1>2, <1>3, <1>4, <1>5, <1>6 DEF Next

\* A step that moves no browser.
LEMMA NothingMoves ==
    ASSUME Placed, UNCHANGED <<deque, has, pushing, closed>>
    PROVE  Placed'
  BY DEF Placed, Held

\* A browser goes from a guard to the deque, or to a spawned push.
LEMMA GuardGives ==
    ASSUME Types, Placed, NEW t \in Tasks, has[t] \in Browsers,
           has' = [has EXCEPT ![t] = NoBrowser]
    PROVE  /\ \A b \in Browsers : Held(b)' <=> Held(b) /\ b # has[t]
           /\ \A u, v \in Tasks : has'[u] # NoBrowser /\ has'[u] = has'[v] => u = v
<1>1. \A u \in Tasks : has'[u] = IF u = t THEN NoBrowser ELSE has[u]
  BY DEF Types
<1>2. \A u \in Tasks : has[u] = has[t] => u = t
  BY NamesAssumption DEF Placed
<1> QED
  BY <1>1, <1>2, NamesAssumption DEF Held, Placed

LEMMA PlacedStep == Types /\ Inside /\ Placed /\ [Next]_vars => Placed'
<1> SUFFICES ASSUME Types, Inside, Placed, [Next]_vars PROVE Placed'
  OBVIOUS
<1>1. ASSUME NEW t \in Tasks, Pop(t) PROVE Placed'
  <2>1. /\ deque \in Seq(Browsers) /\ deque # <<>> /\ deque' = Tail(deque)
        /\ has' = [has EXCEPT ![t] = Head(deque)] /\ UNCHANGED <<pushing, closed>>
        /\ has[t] = NoBrowser
    BY <1>1 DEF Pop, Types
  <2>2. /\ Head(deque) \in Browsers /\ In(Head(deque), deque) /\ Distinct(deque')
        /\ \A c \in Browsers : In(c, deque') <=> In(c, deque) /\ c # Head(deque)
    BY <2>1, TailOld DEF Placed
  <2>3. \A u \in Tasks : has'[u] = IF u = t THEN Head(deque) ELSE has[u]
    BY <2>1 DEF Types
  <2>4. \A b \in Browsers : Held(b)' <=> Held(b) \/ b = Head(deque)
    BY <2>1, <2>3, NamesAssumption DEF Held
  <2>5. \A u, v \in Tasks : has'[u] # NoBrowser /\ has'[u] = has'[v] => u = v
    BY <2>2, <2>3 DEF Placed, Held
  <2>6. /\ ~ Held(Head(deque)) /\ Head(deque) \notin pushing /\ Head(deque) \notin closed
    BY <2>2 DEF Placed
  <2> QED
    BY <2>1, <2>2, <2>4, <2>5, <2>6 DEF Placed
<1>2. ASSUME NEW t \in Tasks, DropContended(t) PROVE Placed'
  <2>1. /\ has[t] \in Browsers /\ Held(has[t]) /\ UNCHANGED <<deque, closed>>
        /\ pushing' = pushing \cup {has[t]} /\ has' = [has EXCEPT ![t] = NoBrowser]
    BY <1>2 DEF DropContended, Types, Held
  <2>2. /\ \A b \in Browsers : Held(b)' <=> Held(b) /\ b # has[t]
        /\ \A u, v \in Tasks : has'[u] # NoBrowser /\ has'[u] = has'[v] => u = v
    BY <2>1, GuardGives
  <2> QED
    BY <2>1, <2>2 DEF Placed
<1>3. ASSUME NEW t \in Tasks, PushBack(t) PROVE Placed'
  <2>1. /\ has[t] \in Browsers /\ Held(has[t]) /\ UNCHANGED <<pushing, closed>>
        /\ deque' = Append(deque, has[t]) /\ has' = [has EXCEPT ![t] = NoBrowser]
    BY <1>3 DEF PushBack, Types, Held
  <2>2. /\ \A b \in Browsers : Held(b)' <=> Held(b) /\ b # has[t]
        /\ \A u, v \in Tasks : has'[u] # NoBrowser /\ has'[u] = has'[v] => u = v
    BY <2>1, GuardGives
  <2>3. /\ Distinct(deque')
        /\ \A c \in Browsers : In(c, deque') <=> In(c, deque) \/ c = has[t]
    BY <2>1, AppendNew DEF Placed, Types
  <2> QED
    BY <2>1, <2>2, <2>3 DEF Placed
<1>4. ASSUME NEW b \in Browsers, SpawnedPush(b) PROVE Placed'
  <2>1. /\ b \in pushing /\ deque' = Append(deque, b) /\ pushing' = pushing \ {b}
        /\ UNCHANGED <<has, closed>>
    BY <1>4 DEF SpawnedPush, Inside
  <2>2. /\ Distinct(deque')
        /\ \A c \in Browsers : In(c, deque') <=> In(c, deque) \/ c = b
    BY <2>1, AppendNew DEF Placed, Types
  <2>3. \A c \in Browsers : Held(c)' <=> Held(c)
    BY <2>1 DEF Held
  <2> QED
    BY <2>1, <2>2, <2>3 DEF Placed
<1>5. CASE ShutdownPop
  <2>1. /\ deque \in Seq(Browsers) /\ deque # <<>> /\ deque' = Tail(deque)
        /\ closed' = closed \cup {Head(deque)} /\ UNCHANGED <<has, pushing>>
    BY <1>5 DEF ShutdownPop, Types
  <2>2. /\ Head(deque) \in Browsers /\ In(Head(deque), deque) /\ Distinct(deque')
        /\ \A c \in Browsers : In(c, deque') <=> In(c, deque) /\ c # Head(deque)
    BY <2>1, TailOld DEF Placed
  <2>3. \A c \in Browsers : Held(c)' <=> Held(c)
    BY <2>1 DEF Held
  <2> QED
    BY <2>1, <2>2, <2>3 DEF Placed
<1>6. CASE UNCHANGED <<deque, has, pushing, closed>>
  BY <1>6, NothingMoves
<1> QED
  BY <1>1, <1>2, <1>3, <1>4, <1>5, <1>6 DEF Next, Enter, Abandon, Leave, Spawned, Shutdown, Acquire,
     TakePermit, RefuseClosed, Lock, PopEmpty, DropLocked, ReleasePermit, SpawnedLock,
     ShutdownClose, ShutdownLock, ShutdownDone, vars

-----------------------------------------------------------------------------
(***************************************************************************)
(* Permits                                                                 *)
(***************************************************************************)

Holders == {t \in Tasks : pc[t] \in WithPermit}

LEMMA HoldersFinite == IsFiniteSet(Holders) /\ Cardinality(Holders) \in Nat
  BY TasksAssumption, FS_Subset, FS_CardinalityType DEF Holders

LEMMA PermitsInit == Init => PermitsConserved
<1> SUFFICES ASSUME Init PROVE permits + Cardinality(Holders) = Size
  BY DEF PermitsConserved, Holders
<1>1. Holders = {}
  BY DEF Init, Holders
<1> QED
  BY <1>1, FS_EmptySet, SizeNat DEF Init

LEMMA PermitsStep == Types /\ PermitsConserved /\ [Next]_vars => PermitsConserved'
<1> SUFFICES ASSUME Types, PermitsConserved, [Next]_vars
             PROVE  permits' + Cardinality(Holders') = Size
  BY DEF PermitsConserved, Holders
<1>0. /\ permits \in Nat /\ permits + Cardinality(Holders) = Size
      /\ pc \in [Tasks -> WithPermit \cup {"idle", "waiting"}]
  BY DEF Types, PermitsConserved, Holders
<1>1. ASSUME NEW t \in Tasks, NEW s \in WithPermit \cup {"idle", "waiting"}, Stay(t, s)
      PROVE  Holders' = IF s \in WithPermit THEN Holders \cup {t} ELSE Holders \ {t}
  BY <1>0, <1>1 DEF Stay, Holders
<1>2. ASSUME NEW t \in Holders, NEW s \in WithPermit, Stay(t, s), permits' = permits
      PROVE  permits' + Cardinality(Holders') = Size
  <2>1. Holders' = Holders
    BY <1>1, <1>2 DEF Holders
  <2> QED
    BY <1>0, <1>2, <2>1
<1>3. ASSUME NEW t \in Tasks \ Holders, NEW s \in {"idle", "waiting"}, Stay(t, s), permits' = permits
      PROVE  permits' + Cardinality(Holders') = Size
  <2>1. Holders' = Holders
    BY <1>1, <1>3 DEF Holders
  <2> QED
    BY <1>0, <1>3, <2>1
<1>4. ASSUME NEW t \in Holders, Stay(t, "idle"), permits' = permits + 1
      PROVE  permits' + Cardinality(Holders') = Size
  <2>1. Holders' = Holders \ {t}
    BY <1>1, <1>4 DEF Holders
  <2>2. Cardinality(Holders \ {t}) = Cardinality(Holders) - 1
    BY HoldersFinite, FS_RemoveElement
  <2> QED
    BY <1>0, <1>4, <2>1, <2>2, HoldersFinite
<1>5. ASSUME NEW t \in Tasks, TakePermit(t) PROVE permits' + Cardinality(Holders') = Size
  <2>1. t \notin Holders /\ Holders' = Holders \cup {t} /\ permits' = permits - 1
    BY <1>1, <1>5 DEF TakePermit, Holders
  <2>2. Cardinality(Holders \cup {t}) = Cardinality(Holders) + 1
    BY <2>1, HoldersFinite, FS_AddElement
  <2> QED
    BY <1>0, <2>1, <2>2, HoldersFinite
<1>6. ASSUME NEW t \in Tasks, Lock(t) \/ Pop(t) \/ PopEmpty(t) \/ DropLocked(t) \/ DropContended(t) \/ PushBack(t)
      PROVE  permits' + Cardinality(Holders') = Size
  BY <1>2, <1>6 DEF Lock, Pop, PopEmpty, DropLocked, DropContended, PushBack, Holders
<1>7. ASSUME NEW t \in Tasks, Acquire(t) \/ RefuseClosed(t) PROVE permits' + Cardinality(Holders') = Size
  BY <1>3, <1>7 DEF Acquire, RefuseClosed, Holders
<1>8. ASSUME NEW t \in Tasks, Abandon(t) \/ ReleasePermit(t) PROVE permits' + Cardinality(Holders') = Size
  BY <1>3, <1>4, <1>8 DEF Abandon, ReleasePermit, Holders
<1>9. CASE UNCHANGED <<pc, permits>>
  BY <1>0, <1>9 DEF Holders
<1> QED
  BY <1>5, <1>6, <1>7, <1>8, <1>9 DEF Next, Enter, Leave, Spawned, Shutdown, SpawnedLock, SpawnedPush,
     ShutdownClose, ShutdownLock, ShutdownPop, ShutdownDone, vars

-----------------------------------------------------------------------------
(***************************************************************************)
(* The theorems                                                            *)
(***************************************************************************)

LEMMA PoolAlways == Spec => [](Types /\ Inside /\ Placed /\ PermitsConserved)
  BY TypesInit, PlacedInit, PermitsInit, TypesStep, PlacedStep, PermitsStep, PTL DEF Spec

\* The pool's variables have their types, and a task has a browser exactly while its
\* guard lives.
THEOREM PoolTypeCorrect == Spec => []TypeOK
<1>1. Types /\ PermitsConserved => TypeOK
  <2> SUFFICES ASSUME Types, PermitsConserved PROVE TypeOK
    OBVIOUS
  <2>1. permits + Cardinality(Holders) = Size
    BY DEF PermitsConserved, Holders
  <2>2. permits \in 0 .. Size
    BY <2>1, SizeNat, HoldersFinite DEF Types
  <2> QED
    BY <2>2 DEF Types, TypeOK
<1> QED
  BY <1>1, PoolAlways, PTL

\* Every way out of acquire and of the guard, contended or not, gives its permit back once.
THEOREM PoolPermitsConserved == Spec => []PermitsConserved
  BY PoolAlways, PTL

\* What is said without counting is what EachBrowserOnce counts.
LEMMA PlacedCounts == Types /\ Placed => EachBrowserOnce
<1> SUFFICES ASSUME Types, Placed, NEW b \in Browsers
             PROVE  Cardinality({i \in DOMAIN deque : deque[i] = b})
                    + Cardinality({t \in Tasks : has[t] = b})
                    + (IF b \in pushing THEN 1 ELSE 0)
                    + (IF b \in closed THEN 1 ELSE 0) = 1
  BY DEF EachBrowserOnce
<1> DEFINE D == {i \in DOMAIN deque : deque[i] = b}
           H == {t \in Tasks : has[t] = b}
<1>0. DOMAIN deque = 1 .. Len(deque)
  BY LenProperties DEF Types
<1>1. Cardinality(D) = IF In(b, deque) THEN 1 ELSE 0
  <2>1. CASE In(b, deque)
    <3>1. PICK i \in 1 .. Len(deque) : deque[i] = b
      BY <2>1 DEF In
    <3>2. D = {i}
      BY <1>0, <3>1 DEF Placed, Distinct
    <3> QED
      BY <2>1, <3>2, FS_Singleton
  <2>2. CASE ~ In(b, deque)
    <3>1. D = {}
      BY <1>0, <2>2 DEF In
    <3> QED
      BY <2>2, <3>1, FS_EmptySet
  <2> QED
    BY <2>1, <2>2
<1>2. Cardinality(H) = IF Held(b) THEN 1 ELSE 0
  <2>1. CASE Held(b)
    <3>1. PICK t \in Tasks : has[t] = b
      BY <2>1 DEF Held
    <3>2. H = {t}
      BY <3>1, NamesAssumption DEF Placed
    <3> QED
      BY <2>1, <3>2, FS_Singleton
  <2>2. CASE ~ Held(b)
    <3>1. H = {}
      BY <2>2 DEF Held
    <3> QED
      BY <2>2, <3>1, FS_EmptySet
  <2> QED
    BY <2>1, <2>2
<1> HIDE DEF D, H
<1>3. Cardinality(D) + Cardinality(H) + (IF b \in pushing THEN 1 ELSE 0)
        + (IF b \in closed THEN 1 ELSE 0) = 1
  BY <1>1, <1>2 DEF Placed
<1> QED
  BY <1>3 DEF D, H

\* However Drops meet contention, acquires are abandoned and a shutdown comes between, no
\* browser is lost, shared, pushed back twice or closed while in use.
THEOREM PoolKeepsBrowsers == Spec => []EachBrowserOnce
  BY PlacedCounts, PoolAlways, PTL

-----------------------------------------------------------------------------
(***************************************************************************)
(* Permits and browsers                                                    *)
(***************************************************************************)

Waiting == {b \in Browsers : In(b, deque)}

InUse == {b \in Browsers : Held(b)}

LEMMA CountDisjoint ==
    ASSUME NEW S, NEW T, IsFiniteSet(S), IsFiniteSet(T), S \cap T = {}
    PROVE  IsFiniteSet(S \cup T) /\ Cardinality(S \cup T) = Cardinality(S) + Cardinality(T)
  BY FS_Union, FS_EmptySet, FS_CardinalityType

LEMMA SetsFinite ==
    /\ \A S \in SUBSET Browsers : IsFiniteSet(S) /\ Cardinality(S) \in Nat
    /\ \A S \in SUBSET Tasks : IsFiniteSet(S) /\ Cardinality(S) \in Nat
  BY BrowsersAssumption, TasksAssumption, FS_Subset, FS_CardinalityType

\* The deque holds at least as many browsers as differ in it.
LEMMA WaitingCount == Types => Cardinality(Waiting) <= Len(deque)
<1> SUFFICES ASSUME Types PROVE Cardinality(Waiting) <= Len(deque)
  OBVIOUS
<1>1. deque \in Seq(Browsers) /\ Len(deque) \in Nat
  BY LenProperties DEF Types
<1>2. \A i \in 1 .. Len(deque) : deque[i] \in Browsers
  BY <1>1, ElementOfSeq
<1> DEFINE f == [i \in 1 .. Len(deque) |-> deque[i]]
<1>3. f \in [1 .. Len(deque) -> Waiting]
  BY <1>2 DEF Waiting, In
<1>4. \A b \in Waiting : \E i \in 1 .. Len(deque) : f[i] = b
  BY DEF Waiting, In
<1>5. f \in Surjection(1 .. Len(deque), Waiting)
  BY <1>3, <1>4 DEF Surjection
<1>6. IsFiniteSet(1 .. Len(deque)) /\ Cardinality(1 .. Len(deque)) = Len(deque)
  BY <1>1, FS_Interval
<1> QED
  BY <1>5, <1>6, FS_Surjection

\* A browser in use is in some guard.
LEMMA InUseCount ==
    Types => Cardinality(InUse) <= Cardinality({t \in Tasks : pc[t] \in Owners})
<1> SUFFICES ASSUME Types
             PROVE  Cardinality(InUse) <= Cardinality({t \in Tasks : pc[t] \in Owners})
  OBVIOUS
<1> DEFINE T == {t \in Tasks : pc[t] \in Owners}
           f == [t \in T |-> has[t]]
<1>1. \A t \in T : has[t] \in InUse
  BY DEF Types, InUse, Held
<1>2. \A b \in InUse : \E t \in T : has[t] = b
  BY NamesAssumption DEF Types, InUse, Held
<1>3. f \in Surjection(T, InUse)
  BY <1>1, <1>2 DEF Surjection
<1>4. IsFiniteSet(T)
  BY SetsFinite
<1> HIDE DEF T, f
<1>5. Cardinality(InUse) <= Cardinality(T)
  BY <1>3, <1>4, FS_Surjection
<1> QED
  BY <1>5 DEF T

\* Nobody has closed a browser yet.
OpenWhileUp == pool = "up" => closed = {}

LEMMA OpenAlways == Spec => []OpenWhileUp
<1>1. Init => OpenWhileUp
  BY DEF Init, OpenWhileUp
<1>2. OpenWhileUp /\ [Next]_vars => OpenWhileUp'
  BY DEF OpenWhileUp, Next, Enter, Leave, Spawned, Shutdown, Acquire, TakePermit, RefuseClosed, Lock,
     Pop, PopEmpty, Abandon, DropLocked, DropContended, PushBack, ReleasePermit, SpawnedLock,
     SpawnedPush, ShutdownClose, ShutdownLock, ShutdownPop, ShutdownDone, vars
<1> QED
  BY <1>1, <1>2, PTL DEF Spec

LEMMA Backed == Types /\ Placed /\ PermitsConserved /\ OpenWhileUp => PermitsBacked
<1> SUFFICES ASSUME Types, Placed, PermitsConserved, closed = {}
             PROVE  Cardinality(Served) <= Len(deque) + Cardinality(pushing)
  BY DEF OpenWhileUp, PermitsBacked
<1> DEFINE P == {t \in Tasks : pc[t] \in WithPermit}
           O == {t \in Tasks : pc[t] \in Owners}
<1>1. /\ Cardinality(P) \in Nat /\ Cardinality(O) \in Nat /\ Cardinality(Served) \in Nat
      /\ IsFiniteSet(P) /\ IsFiniteSet(O) /\ IsFiniteSet(Served)
      /\ Cardinality(Waiting) \in Nat /\ Cardinality(InUse) \in Nat /\ Cardinality(pushing) \in Nat
      /\ IsFiniteSet(Waiting) /\ IsFiniteSet(InUse) /\ IsFiniteSet(pushing)
      /\ Len(deque) \in Nat /\ permits \in Nat /\ Size \in Nat
  BY SetsFinite, SizeNat, LenProperties DEF Types, Waiting, InUse, Served
<1>2. Cardinality(Served) + Cardinality(O) <= Size
  <2>1. Served \cap O = {} /\ Served \cup O \subseteq P
    BY DEF Served
  <2>2. Cardinality(Served \cup O) = Cardinality(Served) + Cardinality(O)
    BY <1>1, <2>1, CountDisjoint
  <2>3. Cardinality(Served \cup O) <= Cardinality(P)
    BY <1>1, <2>1, FS_Subset
  <2>4. permits + Cardinality(P) = Size
    BY DEF PermitsConserved
  <2> HIDE DEF P, O
  <2> QED
    BY <1>1, <2>2, <2>3, <2>4
<1>3. Size <= Len(deque) + Cardinality(O) + Cardinality(pushing)
  <2>1. Browsers = (Waiting \cup InUse) \cup pushing
    BY DEF Placed, Waiting, InUse, Types
  <2>2. Waiting \cap InUse = {} /\ (Waiting \cup InUse) \cap pushing = {}
    BY DEF Placed, Waiting, InUse
  <2>3. /\ IsFiniteSet(Waiting \cup InUse)
        /\ Cardinality(Waiting \cup InUse) = Cardinality(Waiting) + Cardinality(InUse)
    BY <1>1, <2>2, CountDisjoint
  <2>4. Size = Cardinality(Waiting) + Cardinality(InUse) + Cardinality(pushing)
    BY <1>1, <2>1, <2>2, <2>3, CountDisjoint DEF Size
  <2>5. Cardinality(Waiting) <= Len(deque) /\ Cardinality(InUse) <= Cardinality(O)
    BY WaitingCount, InUseCount
  <2> HIDE DEF O
  <2> QED
    BY <1>1, <2>4, <2>5
<1> HIDE DEF P, O
<1> QED
  BY <1>1, <1>2, <1>3

\* Until a shutdown, each task with a permit and no browser yet has one in the deque or
\* on its way back, however many Drops meet contention: the error of acquire is about
\* time only, never about a browser that is missing.
THEOREM PoolPermitsBacked == Spec => []PermitsBacked
  BY Backed, OpenAlways, PoolAlways, PTL
=============================================================================
