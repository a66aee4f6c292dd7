----------------------- MODULE WorkerSupervisorProofs -----------------------
(***************************************************************************)
(* Proofs about WorkerSupervisor, for any finite set of worker ids and any *)
(* number of panics: the ids the monitor restores, taken together, are     *)
(* those of the workers that live, although the handles beside them may    *)
(* have changed places.                                                    *)
(***************************************************************************)
EXTENDS WorkerSupervisor, FiniteSetTheorems, TLAPS

Task == [id : Ids, alive : BOOLEAN]

Whole == workers \in [Ids -> Task] /\ deaths \in 0 .. MaxDeaths

\* A drain lists every id of the map once.
LEMMA DrainsAll ==
    ASSUME DOMAIN workers = Ids, NEW ids \in Drains
    PROVE  /\ DOMAIN ids = 1 .. Cardinality(Ids) /\ Cardinality(Ids) \in Nat \ {0}
           /\ \A i \in DOMAIN ids : ids[i] \in Ids
           /\ \A i, k \in DOMAIN ids : ids[i] = ids[k] => i = k
           /\ \A id \in Ids : \E i \in DOMAIN ids : ids[i] = id
<1> DEFINE n == Cardinality(Ids)
<1>1. n \in Nat \ {0}
  BY IdsAssumption, FS_CardinalityType, FS_EmptySet
<1>2. ids \in [1 .. n -> Ids] /\ \A i, k \in 1 .. n : ids[i] = ids[k] => i = k
  BY DEF Drains
<1>3. ids \in Injection(1 .. n, Ids)
  BY <1>2 DEF Injection, IsInjective
<1>4. Cardinality(1 .. n) = n
  BY <1>1, FS_Interval
<1>5. ids \in Surjection(1 .. n, Ids)
  BY <1>3, <1>4, IdsAssumption, FS_Injection
<1> QED
  BY <1>1, <1>2, <1>5 DEF Surjection

\* The ids that are restored: all but the dead worker's, each once.
LEMMA RestoredIds ==
    ASSUME DOMAIN workers = Ids, NEW ids \in Drains, NEW idx \in DOMAIN ids
    PROVE  LET n == Cardinality(Ids)
           IN  /\ \A i \in 1 .. n - 1 : RestoredId(ids, idx, i) \in Ids \ {ids[idx]}
               /\ \A i, k \in 1 .. n - 1 : RestoredId(ids, idx, i) = RestoredId(ids, idx, k) => i = k
               /\ \A id \in Ids \ {ids[idx]} : \E i \in 1 .. n - 1 : RestoredId(ids, idx, i) = id
<1> DEFINE n == Cardinality(Ids)
<1>0. /\ n \in Nat \ {0} /\ DOMAIN ids = 1 .. n
      /\ \A i \in 1 .. n : ids[i] \in Ids
      /\ \A i, k \in 1 .. n : ids[i] = ids[k] => i = k
      /\ \A id \in Ids : \E i \in 1 .. n : ids[i] = id
  BY DrainsAll
<1> HIDE DEF n
<1>1. ASSUME NEW i \in 1 .. n - 1
      PROVE  \E m \in 1 .. n : /\ m # idx /\ RestoredId(ids, idx, i) = ids[m]
                               /\ m = IF i >= idx THEN i + 1 ELSE i
  BY <1>0 DEF RestoredId
<1>2. \A i \in 1 .. n - 1 : RestoredId(ids, idx, i) \in Ids \ {ids[idx]}
  BY <1>0, <1>1
<1>3. ASSUME NEW i \in 1 .. n - 1, NEW k \in 1 .. n - 1, RestoredId(ids, idx, i) = RestoredId(ids, idx, k)
      PROVE  i = k
  BY <1>0, <1>1, <1>3
<1>4. ASSUME NEW id \in Ids \ {ids[idx]}
      PROVE  \E i \in 1 .. n - 1 : RestoredId(ids, idx, i) = id
  <2>1. PICK m \in 1 .. n : ids[m] = id
    BY <1>0
  <2>2. CASE m > idx
    <3>1. m - 1 \in 1 .. n - 1 /\ m - 1 >= idx /\ (m - 1) + 1 = m
      BY <1>0, <2>2
    <3> QED
      BY <2>1, <3>1 DEF RestoredId
  <2>3. CASE m < idx
    <3>1. m \in 1 .. n - 1 /\ ~ (m >= idx)
      BY <1>0, <2>3
    <3> QED
      BY <2>1, <3>1 DEF RestoredId
  <2>4. m # idx
    BY <2>1
  <2> QED
    BY <1>0, <2>2, <2>3, <2>4
<1> QED
  BY <1>2, <1>3, <1>4 DEF n

\* The map that is restored has a task for every id but the dead worker's.
LEMMA RestoredMap ==
    ASSUME workers \in [Ids -> Task], NEW ids \in Drains, NEW idx \in DOMAIN ids
    PROVE  LET handles == [i \in DOMAIN ids |-> workers[ids[i]]]
           IN  Restored(ids, idx, handles) \in [Ids \ {ids[idx]} -> Task]
<1> DEFINE n == Cardinality(Ids)
           handles == [i \in DOMAIN ids |-> workers[ids[i]]]
           rest == Remaining(handles, idx)
           keys == {RestoredId(ids, idx, i) : i \in DOMAIN rest}
           Last(key) == CHOOSE i \in DOMAIN rest :
                        /\ RestoredId(ids, idx, i) = key
                        /\ \A k \in DOMAIN rest : RestoredId(ids, idx, k) = key => k <= i
<1>0. /\ n \in Nat \ {0} /\ DOMAIN ids = 1 .. n
      /\ \A i \in 1 .. n : ids[i] \in Ids
  BY DrainsAll
<1>1. handles \in [1 .. n -> Task] /\ Len(handles) = n
  <2>1. handles \in [1 .. n -> Task]
    BY <1>0
  <2>2. handles \in Seq(Task) /\ DOMAIN handles = 1 .. n
    BY <1>0, <2>1
  <2> QED
    BY <1>0, <2>1, <2>2
<1> HIDE DEF handles
<1>2. rest \in [1 .. n - 1 -> Task]
  BY <1>0, <1>1 DEF Remaining
<1> HIDE DEF n, rest
<1>3. keys = Ids \ {ids[idx]}
  BY <1>2, RestoredIds DEF n
<1>4. ASSUME NEW key \in keys PROVE Last(key) \in DOMAIN rest
  <2>1. PICK i \in DOMAIN rest : RestoredId(ids, idx, i) = key
    OBVIOUS
  <2>2. \A k \in DOMAIN rest : RestoredId(ids, idx, k) = key => k = i
    BY <1>2, <2>1, RestoredIds DEF n
  <2>3. i \in Int
    BY <1>0, <1>2
  <2> QED
    BY <2>1, <2>2, <2>3
<1>5. Restored(ids, idx, handles) = [key \in keys |-> rest[Last(key)]]
  BY DEF Restored, rest
<1> HIDE DEF keys, Last
<1>6. Restored(ids, idx, handles) \in [Ids \ {ids[idx]} -> Task]
  BY <1>2, <1>3, <1>4, <1>5
<1> QED
  BY <1>6 DEF handles

LEMMA WholeInit == Init => Whole
  BY DeathsAssumption DEF Init, Whole, Spawn, Task

LEMMA WholeStep == Whole /\ [Next]_vars => Whole'
<1> SUFFICES ASSUME Whole, [Next]_vars PROVE Whole'
  OBVIOUS
<1>1. ASSUME NEW key \in Ids, Die(key) PROVE Whole'
  <2>1. workers[key] \in [id : Ids, alive : BOOLEAN]
    BY DEF Whole, Task
  <2>2. [workers[key] EXCEPT !.alive = FALSE] \in Task
    BY <2>1 DEF Task
  <2> QED
    BY <1>1, <2>2, DeathsAssumption DEF Die, Whole
<1>2. CASE Respawn
  <2>0. PICK ids \in Drains :
           \E idx \in DOMAIN ids :
              LET restored == Restored(ids, idx, [i \in DOMAIN ids |-> workers[ids[i]]])
              IN  /\ workers' = [key \in DOMAIN restored \cup {ids[idx]} |->
                                   IF key = ids[idx] THEN Spawn(key) ELSE restored[key]]
                  /\ UNCHANGED deaths
    BY <1>2 DEF Respawn
  <2>1. PICK idx \in DOMAIN ids :
           LET restored == Restored(ids, idx, [i \in DOMAIN ids |-> workers[ids[i]]])
           IN  /\ workers' = [key \in DOMAIN restored \cup {ids[idx]} |->
                                IF key = ids[idx] THEN Spawn(key) ELSE restored[key]]
               /\ UNCHANGED deaths
    BY <2>0
  <2> DEFINE restored == Restored(ids, idx, [i \in DOMAIN ids |-> workers[ids[i]]])
  <2>2. restored \in [Ids \ {ids[idx]} -> Task]
    BY RestoredMap DEF Whole
  <2>3. ids[idx] \in Ids
    BY DrainsAll DEF Whole
  <2>4. Spawn(ids[idx]) \in Task
    BY <2>3 DEF Spawn, Task
  <2>5. workers' = [key \in DOMAIN restored \cup {ids[idx]} |->
                     IF key = ids[idx] THEN Spawn(key) ELSE restored[key]]
    BY <2>1
  <2> HIDE DEF restored
  <2>6. workers' \in [Ids -> Task]
    BY <2>2, <2>3, <2>4, <2>5
  <2> QED
    BY <2>1, <2>6 DEF Whole
<1>3. CASE UNCHANGED vars
  BY <1>3 DEF vars, Whole
<1> QED
  BY <1>1, <1>2, <1>3 DEF Next

LEMMA WholeAlways == Spec => []Whole
  BY WholeInit, WholeStep, PTL DEF Spec

\* The map never holds anything but tasks under worker ids.
THEOREM SupervisorTypeCorrect == Spec => []TypeOK
<1>1. Whole => TypeOK
  BY DEF Whole, TypeOK, Task
<1> QED
  BY <1>1, WholeAlways, PTL

\* However select_all shuffles the handles and the map is drained, every worker id has a
\* handle after each round: none is overwritten, for any number of workers and panics.
THEOREM HandlesKept == Spec => []NoHandleLost
<1>1. Whole => NoHandleLost
  BY DEF Whole, NoHandleLost
<1> QED
  BY <1>1, WholeAlways, PTL
=============================================================================
