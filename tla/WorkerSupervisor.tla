-------------------------- MODULE WorkerSupervisor --------------------------
(***************************************************************************)
(* The monitor at the end of WorkerPool::run: it owns the workers' join    *)
(* handles in a map keyed by worker id, waits for the first to end with    *)
(* select_all, puts the others back into the map and spawns the dead       *)
(* worker again.                                                           *)
(*                                                                         *)
(* A worker task carries its own id, given when it was spawned (self.id,   *)
(* in every log line); the map's key is the monitor's idea of it.          *)
(***************************************************************************)
EXTENDS Integers, Sequences, FiniteSets

CONSTANTS
    Ids,         \* 0 .. num_workers - 1
    MaxDeaths    \* bound on panics in a behaviour

ASSUME IdsAssumption == IsFiniteSet(Ids) /\ Ids # {}
ASSUME DeathsAssumption == MaxDeaths \in Nat

VARIABLES
    workers,   \* HashMap<u32, JoinHandle>: from ids to tasks
    deaths     \* panics so far

vars == <<workers, deaths>>

\* A spawned task and the id it believes it has.
Spawn(id) == [id |-> id, alive |-> TRUE]

\* Worker::run never returns (its semaphore is never closed), so a task ends by a panic.
Die(key) ==
    /\ deaths < MaxDeaths
    /\ key \in DOMAIN workers
    /\ workers[key].alive
    /\ workers' = [workers EXCEPT ![key].alive = FALSE]
    /\ deaths' = deaths + 1

\* workers.drain().unzip(): a HashMap is drained in no particular order.
Drains == {ids \in [1 .. Cardinality(DOMAIN workers) -> DOMAIN workers] :
              \A i, k \in DOMAIN ids : ids[i] = ids[k] => i = k}

\* futures::future::select_all: the index of a finished future and the remaining ones,
\* which the library hands back after a swap_remove and promises no order for.
Remaining(handles, idx) ==
    [i \in 1 .. Len(handles) - 1 |-> IF i = idx THEN handles[Len(handles)] ELSE handles[i]]

\* Mutant: off by one at the dead worker's place.
RestoredIdOffByOne(ids, idx, i) == IF i > idx THEN ids[i + 1] ELSE ids[i]

\* The id under which the monitor restores the i-th remaining handle.
RestoredId(ids, idx, i) == IF i >= idx THEN ids[i + 1] ELSE ids[i]

\* A later insert under the same key replaces the earlier one.
Restored(ids, idx, handles) ==
    LET rest == Remaining(handles, idx)
        keys == {RestoredId(ids, idx, i) : i \in DOMAIN rest}
        last(key) == CHOOSE i \in DOMAIN rest :
                        /\ RestoredId(ids, idx, i) = key
                        /\ \A k \in DOMAIN rest : RestoredId(ids, idx, k) = key => k <= i
    IN  [key \in keys |-> rest[last(key)]]

\* Mutants: the worker is respawned under the next number; it is not put back at all.
RespawnUnderNumber ==
    \E ids \in Drains :
        LET handles == [i \in DOMAIN ids |-> workers[ids[i]]]
        IN  \E idx \in DOMAIN ids :
               /\ ~ handles[idx].alive
               /\ LET restored == Restored(ids, idx, handles)
                      key == Cardinality(DOMAIN workers)
                  IN  workers' = [k \in DOMAIN restored \cup {key} |->
                                    IF k = key THEN Spawn(k) ELSE restored[k]]
               /\ UNCHANGED deaths

RespawnForgets ==
    \E ids \in Drains :
        LET handles == [i \in DOMAIN ids |-> workers[ids[i]]]
        IN  \E idx \in DOMAIN ids :
               /\ ~ handles[idx].alive
               /\ workers' = Restored(ids, idx, handles)
               /\ UNCHANGED deaths

\* One round of the monitor's loop.  Nothing else touches the map, so a round is one step.
Respawn ==
    \E ids \in Drains :
        LET handles == [i \in DOMAIN ids |-> workers[ids[i]]]
        IN  \E idx \in DOMAIN ids :
               /\ ~ handles[idx].alive
               /\ \A i \in 1 .. idx - 1 : handles[i].alive
               /\ LET restored == Restored(ids, idx, handles)
                  IN  workers' = [key \in DOMAIN restored \cup {ids[idx]} |->
                                    IF key = ids[idx] THEN Spawn(key) ELSE restored[key]]
               /\ UNCHANGED deaths

Init ==
    /\ workers = [id \in Ids |-> Spawn(id)]
    /\ deaths = 0

Next == Respawn \/ \E key \in Ids : Die(key)

\* The runtime polls the monitor; nothing makes a worker die.
Spec == Init /\ [][Next]_vars /\ WF_vars(Respawn)

-----------------------------------------------------------------------------

TypeOK ==
    /\ DOMAIN workers \subseteq Ids
    /\ \A key \in DOMAIN workers : workers[key] \in [id : Ids, alive : BOOLEAN]
    /\ deaths \in 0 .. MaxDeaths

\* Restoring the handles never writes two of them under one id: a handle overwritten in
\* the map would leave a worker that is never respawned.
NoHandleLost == DOMAIN workers = Ids

\* The pool is refilled: once panics stop, all workers are alive again.
PoolRefills == <>[](\A id \in Ids : id \in DOMAIN workers /\ workers[id].alive)
=============================================================================
