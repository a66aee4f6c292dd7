---------------------------- MODULE JobLifecycle ----------------------------
(***************************************************************************)
(* What the job queue promises its users, without locks, statements in     *)
(* flight, permits or time: the life of each job and who works on it.      *)
(*                                                                         *)
(* A job waits, is taken by one worker while nobody else works on it, and  *)
(* ends with an outcome.  Its outcome may still be rewritten by another    *)
(* one, but a job that has an outcome never waits again, and one that is   *)
(* put back has been left by everybody.  JobQueue implements this.         *)
(***************************************************************************)
EXTENDS NuqTables

CONSTANTS Jobs, Workers

VARIABLES
    status,    \* of each job
    runners    \* who works on it, or still answers for it

vars == <<status, runners>>

Nobody(j) == runners[j] = {}

Init ==
    /\ status = [j \in Jobs |-> "absent"]
    /\ runners = [j \in Jobs |-> {}]

Submit(j) ==
    /\ status[j] = "absent"
    /\ status' = [status EXCEPT ![j] = "queued"]
    /\ UNCHANGED runners

Cancel(j) ==
    /\ status[j] \in Pending
    /\ status' = [status EXCEPT ![j] = "cancelled"]
    /\ UNCHANGED runners

Take(w, j) ==
    /\ status[j] = "queued"
    /\ Nobody(j)
    /\ status' = [status EXCEPT ![j] = "active"]
    /\ runners' = [runners EXCEPT ![j] = {w}]

\* The job is taken but whoever took it never hears of it.
TakeUnheard(j) ==
    /\ status[j] = "queued"
    /\ Nobody(j)
    /\ status' = [status EXCEPT ![j] = "active"]
    /\ UNCHANGED runners

\* A job gets its outcome only while it is taken or when it has one.
Settle(j, outcome) ==
    /\ status[j] \in Terminal \cup {"active"}
    /\ status' = [status EXCEPT ![j] = outcome]

\* The outcome is reported by the runner, who goes on or leaves, or by a message the
\* last runner left behind.
SettleAndStay(j, outcome) == Settle(j, outcome) /\ UNCHANGED runners

SettleAndLeave(w, j, outcome) ==
    /\ runners[j] = {w}
    /\ Settle(j, outcome)
    /\ runners' = [runners EXCEPT ![j] = {}]

Leave(w, j) ==
    /\ runners[j] = {w}
    /\ runners' = [runners EXCEPT ![j] = {}]
    /\ UNCHANGED status

\* Everybody is gone.
Crash ==
    /\ runners' = [j \in Jobs |-> {}]
    /\ UNCHANGED status

\* Taken jobs that everybody has left wait again.
PutBack(S) ==
    /\ \A j \in S : status[j] = "active" /\ Nobody(j)
    /\ status' = [j \in Jobs |-> IF j \in S THEN "queued" ELSE status[j]]
    /\ UNCHANGED runners

GiveUp(S) ==
    /\ \A j \in S : status[j] = "queued" /\ Nobody(j)
    /\ status' = [j \in Jobs |-> IF j \in S THEN "failed" ELSE status[j]]
    /\ UNCHANGED runners

Next ==
    \/ \E S \in SUBSET Jobs : PutBack(S) \/ GiveUp(S)
    \/ \E j \in Jobs :
          \/ Submit(j) \/ Cancel(j) \/ TakeUnheard(j)
          \/ \E outcome \in {"completed", "failed"} : SettleAndStay(j, outcome)
          \/ \E w \in Workers :
                \/ Take(w, j) \/ Leave(w, j)
                \/ \E outcome \in {"completed", "failed"} : SettleAndLeave(w, j, outcome)
    \/ Crash

Spec == Init /\ [][Next]_vars
=============================================================================
