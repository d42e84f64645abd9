---------------------------- MODULE MCScheduler -----------------------------
(* Scheduler for TLC.  No symmetry: liveness is checked.  Instead, threads  *)
(* are made in one order; and three of them do whatever they can, while     *)
(* four of them only run, poll, wait and resume each other.                 *)
EXTENDS Scheduler

CONSTANTS m, a, b, e  \* model values

Made(t) == engine[t] # "none"

\* The fourth thread is made and lives while none is dead, suspended or asleep.
FourAwake ==
  /\ Made(b) => Made(a)
  /\ Made(e) => Made(b) /\ \A t \in Thread :
       engine[t] # "done" /\ ~suspended[t] /\ sleepUntil[t] = Never
=============================================================================
