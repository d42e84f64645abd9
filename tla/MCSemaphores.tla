--------------------------- MODULE MCSemaphores ----------------------------
(* Semaphores for TLC: the threads other than the main one are             *)
(* interchangeable, and at any time few threads are in an unusual state.   *)
EXTENDS Semaphores

CONSTANTS
  m, a, b, s,   \* model values
  MaxUnusual,   \* bound on the suspended threads, the dead ones, the pending
                \* breaks and the threads with breaks disabled, taken together
  MaxWaitedFor  \* bound on the dead-semas in use

Interchangeable == Permutations(Thread \ {Main})

FewUnusual ==
  /\ Cardinality({t \in Thread : suspended[t]})
     + Cardinality({t \in Thread : Dead(t)})
     + Cardinality({t \in Thread : pendingBreak[t]})
     + Cardinality({t \in Thread : ~breakEnabled[t]}) <= MaxUnusual
  /\ Cardinality(made) <= MaxWaitedFor
=============================================================================
