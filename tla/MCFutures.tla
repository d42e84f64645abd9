----------------------------- MODULE MCFutures ------------------------------
(* Futures for TLC.  No symmetry: liveness is checked.                     *)
EXTENDS Futures

CONSTANTS v, w  \* model values

\* Two futures perform one operation each; and, without future semaphores and
\* the shutdown of the custodian, two futures perform one and two atomic operations,
\* so that one is in future_waiting_atomic twice (PushAtomic), and the third of
\* three futures performs two operations, so that its touch is completed twice
\* (Chain).
FewCalls ==
  \/ status[3] = "none" /\ \A f \in Future : calls[f] <= 1
  \/ /\ posts = 0 /\ alive
     /\ \/ calls[1] = 0 /\ calls[2] = 0
        \/ /\ status[3] = "none" /\ calls[1] <= 1
           /\ \A f \in Future : prim[f] \in {"none", "atomic"} /\ target[f] = NoFuture
=============================================================================
