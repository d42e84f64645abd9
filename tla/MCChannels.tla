---------------------------- MODULE MCChannels -----------------------------
(* Channels for TLC: interchangeable threads and values, and at any time   *)
(* few threads in an unusual state.                                        *)
EXTENDS Channels

CONSTANTS
  m, a, b, c, v, w,  \* model values
  MaxUnusual         \* bound on the suspended threads, the dead ones, the
                     \* pending breaks and the threads with breaks disabled,
                     \* taken together

MCOp == ChannelOps

Interchangeable == Permutations(Thread \ {Main}) \cup Permutations(Value)

FewUnusual ==
  Cardinality({t \in Thread : suspended[t]})
  + Cardinality({t \in Thread : Dead(t)})
  + Cardinality({t \in Thread : pendingBreak[t]})
  + Cardinality({t \in Thread : ~breakEnabled[t]}) <= MaxUnusual
=============================================================================
