---------------------------- MODULE MCMailboxes ----------------------------
(* Mailboxes for TLC: the threads other than the main one are              *)
(* interchangeable, so are the messages, and at any time few threads are   *)
(* in an unusual state.                                                    *)
EXTENDS Mailboxes

CONSTANTS
  m, a, b,      \* threads (model values)
  x, y,         \* messages (model values)
  MaxUnusual,   \* bound on the suspended threads, the dead ones, the pending
                \* breaks and the threads with breaks disabled, taken together
  MaxReceivers  \* bound on the threads that are sent messages

Interchangeable == Permutations(Thread \ {Main}) \cup Permutations(Message)

FewUnusual ==
  /\ Cardinality({t \in Thread : suspended[t]})
     + Cardinality({t \in Thread : Dead(t)})
     + Cardinality({t \in Thread : pendingBreak[t]})
     + Cardinality({t \in Thread : ~breakEnabled[t]}) <= MaxUnusual
  /\ Cardinality({t \in Thread : sent[t] # <<>>}) <= MaxReceivers
=============================================================================
