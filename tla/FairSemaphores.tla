--------------------------- MODULE FairSemaphores --------------------------
(***************************************************************************)
(* What semaphores promise to the threads that use them, with nothing said *)
(* of how threads block.  Every unit that is posted is used once: by a     *)
(* thread that finds it free, or by the one that has waited longest, which *)
(* the post takes out of the line together with its unit.  A thread joins  *)
(* the line only when no unit is free, passes nobody in it, and may give   *)
(* up its place, but then leaves without a unit.  One event (the end of a  *)
(* thread that waits, say) may change several semaphores, each by one of   *)
(* its steps.                                                              *)
(***************************************************************************)
EXTENDS WaitQueue, FiniteSets

CONSTANTS Thread, Semaphore

VARIABLES
  units,   \* units[s]: the units of s that were posted and are not used yet
  line,    \* line[s]: the threads waiting for s
  served,  \* served[s]: the threads with a unit of s that have yet to go on
  open     \* the semaphores posted for ever, with the count +inf.0

semaphoreVars == <<units, line, served, open>>

Init ==
  /\ units \in [Semaphore -> Nat]
  /\ line = [s \in Semaphore |-> MakeQueue]
  /\ served = [s \in Semaphore |-> {}]
  /\ open = {}

\* There is a unit that no served thread holds.
Free(s) == s \in open \/ units[s] > Cardinality(served[s])

\* One unit of s is used, unless s was posted for ever.
UseUnit(s) == units'[s] = IF s \in open THEN units[s] ELSE units[s] - 1

StaysOpen(s) == s \in open' <=> s \in open

Stays(s) ==
  /\ units'[s] = units[s] /\ line'[s] = line[s] /\ served'[s] = served[s]
  /\ StaysOpen(s)

\* A thread takes a free unit; nobody is waiting for it.
Take(s) ==
  /\ Free(s) /\ UseUnit(s)
  /\ line[s] = <<>> /\ line'[s] = <<>>
  /\ served'[s] = served[s] /\ StaysOpen(s)

\* A thread that finds no free unit goes to the end of the line.
Join(s, t) ==
  /\ ~Free(s) /\ units'[s] = units[s]
  /\ t \notin ToSet(line[s]) \cup served[s]
  /\ line'[s] = QueueAdd(line[s], t)
  /\ served'[s] = served[s] /\ StaysOpen(s)

\* One more unit: the longest waiting thread, and no other, leaves with it.
Post(s) ==
  /\ s \notin open /\ s \notin open'
  /\ units'[s] = units[s] + 1
  /\ line'[s] = QueueRemove(line[s])
  /\ served'[s] = IF line[s] = <<>> THEN served[s] ELSE served[s] \cup {Head(line[s])}

\* Everybody leaves with a unit, and nobody will have to wait again.
PostAll(s) ==
  /\ s \in open' /\ units'[s] = units[s]
  /\ line'[s] = <<>> /\ served'[s] = served[s] \cup ToSet(line[s])

\* A served thread goes on, and its unit is used: it returns from its wait,
\* or it is killed or leaves by a break after the post has reached it.
Use(s, t) ==
  /\ t \in served[s] /\ served'[s] = served[s] \ {t} /\ UseUnit(s)
  /\ line'[s] = line[s] /\ StaysOpen(s)

\* A break, a suspend or a kill takes one thread out of the line; it has no
\* unit, and all the others keep their places.
Leave(s, t) ==
  /\ t \in ToSet(line[s]) /\ line'[s] = GetOutOfLine(line[s], t)
  /\ units'[s] = units[s] /\ served'[s] = served[s] /\ StaysOpen(s)

Next ==
  \A s \in Semaphore :
    \/ Stays(s) \/ Take(s) \/ Post(s) \/ PostAll(s)
    \/ \E t \in Thread : Join(s, t) \/ Use(s, t) \/ Leave(s, t)

Spec == Init /\ [][Next]_semaphoreVars
=============================================================================
