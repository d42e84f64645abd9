------------------------- MODULE SemaphoresProofs --------------------------
(***************************************************************************)
(* Proofs, for any set of threads and of semaphores, of the properties of  *)
(* module Semaphores, for programs that make no use of the corners of the  *)
(* API where the code goes wrong.                                          *)
(***************************************************************************)
EXTENDS Semaphores, ThreadsTheorems, FiniteSetTheorems

----------------------------------------------------------------------------
(* The inductive invariant.                                                *)

\* The engines and the thread group say the same of a thread: the running
\* one is the current one, the schedulable ones are those without callback,
\* the current one has no callback until it blocks, and the end of the main
\* thread ends the program.
SemaScheduling ==
  /\ \A t \in Thread : engine[t] = "running" <=> current = t
  /\ \A t \in Thread : t \in group <=> Live(t) /\ intr[t] = "none"
  /\ \A t \in Thread : current = t /\ pc[t] # "block" => intr[t] = "none"
  /\ status = "up" => Live(Main)

\* What the interrupt callback of a thread says of it.
SemaCallbacks ==
  \A t \in Thread :
    /\ ~Made(t) => intr[t] = "none" /\ ~suspended[t] /\ op[t] = NoOp
    /\ intr[t] = "wait" => Live(t) /\ ~suspended[t] /\ op[t] \in Op
    /\ intr[t] = "suspend" => Live(t) /\ suspended[t]
    /\ Live(t) => (suspended[t] <=> intr[t] \in {"void", "suspend"})
    /\ op[t] # t

\* A thread stands in a line if and only if its callback is that line's.
Lines ==
  \A s \in Op :
    /\ NoDuplicates(queue[s])
    /\ \A t \in Thread :
         t \in ToSet(queue[s]) <=> intr[t] = "wait" /\ op[t] = s

\* Units, dead-semas and lines.
Units ==
  /\ \A s \in Op : Positive(s) => queue[s] = <<>>
  /\ \A u \in Thread : u \in open <=> u \in made /\ Dead(u)
  /\ \A t, u \in Thread : op[t] = u => u \in made

\* A retry is pending only inside of a blocking operation, and a thread that
\* runs or waits has no break it could have raised.
Breaks ==
  \A t \in Thread :
    /\ Live(t) /\ (needsRetry[t] \/ intr[t] = "wait") => pc[t] \in {"block", "woken"}
    /\ ~Made(t) => ~needsRetry[t] /\ ~pendingBreak[t]
    /\ pendingBreak[t] /\ breakEnabled[t] /\ current = t =>
         needsRetry[t] \/ pc[t] = "check"
    /\ pendingBreak[t] /\ breakEnabled[t] => intr[t] # "wait"

IInv ==
  SemaTypeOK /\ NeverCorrupted /\ SemaScheduling /\ SemaCallbacks /\ Lines /\ Units /\ Breaks
----------------------------------------------------------------------------
(* Facts that several steps use.                                           *)

\* The initial state satisfies the invariant.
LEMMA InitEstablishes ==
  Init => IInv
<1> SUFFICES ASSUME Init PROVE IInv
  OBVIOUS
<1> USE ThreadsAssumption, SemaphoresAssumption, EmptyLine
    DEF Init, ThreadInit, MakeQueue, IInv
<1>1. SemaTypeOK
  BY DEF SemaTypeOK, ThreadTypeOK
<1>2. NeverCorrupted /\ SemaScheduling /\ SemaCallbacks
  BY DEF NeverCorrupted, SemaScheduling, SemaCallbacks, Live, Made, Dead
<1>3. Lines
  BY DEF Lines
<1>4. Units /\ Breaks
  BY DEF Units, Breaks, Positive, Live, Made, Dead
<1> QED
  BY <1>1, <1>2, <1>3, <1>4

\* The interrupt callback of u takes u out of every line, and nobody else.
LEMMA InterruptLines ==
  ASSUME SemaTypeOK, SemaCallbacks, Lines, NEW u \in Thread
  PROVE  /\ LineInterrupt(u) \in [Op -> Seq(Thread)]
         /\ \A s \in Op :
              /\ NoDuplicates(LineInterrupt(u)[s])
              /\ ToSet(LineInterrupt(u)[s]) = ToSet(queue[s]) \ {u}
              /\ queue[s] = <<>> => LineInterrupt(u)[s] = <<>>
<1>1. queue \in [Op -> Seq(Thread)]
  BY DEF SemaTypeOK
<1>2. CASE intr[u] = "wait"
  <2>1. op[u] \in Op /\ u \in ToSet(queue[op[u]]) /\ NoDuplicates(queue[op[u]])
    BY <1>2 DEF SemaCallbacks, Lines
  <2>2. /\ GetOutOfLine(queue[op[u]], u) \in Seq(Thread)
        /\ ToSet(GetOutOfLine(queue[op[u]], u)) = ToSet(queue[op[u]]) \ {u}
        /\ NoDuplicates(GetOutOfLine(queue[op[u]], u))
    BY <1>1, <2>1, LeaveLine
  <2>3. LineInterrupt(u) =
          [queue EXCEPT ![op[u]] = GetOutOfLine(queue[op[u]], u)]
    BY <1>2 DEF LineInterrupt
  <2>4. \A s \in Op : s # op[u] => u \notin ToSet(queue[s])
    BY DEF Lines
  <2>5. queue[op[u]] # <<>>
    BY <2>1, EmptyLine DEF MakeQueue
  <2> QED
    BY <1>1, <2>1, <2>2, <2>3, <2>4, <2>5 DEF Lines
<1>3. CASE intr[u] # "wait"
  BY <1>1, <1>3 DEF LineInterrupt, Lines
<1> QED
  BY <1>2, <1>3

\* The threads in line for the death of u are those that thread-dead! finds;
\* each can be resumed, and u is not one of them.
LEMMA DeadWaitersFacts ==
  ASSUME IInv, NEW u \in Thread
  PROVE  /\ DeadWaiters(u) = {t \in Thread : intr[t] = "wait" /\ op[t] = u}
         /\ u \notin DeadWaiters(u)
         /\ ResumeStatus(DeadWaiters(u)) = "up"
<1>1. u \in Op /\ queue[u] \in Seq(Thread)
  BY SemaphoresAssumption DEF IInv, SemaTypeOK
<1>2. ToSet(queue[u]) \subseteq Thread
  BY <1>1, EmptyLineSet
<1>3. DeadWaiters(u) = {t \in Thread : intr[t] = "wait" /\ op[t] = u}
  <2>1. CASE u \in made
    BY <1>1, <1>2, <2>1 DEF DeadWaiters, IInv, Lines
  <2>2. CASE u \notin made
    BY <2>2 DEF DeadWaiters, IInv, Units
  <2> QED
    BY <2>1, <2>2
<1>4. u \notin DeadWaiters(u)
  BY <1>3 DEF IInv, SemaCallbacks
<1>5. \A t \in DeadWaiters(u) : Live(t) /\ t \notin group
  BY <1>3 DEF IInv, SemaCallbacks, SemaScheduling
<1> QED
  BY <1>3, <1>4, <1>5, ResumeUp

\* The lines after thread-dead!.
LEMMA DeadLinesFacts ==
  ASSUME IInv, NEW u \in Thread, DeadLines(u)
  PROVE  /\ queue' \in [Op -> Seq(Thread)]
         /\ \A s \in Op :
              /\ NoDuplicates(queue'[s])
              /\ ToSet(queue'[s]) = IF s = u THEN {} ELSE ToSet(queue[s]) \ {u}
              /\ queue[s] = <<>> => queue'[s] = <<>>
<1> DEFINE q == LineInterrupt(u)
<1>1. u \in Op /\ queue \in [Op -> Seq(Thread)]
  BY SemaphoresAssumption DEF IInv, SemaTypeOK
<1>2. /\ q \in [Op -> Seq(Thread)]
      /\ \A s \in Op : NoDuplicates(q[s]) /\ ToSet(q[s]) = ToSet(queue[s]) \ {u}
  BY InterruptLines DEF IInv
<1>3. queue' = IF u \in made THEN [q EXCEPT ![u] = <<>>] ELSE q
  BY DEF DeadLines
<1> HIDE DEF q
<1>4. queue' \in [Op -> Seq(Thread)]
  BY <1>1, <1>2, <1>3
<1>5. ASSUME NEW s \in Op, s # u
      PROVE  NoDuplicates(queue'[s]) /\ ToSet(queue'[s]) = ToSet(queue[s]) \ {u}
  BY <1>1, <1>2, <1>3, <1>5
<1>6. NoDuplicates(queue'[u]) /\ ToSet(queue'[u]) = {}
  <2>1. CASE u \in made
    <3>1. queue'[u] = <<>>
      BY <1>1, <1>2, <1>3, <2>1
    <3> QED
      BY <3>1, EmptyLine DEF MakeQueue
  <2>2. CASE u \notin made
    <3>1. queue'[u] = q[u]
      BY <1>3, <2>2
    <3>2. \A t \in Thread : t \notin ToSet(queue[u])
      BY <1>1, <2>2 DEF IInv, Lines, Units
    <3>3. ToSet(queue[u]) \subseteq Thread
      BY <1>1, EmptyLineSet
    <3> QED
      BY <1>1, <1>2, <3>1, <3>2, <3>3
  <2> QED
    BY <2>1, <2>2
<1>7. ASSUME NEW s \in Op, queue[s] = <<>>
      PROVE  queue'[s] = <<>>
  <2>1. ToSet(queue[s]) = {}
    BY <1>7, EmptyLine DEF MakeQueue
  <2>2. ToSet(queue'[s]) = {}
    BY <2>1, <1>5, <1>6
  <2> QED
    BY <1>4, <2>2, EmptyLineSet
<1> QED
  BY <1>4, <1>5, <1>6, <1>7

----------------------------------------------------------------------------
(* One lemma per action: it keeps the invariant.                           *)

\* swap-in-thread, with the check for a break.
LEMMA SwapInKeepsIInv ==
  ASSUME Corners = {}, IInv, NEW t \in Thread,
         SwapIn(t), UNCHANGED semaVars
  PROVE  IInv'
<1> USE ThreadsAssumption, SemaphoresAssumption DEF SwapIn, semaVars, IInv
<1>1. SemaTypeOK'
  BY DEF SemaTypeOK, ThreadTypeOK, CheckForBreak, BreakDue
<1>2. NeverCorrupted'
  BY DEF NeverCorrupted, SemaTypeOK, ThreadTypeOK, SemaScheduling, SemaCallbacks, Live, Made, Dead
<1>3. SemaScheduling'
  BY DEF SemaTypeOK, ThreadTypeOK, SemaScheduling, SemaCallbacks, Live, Made, Dead, CheckForBreak
<1>4. SemaCallbacks'
  BY DEF SemaTypeOK, ThreadTypeOK, SemaScheduling, SemaCallbacks, Live, Made, Dead, CheckForBreak
<1>5. Lines'
  BY DEF SemaTypeOK, ThreadTypeOK, SemaScheduling, SemaCallbacks, Lines, Live, Made, Dead, CheckForBreak
<1>6. Units'
  BY DEF SemaTypeOK, ThreadTypeOK, SemaScheduling, SemaCallbacks, Units, Positive, Live, Made, Dead, CheckForBreak
<1>7. Breaks'
  <2>1. /\ intr[t] = "none" /\ Live(t)
        /\ \A u \in Thread : u # t => pc'[u] = pc[u] /\ pendingBreak'[u] = pendingBreak[u]
        /\ \A u \in Thread : u # t => (Live(u)' <=> Live(u)) /\ (Made(u)' <=> Made(u))
        /\ Made(t)'
    BY DEF SemaTypeOK, ThreadTypeOK, SemaScheduling, CheckForBreak, Live, Made, Dead
  <2>2. \A u \in Thread : u # t => current' # u
    OBVIOUS
  <2>3. pendingBreak'[t] /\ breakEnabled[t] => needsRetry[t]
    BY DEF SemaTypeOK, ThreadTypeOK, CheckForBreak, BreakDue
  <2>4. needsRetry[t] => pc'[t] = pc[t]
    BY DEF SemaTypeOK, ThreadTypeOK, CheckForBreak, BreakDue
  <2> QED
    BY <2>1, <2>2, <2>3, <2>4 DEF Breaks
<1> QED
  BY <1>1, <1>2, <1>3, <1>4, <1>5, <1>6, <1>7

\* The timer.
LEMMA PreemptKeepsIInv ==
  ASSUME Corners = {}, IInv, NEW t \in Thread,
         Preempt(t), UNCHANGED semaVars
  PROVE  IInv'
<1> USE ThreadsAssumption, SemaphoresAssumption DEF Preempt, Expire, semaVars, IInv
<1>1. SemaTypeOK'
  BY DEF SemaTypeOK, ThreadTypeOK
<1>2. NeverCorrupted'
  BY DEF NeverCorrupted, SemaTypeOK, ThreadTypeOK, SemaScheduling, SemaCallbacks, Live, Made, Dead
<1>3. SemaScheduling'
  BY DEF SemaTypeOK, ThreadTypeOK, SemaScheduling, SemaCallbacks, Live, Made, Dead
<1>4. SemaCallbacks'
  BY DEF SemaTypeOK, ThreadTypeOK, SemaScheduling, SemaCallbacks, Live, Made, Dead
<1>5. Lines'
  BY DEF SemaTypeOK, ThreadTypeOK, SemaScheduling, SemaCallbacks, Lines, Live, Made, Dead
<1>6. Units'
  BY DEF SemaTypeOK, ThreadTypeOK, SemaScheduling, SemaCallbacks, Units, Positive, Live, Made, Dead
<1>7. Breaks'
  BY DEF SemaTypeOK, ThreadTypeOK, SemaScheduling, SemaCallbacks, Breaks, Live, Made, Dead
<1> QED
  BY <1>1, <1>2, <1>3, <1>4, <1>5, <1>6, <1>7

\* engine-block.
LEMMA EngineBlockKeepsIInv ==
  ASSUME Corners = {}, IInv, NEW t \in Thread,
         EngineBlock(t), UNCHANGED semaVars
  PROVE  IInv'
<1> USE ThreadsAssumption, SemaphoresAssumption DEF EngineBlock, Expire, Running, semaVars, IInv
<1>1. SemaTypeOK'
  BY DEF SemaTypeOK, ThreadTypeOK
<1>2. NeverCorrupted'
  BY DEF NeverCorrupted, SemaTypeOK, ThreadTypeOK, SemaScheduling, SemaCallbacks, Live, Made, Dead
<1>3. SemaScheduling'
  BY DEF SemaTypeOK, ThreadTypeOK, SemaScheduling, SemaCallbacks, Live, Made, Dead
<1>4. SemaCallbacks'
  BY DEF SemaTypeOK, ThreadTypeOK, SemaScheduling, SemaCallbacks, Live, Made, Dead
<1>5. Lines'
  BY DEF SemaTypeOK, ThreadTypeOK, SemaScheduling, SemaCallbacks, Lines, Live, Made, Dead
<1>6. Units'
  BY DEF SemaTypeOK, ThreadTypeOK, SemaScheduling, SemaCallbacks, Units, Positive, Live, Made, Dead
<1>7. Breaks'
  BY DEF SemaTypeOK, ThreadTypeOK, SemaScheduling, SemaCallbacks, Breaks, Live, Made, Dead
<1> QED
  BY <1>1, <1>2, <1>3, <1>4, <1>5, <1>6, <1>7

\* check-for-retrying-break.
LEMMA CheckForRetryingBreakKeepsIInv ==
  ASSUME Corners = {}, IInv, NEW t \in Thread,
         CheckForRetryingBreak(t), UNCHANGED semaVars
  PROVE  IInv'
<1> USE ThreadsAssumption, SemaphoresAssumption DEF CheckForRetryingBreak, Running, semaVars, IInv
<1>1. SemaTypeOK'
  BY DEF SemaTypeOK, ThreadTypeOK
<1>2. NeverCorrupted'
  BY DEF NeverCorrupted, SemaTypeOK, ThreadTypeOK, SemaScheduling, SemaCallbacks, Live, Made, Dead
<1>3. SemaScheduling'
  BY DEF SemaTypeOK, ThreadTypeOK, SemaScheduling, SemaCallbacks, Live, Made, Dead
<1>4. SemaCallbacks'
  BY DEF SemaTypeOK, ThreadTypeOK, SemaScheduling, SemaCallbacks, Live, Made, Dead
<1>5. Lines'
  BY DEF SemaTypeOK, ThreadTypeOK, SemaScheduling, SemaCallbacks, Lines, Live, Made, Dead
<1>6. Units'
  BY DEF SemaTypeOK, ThreadTypeOK, SemaScheduling, SemaCallbacks, Units, Positive, Live, Made, Dead
<1>7. Breaks'
  BY DEF SemaTypeOK, ThreadTypeOK, SemaScheduling, SemaCallbacks, Breaks, Live, Made, Dead
<1> QED
  BY <1>1, <1>2, <1>3, <1>4, <1>5, <1>6, <1>7

\* check-for-break.
LEMMA CheckBreakKeepsIInv ==
  ASSUME Corners = {}, IInv, NEW t \in Thread,
         CheckBreak(t), UNCHANGED semaVars
  PROVE  IInv'
<1> USE ThreadsAssumption, SemaphoresAssumption DEF CheckBreak, CheckForBreak, BreakDue, Running, semaVars, IInv
<1>1. SemaTypeOK'
  BY DEF SemaTypeOK, ThreadTypeOK
<1>2. NeverCorrupted'
  BY DEF NeverCorrupted, SemaTypeOK, ThreadTypeOK, SemaScheduling, SemaCallbacks, Live, Made, Dead
<1>3. SemaScheduling'
  BY DEF SemaTypeOK, ThreadTypeOK, SemaScheduling, SemaCallbacks, Live, Made, Dead
<1>4. SemaCallbacks'
  BY DEF SemaTypeOK, ThreadTypeOK, SemaScheduling, SemaCallbacks, Live, Made, Dead
<1>5. Lines'
  BY DEF SemaTypeOK, ThreadTypeOK, SemaScheduling, SemaCallbacks, Lines, Live, Made, Dead
<1>6. Units'
  BY DEF SemaTypeOK, ThreadTypeOK, SemaScheduling, SemaCallbacks, Units, Positive, Live, Made, Dead
<1>7. Breaks'
  BY DEF SemaTypeOK, ThreadTypeOK, SemaScheduling, SemaCallbacks, Breaks, Live, Made, Dead
<1> QED
  BY <1>1, <1>2, <1>3, <1>4, <1>5, <1>6, <1>7

\* A change of the break-enabled mark, followed by a check.
LEMMA SetBreakEnabledKeepsIInv ==
  ASSUME Corners = {}, IInv, NEW t \in Thread, NEW on \in BOOLEAN,
         SetBreakEnabled(t, on), UNCHANGED semaVars
  PROVE  IInv'
<1> USE ThreadsAssumption, SemaphoresAssumption DEF SetBreakEnabled, Running, semaVars, IInv
<1>1. SemaTypeOK'
  BY DEF SemaTypeOK, ThreadTypeOK
<1>2. NeverCorrupted'
  BY DEF NeverCorrupted, SemaTypeOK, ThreadTypeOK, SemaScheduling, SemaCallbacks, Live, Made, Dead
<1>3. SemaScheduling'
  BY DEF SemaTypeOK, ThreadTypeOK, SemaScheduling, SemaCallbacks, Live, Made, Dead
<1>4. SemaCallbacks'
  BY DEF SemaTypeOK, ThreadTypeOK, SemaScheduling, SemaCallbacks, Live, Made, Dead
<1>5. Lines'
  BY DEF SemaTypeOK, ThreadTypeOK, SemaScheduling, SemaCallbacks, Lines, Live, Made, Dead
<1>6. Units'
  BY DEF SemaTypeOK, ThreadTypeOK, SemaScheduling, SemaCallbacks, Units, Positive, Live, Made, Dead
<1>7. Breaks'
  BY DEF SemaTypeOK, ThreadTypeOK, SemaScheduling, SemaCallbacks, Breaks, Live, Made, Dead
<1> QED
  BY <1>1, <1>2, <1>3, <1>4, <1>5, <1>6, <1>7

\* thread.
LEMMA MakeThreadKeepsIInv ==
  ASSUME Corners = {}, IInv, NEW t \in Thread, NEW u \in Thread,
         MakeThread(t, u), UNCHANGED semaVars
  PROVE  IInv'
<1> USE ThreadsAssumption, SemaphoresAssumption DEF MakeThread, Running, semaVars, IInv
<1>1. SemaTypeOK'
  BY DEF SemaTypeOK, ThreadTypeOK
<1>2. NeverCorrupted'
  BY DEF NeverCorrupted, SemaTypeOK, ThreadTypeOK, SemaScheduling, SemaCallbacks, Live, Made, Dead
<1>3. SemaScheduling'
  BY DEF SemaTypeOK, ThreadTypeOK, SemaScheduling, SemaCallbacks, Live, Made, Dead
<1>4. SemaCallbacks'
  BY DEF SemaTypeOK, ThreadTypeOK, SemaScheduling, SemaCallbacks, Live, Made, Dead
<1>5. Lines'
  BY DEF SemaTypeOK, ThreadTypeOK, SemaScheduling, SemaCallbacks, Lines, Live, Made, Dead
<1>6. Units'
  BY DEF SemaTypeOK, ThreadTypeOK, SemaScheduling, SemaCallbacks, Units, Positive, Live, Made, Dead
<1>7. Breaks'
  BY DEF SemaTypeOK, ThreadTypeOK, SemaScheduling, SemaCallbacks, Breaks, Live, Made, Dead
<1> QED
  BY <1>1, <1>2, <1>3, <1>4, <1>5, <1>6, <1>7

\* thread-resume.
LEMMA ThreadResumeKeepsIInv ==
  ASSUME Corners = {}, IInv, NEW t \in Thread, NEW u \in Thread,
         ThreadResume(t, u), UNCHANGED semaVars
  PROVE  IInv'
<1> USE ThreadsAssumption, SemaphoresAssumption DEF ThreadResume, InternalResume, Running, semaVars, IInv
<1>0. /\ status' = "up" /\ Live(u) /\ suspended[u] /\ u \notin group /\ u # t
      /\ intr[u] \in {"void", "suspend"}
  BY ResumeUp DEF SemaTypeOK, ThreadTypeOK, SemaScheduling, SemaCallbacks, Live, Made, Dead
<1>1. SemaTypeOK'
  BY <1>0 DEF SemaTypeOK, ThreadTypeOK
<1>2. NeverCorrupted'
  BY <1>0 DEF NeverCorrupted, SemaTypeOK, ThreadTypeOK, SemaScheduling, SemaCallbacks, Live, Made, Dead
<1>3. SemaScheduling'
  BY <1>0 DEF SemaTypeOK, ThreadTypeOK, SemaScheduling, SemaCallbacks, Live, Made, Dead
<1>4. SemaCallbacks'
  BY <1>0 DEF SemaTypeOK, ThreadTypeOK, SemaScheduling, SemaCallbacks, Live, Made, Dead
<1>5. Lines'
  BY <1>0 DEF SemaTypeOK, ThreadTypeOK, SemaScheduling, SemaCallbacks, Lines, Live, Made, Dead
<1>6. Units'
  BY <1>0 DEF SemaTypeOK, ThreadTypeOK, SemaScheduling, SemaCallbacks, Units, Positive, Live, Made, Dead
<1>7. Breaks'
  BY <1>0 DEF SemaTypeOK, ThreadTypeOK, SemaScheduling, SemaCallbacks, Breaks, Live, Made, Dead
<1> QED
  BY <1>1, <1>2, <1>3, <1>4, <1>5, <1>6, <1>7

\* The first half of thread-wait.
LEMMA GetThreadDeadSemaKeepsIInv ==
  ASSUME Corners = {}, IInv, NEW t \in Thread, NEW u \in Thread,
         GetThreadDeadSema(t, u)
  PROVE  IInv'
<1> USE ThreadsAssumption, SemaphoresAssumption DEF GetThreadDeadSema, Running, IInv
<1>1. SemaTypeOK'
  BY DEF SemaTypeOK, ThreadTypeOK
<1>2. NeverCorrupted'
  BY DEF NeverCorrupted, SemaTypeOK, ThreadTypeOK, SemaScheduling, SemaCallbacks, Live, Made, Dead
<1>3. SemaScheduling'
  BY DEF SemaTypeOK, ThreadTypeOK, SemaScheduling, SemaCallbacks, Live, Made, Dead
<1>4. SemaCallbacks'
  BY DEF SemaTypeOK, ThreadTypeOK, SemaScheduling, SemaCallbacks, Live, Made, Dead
<1>5. Lines'
  BY DEF SemaTypeOK, ThreadTypeOK, SemaScheduling, SemaCallbacks, Lines, Live, Made, Dead
<1>6. Units'
  <2>1. u \in open' => queue[u] = <<>>
    <3>1. ToSet(queue[u]) \subseteq Thread /\ (queue[u] = <<>> <=> ToSet(queue[u]) = {})
      BY EmptyLineSet DEF SemaTypeOK, ThreadTypeOK
    <3> QED
      BY <3>1 DEF Lines, Units, Positive, SemaTypeOK, ThreadTypeOK
  <2> QED
    BY <2>1 DEF SemaTypeOK, ThreadTypeOK, SemaScheduling, SemaCallbacks, Units, Positive, Live, Made, Dead
<1>7. Breaks'
  BY DEF SemaTypeOK, ThreadTypeOK, SemaScheduling, SemaCallbacks, Breaks, Live, Made, Dead
<1> QED
  BY <1>1, <1>2, <1>3, <1>4, <1>5, <1>6, <1>7

\* What taking a unit does to the counts.
LEMMA TakeUnitCounts ==
  ASSUME SemaTypeOK, NEW s \in Op, Positive(s), TakeUnit(s)
  PROVE  /\ count' = IF s \in open THEN count ELSE [count EXCEPT ![s] = @ - 1]
         /\ count' \in [Op -> 0..MaxCount]
<1>0. count \in [Op -> 0..MaxCount] /\ MaxCount \in Nat
  BY SemaphoresAssumption DEF SemaTypeOK
<1>1. CASE s \in open
  BY <1>0, <1>1 DEF TakeUnit
<1>2. CASE s \notin open
  <2>1. count[s] \in 1..MaxCount /\ count' = [count EXCEPT ![s] = @ - 1]
    BY <1>0, <1>2 DEF TakeUnit, Positive
  <2> QED
    BY <1>0, <1>2, <2>1
<1> QED
  BY <1>1, <1>2

\* semaphore-wait that finds a unit.
LEMMA WaitTakeKeepsIInv ==
  ASSUME Corners = {}, IInv, NEW t \in Thread, NEW s \in Op,
         WaitTake(t, s)
  PROVE  IInv'
<1> USE ThreadsAssumption, SemaphoresAssumption
    DEF WaitTake, Calls, Positive, Proceed, InternalResume, Running, IInv
<1>0. status' = "up" /\ intr' = intr /\ group' = group /\ intr[t] = "none"
  BY ResumeUp DEF SemaTypeOK, ThreadTypeOK, SemaScheduling
<1>a. /\ count' = IF s \in open THEN count ELSE [count EXCEPT ![s] = @ - 1]
      /\ count' \in [Op -> 0..MaxCount]
  BY TakeUnitCounts
<1>1. SemaTypeOK'
  BY <1>0, <1>a DEF SemaTypeOK, ThreadTypeOK
<1>2. NeverCorrupted'
  BY <1>0 DEF NeverCorrupted, SemaTypeOK, ThreadTypeOK, SemaScheduling, SemaCallbacks, Live, Made, Dead
<1>3. SemaScheduling'
  BY <1>0 DEF SemaTypeOK, ThreadTypeOK, SemaScheduling, SemaCallbacks, Live, Made, Dead
<1>4. SemaCallbacks'
  BY <1>0 DEF SemaTypeOK, ThreadTypeOK, SemaScheduling, SemaCallbacks, Live, Made, Dead
<1>5. Lines'
  BY <1>0 DEF SemaTypeOK, ThreadTypeOK, SemaScheduling, SemaCallbacks, Lines, Live, Made, Dead
<1>6. Units'
  BY <1>0, <1>a DEF SemaTypeOK, ThreadTypeOK, SemaScheduling, SemaCallbacks, Units, Positive, Live, Made, Dead
<1>7. Breaks'
  BY <1>0 DEF SemaTypeOK, ThreadTypeOK, SemaScheduling, SemaCallbacks, Breaks, Live, Made, Dead
<1> QED
  BY <1>1, <1>2, <1>3, <1>4, <1>5, <1>6, <1>7

\* semaphore-try-wait? that finds a unit.
LEMMA TryWaitKeepsIInv ==
  ASSUME Corners = {}, IInv, NEW t \in Thread, NEW s \in Sema,
         TryWait(t, s)
  PROVE  IInv'
<1> USE ThreadsAssumption, SemaphoresAssumption DEF TryWait, Positive, Running, threadVars, IInv
<1>0. /\ count' = IF s \in open THEN count ELSE [count EXCEPT ![s] = @ - 1]
      /\ count' \in [Op -> 0..MaxCount]
  BY TakeUnitCounts
<1>1. SemaTypeOK'
  BY <1>0 DEF SemaTypeOK, ThreadTypeOK
<1>2. NeverCorrupted'
  BY DEF NeverCorrupted, SemaTypeOK, ThreadTypeOK, SemaScheduling, SemaCallbacks, Live, Made, Dead
<1>3. SemaScheduling'
  BY DEF SemaTypeOK, ThreadTypeOK, SemaScheduling, SemaCallbacks, Live, Made, Dead
<1>4. SemaCallbacks'
  BY DEF SemaTypeOK, ThreadTypeOK, SemaScheduling, SemaCallbacks, Live, Made, Dead
<1>5. Lines'
  BY DEF SemaTypeOK, ThreadTypeOK, SemaScheduling, SemaCallbacks, Lines, Live, Made, Dead
<1>6. Units'
  BY <1>0 DEF SemaTypeOK, ThreadTypeOK, SemaScheduling, SemaCallbacks, Units, Positive, Live, Made, Dead
<1>7. Breaks'
  BY DEF SemaTypeOK, ThreadTypeOK, SemaScheduling, SemaCallbacks, Breaks, Live, Made, Dead
<1> QED
  BY <1>1, <1>2, <1>3, <1>4, <1>5, <1>6, <1>7

\* semaphore-wait that blocks.
LEMMA WaitBlockKeepsIInv ==
  ASSUME Corners = {}, IInv, NEW t \in Thread, NEW s \in Op,
         WaitBlock(t, s)
  PROVE  IInv'
<1> USE ThreadsAssumption, SemaphoresAssumption
    DEF WaitBlock, Calls, Positive, Block, InternalSuspend, GroupRemoveStatus, Running, IInv
<1>0. /\ intr[t] = "none" /\ t \in group /\ Live(t)
      /\ QueueAdd(queue[s], t) \in Seq(Thread)
      /\ ToSet(QueueAdd(queue[s], t)) = ToSet(queue[s]) \cup {t}
      /\ NoDuplicates(QueueAdd(queue[s], t))
      /\ s # t /\ (s \in Thread => s \in made)
  <2>1. intr[t] = "none" /\ t \in group /\ Live(t)
    BY DEF SemaTypeOK, ThreadTypeOK, SemaScheduling, Live, Made, Dead
  <2>2. s # t /\ (s \in Thread => s \in made)
    BY DEF SemaCallbacks, Units
  <2>3. queue[s] \in Seq(Thread) /\ t \notin ToSet(queue[s]) /\ NoDuplicates(queue[s])
    BY <2>1 DEF SemaTypeOK, Lines
  <2> QED
    BY <2>1, <2>2, <2>3, AddToLine
<1>1. SemaTypeOK'
  BY <1>0 DEF SemaTypeOK, ThreadTypeOK
<1>2. NeverCorrupted'
  BY <1>0 DEF NeverCorrupted, SemaTypeOK, ThreadTypeOK, SemaScheduling, SemaCallbacks, Live, Made, Dead
<1>3. SemaScheduling'
  BY <1>0 DEF SemaTypeOK, ThreadTypeOK, SemaScheduling, SemaCallbacks, Live, Made, Dead
<1>4. SemaCallbacks'
  BY <1>0 DEF SemaTypeOK, ThreadTypeOK, SemaScheduling, SemaCallbacks, Live, Made, Dead
<1>5. Lines'
  BY <1>0 DEF SemaTypeOK, ThreadTypeOK, SemaScheduling, SemaCallbacks, Lines, Live, Made, Dead
<1>6. Units'
  BY <1>0 DEF SemaTypeOK, ThreadTypeOK, SemaScheduling, SemaCallbacks, Units, Positive, Live, Made, Dead
<1>7. Breaks'
  BY <1>0 DEF SemaTypeOK, ThreadTypeOK, SemaScheduling, SemaCallbacks, Breaks, Live, Made, Dead
<1> QED
  BY <1>1, <1>2, <1>3, <1>4, <1>5, <1>6, <1>7

\* semaphore-post with nobody in line.
LEMMA PostUnitKeepsIInv ==
  ASSUME Corners = {}, IInv, NEW t \in Thread, NEW s \in Sema,
         Post(t, s), queue[s] = <<>>
  PROVE  IInv'
<1> USE ThreadsAssumption, SemaphoresAssumption DEF IInv
<1>0. /\ current = t /\ pc[t] = "run" /\ status = "up" /\ status' = "up" /\ intr' = intr
      /\ group' = group /\ pc' = [pc EXCEPT ![t] = "run"]
      /\ op' = [op EXCEPT ![t] = NoOp]
      /\ count' = [count EXCEPT ![s] = @ + 1] /\ count[s] < MaxCount
      /\ queue' = queue
      /\ UNCHANGED <<current, engine, suspended, needsRetry, pendingBreak,
                     breakEnabled, open, made>>
  <2>1. Proceed(t, {}) /\ count' = [count EXCEPT ![s] = @ + 1] /\ count[s] < MaxCount
    BY DEF Post, QueueEmpty
  <2>2. ResumeStatus({}) = "up"
    BY ResumeUp
  <2>3. queue' = queue
    BY DEF Post, QueueRemove, QueueEmpty, SemaTypeOK
  <2>4. intr' = intr
    BY <2>1 DEF Proceed, InternalResume, SemaTypeOK, ThreadTypeOK
  <2> QED
    BY <2>1, <2>2, <2>3, <2>4 DEF Post, Proceed, InternalResume, Running
<1>a. count' \in [Op -> 0..MaxCount]
  BY <1>0 DEF SemaTypeOK
<1>1. SemaTypeOK'
  BY <1>0, <1>a DEF SemaTypeOK, ThreadTypeOK
<1>2. NeverCorrupted'
  BY <1>0 DEF NeverCorrupted
<1>3. SemaScheduling'
  BY <1>0 DEF SemaTypeOK, ThreadTypeOK, SemaScheduling, Live, Made, Dead
<1>4. SemaCallbacks'
  BY <1>0 DEF SemaTypeOK, ThreadTypeOK, SemaScheduling, SemaCallbacks, Live, Made, Dead
<1>5. Lines'
  BY <1>0 DEF SemaTypeOK, ThreadTypeOK, SemaScheduling, Lines
<1>6. Units'
  BY <1>0 DEF SemaTypeOK, ThreadTypeOK, Units, Positive, Dead
<1>7. Breaks'
  BY <1>0 DEF SemaTypeOK, ThreadTypeOK, SemaScheduling, Breaks, Live, Made, Dead
<1> QED
  BY <1>1, <1>2, <1>3, <1>4, <1>5, <1>6, <1>7

\* semaphore-post that hands the unit to the head of the line.
LEMMA PostHandOverKeepsIInv ==
  ASSUME Corners = {}, IInv, NEW t \in Thread, NEW s \in Sema,
         Post(t, s), queue[s] # <<>>
  PROVE  IInv'
<1> USE ThreadsAssumption, SemaphoresAssumption DEF IInv
<1> DEFINE w == Head(queue[s])
           r == QueueRemove(queue[s])
<1>a. /\ r \in Seq(Thread) /\ w \in ToSet(queue[s])
      /\ ToSet(r) = ToSet(queue[s]) \ {w} /\ NoDuplicates(r)
  BY RemoveFromLine DEF SemaTypeOK, Lines
<1>b. w \in Thread
  BY <1>a, EmptyLineSet DEF SemaTypeOK
<1>c. queue' = [queue EXCEPT ![s] = r] /\ Proceed(t, {w}) /\ count' = count
  BY DEF Post, QueueEmpty
<1> HIDE DEF w, r
<1>d. intr[w] = "wait" /\ op[w] = s
  BY <1>a, <1>b DEF Lines
<1>e. Live(w) /\ w \notin group
  BY <1>b, <1>d DEF SemaCallbacks, SemaScheduling
<1>0. /\ current = t /\ pc[t] = "run" /\ status = "up" /\ status' = "up" /\ w # t
      /\ intr' = [intr EXCEPT ![w] = "none"] /\ group' = group \cup {w}
      /\ pc' = [pc EXCEPT ![t] = "run"] /\ op' = [op EXCEPT ![t] = NoOp]
      /\ UNCHANGED <<current, engine, suspended, needsRetry, pendingBreak,
                     breakEnabled, count, open, made>>
  <2>1. current = t /\ pc[t] = "run" /\ status = "up" /\ UNCHANGED <<open, made>>
    BY DEF Post, Running
  <2>2. w # t
    BY <1>b, <1>d, <2>1 DEF SemaScheduling
  <2>3. status' = "up"
    BY <1>c, <1>e, ResumeUp DEF Proceed, InternalResume
  <2>4. intr' = [intr EXCEPT ![w] = "none"]
    BY <1>b, <1>c DEF Proceed, InternalResume, SemaTypeOK, ThreadTypeOK
  <2> QED
    BY <1>c, <2>1, <2>2, <2>3, <2>4 DEF Proceed, InternalResume
<1>1. SemaTypeOK'
  BY <1>0, <1>a, <1>b, <1>c DEF SemaTypeOK, ThreadTypeOK
<1>2. NeverCorrupted'
  BY <1>0 DEF NeverCorrupted
<1>3. SemaScheduling'
  BY <1>0, <1>b, <1>e DEF SemaTypeOK, ThreadTypeOK, SemaScheduling, Live, Made, Dead
<1>4. SemaCallbacks'
  BY <1>0, <1>b, <1>d, <1>e DEF SemaTypeOK, ThreadTypeOK, SemaScheduling, SemaCallbacks, Live, Made, Dead
<1>5. Lines'
  <2> SUFFICES ASSUME NEW x \in Op
               PROVE  /\ NoDuplicates(queue'[x])
                      /\ \A v \in Thread : v \in ToSet(queue'[x]) <=>
                                             intr'[v] = "wait" /\ op'[v] = x
    BY DEF Lines
  <2>1. queue'[x] = IF x = s THEN r ELSE queue[x]
    BY <1>c DEF SemaTypeOK
  <2>2. \A v \in Thread : v \in ToSet(queue'[x]) <=> v \in ToSet(queue[x]) /\ v # w
    BY <2>1, <1>a, <1>d DEF Lines
  <2>3. NoDuplicates(queue'[x])
    BY <2>1, <1>a DEF Lines
  <2>4. \A v \in Thread : intr'[v] = "wait" /\ op'[v] = x <=>
                          intr[v] = "wait" /\ op[v] = x /\ v # w
    BY <1>0, <1>b DEF SemaTypeOK, ThreadTypeOK, SemaScheduling
  <2> QED
    BY <2>2, <2>3, <2>4 DEF Lines
<1>6. Units'
  BY <1>0, <1>c DEF SemaTypeOK, ThreadTypeOK, Units, Positive, Dead
<1>7. Breaks'
  BY <1>0, <1>b DEF SemaTypeOK, ThreadTypeOK, SemaScheduling, Breaks, Live, Made, Dead
<1> QED
  BY <1>1, <1>2, <1>3, <1>4, <1>5, <1>6, <1>7

\* thread-suspend.
LEMMA SuspendKeepsIInv ==
  ASSUME Corners = {}, IInv, NEW t \in Thread, NEW u \in Thread,
         Suspend(t, u)
  PROVE  IInv'
<1> USE ThreadsAssumption, SemaphoresAssumption DEF IInv
<1>a. /\ queue' \in [Op -> Seq(Thread)]
      /\ \A s \in Op :
           /\ NoDuplicates(queue'[s])
           /\ ToSet(queue'[s]) = ToSet(queue[s]) \ {u}
           /\ queue[s] = <<>> => queue'[s] = <<>>
  BY InterruptLines DEF Suspend
<1>b. /\ current = t /\ pc[t] = "run" /\ status = "up" /\ intr[t] = "none"
      /\ Live(u) /\ ~suspended[u] /\ intr[u] \in {"none", "wait"}
      /\ suspended' = [suspended EXCEPT ![u] = TRUE]
      /\ needsRetry' = [needsRetry EXCEPT ![u] = @ \/ intr[u] = "wait"]
      /\ pc' = [pc EXCEPT ![t] = IF u = t THEN "block" ELSE @]
      /\ UNCHANGED <<current, engine, pendingBreak, breakEnabled, op, count,
                     open, made>>
  <2>1. current = t /\ pc[t] = "run" /\ status = "up" /\ Live(u) /\ ~suspended[u]
    BY DEF Suspend, ThreadSuspend, Running, Live
  <2>2. intr[t] = "none" /\ intr[u] \in {"none", "wait"}
    BY <2>1 DEF SemaTypeOK, ThreadTypeOK, SemaScheduling, SemaCallbacks
  <2> QED
    BY <2>1, <2>2 DEF Suspend, ThreadSuspend, Armed
<1>c. /\ intr' = [intr EXCEPT ![u] = IF @ = "wait" THEN "void" ELSE "suspend"]
      /\ group' = group \ {u} /\ status' = "up"
  <2>1. CASE intr[u] = "none"
    BY <1>b, <2>1 DEF Suspend, ThreadSuspend, InternalSuspend,
                      GroupRemoveStatus, SemaScheduling
  <2>2. CASE intr[u] = "wait"
    <3>1. u \notin group
      BY <2>2 DEF SemaScheduling
    <3> QED
      BY <1>b, <2>2, <3>1 DEF Suspend, ThreadSuspend
  <2> QED
    BY <1>b, <2>1, <2>2
<1>1. SemaTypeOK'
  BY <1>a, <1>b, <1>c DEF SemaTypeOK, ThreadTypeOK
<1>2. NeverCorrupted'
  BY <1>c DEF NeverCorrupted
<1>3. SemaScheduling'
  BY <1>b, <1>c DEF SemaTypeOK, ThreadTypeOK, SemaScheduling, Live, Made, Dead
<1>4. SemaCallbacks'
  BY <1>b, <1>c DEF SemaTypeOK, ThreadTypeOK, SemaCallbacks, Live, Made, Dead
<1>5. Lines'
  <2>1. \A v \in Thread : intr'[v] = "wait" <=> intr[v] = "wait" /\ v # u
    BY <1>b, <1>c DEF SemaTypeOK, ThreadTypeOK
  <2> SUFFICES ASSUME NEW s \in Op
               PROVE  /\ NoDuplicates(queue'[s])
                      /\ \A v \in Thread : v \in ToSet(queue'[s]) <=>
                                             intr'[v] = "wait" /\ op'[v] = s
    BY DEF Lines
  <2>2. \A v \in Thread : v \in ToSet(queue[s]) <=> intr[v] = "wait" /\ op[v] = s
    BY DEF Lines
  <2> QED
    BY <1>a, <1>b, <2>1, <2>2
<1>6. Units'
  BY <1>a, <1>b DEF Units, Positive, Dead
<1>7. Breaks'
  BY <1>b, <1>c DEF SemaTypeOK, ThreadTypeOK, Breaks, Live, Made, Dead
<1> QED
  BY <1>1, <1>2, <1>3, <1>4, <1>5, <1>6, <1>7

\* do-break-thread for a target u that either does not run or goes on to
\* check-for-break.
LEMMA DoBreakKeepsIInv ==
  ASSUME IInv, NEW u \in Thread, DoBreakThread(u), BreakLines(u),
         status = "up", Made(u), Dead(u) => intr[u] = "none",
         \/ current # u /\ pc' = pc
         \/ current = u /\ pc[u] = "run" /\ pc' = [pc EXCEPT ![u] = "check"],
         UNCHANGED <<current, engine, suspended, breakEnabled, op>>
  PROVE  IInv'
<1> USE ThreadsAssumption, SemaphoresAssumption DEF IInv
<1> DEFINE hit == ~suspended[u] /\ intr[u] # "none"
<1>a. /\ queue' \in [Op -> Seq(Thread)]
      /\ UNCHANGED <<count, open, made>>
      /\ \A s \in Op :
           /\ NoDuplicates(queue'[s])
           /\ queue[s] = <<>> => queue'[s] = <<>>
           /\ ToSet(queue'[s]) = IF suspended[u] THEN ToSet(queue[s])
                                                ELSE ToSet(queue[s]) \ {u}
  <2>1. CASE suspended[u]
    BY <2>1 DEF BreakLines, Lines, SemaTypeOK
  <2>2. CASE ~suspended[u]
    BY <2>2, InterruptLines DEF BreakLines
  <2> QED
    BY <2>1, <2>2
<1>b. hit => intr[u] = "wait" /\ Live(u) /\ u \notin group
  BY DEF SemaTypeOK, ThreadTypeOK, SemaCallbacks, SemaScheduling, Live
<1>c. /\ pendingBreak' = [pendingBreak EXCEPT ![u] = TRUE]
      /\ intr' = [intr EXCEPT ![u] = IF hit THEN "none" ELSE @]
      /\ needsRetry' = [needsRetry EXCEPT ![u] = @ \/ hit]
      /\ group' = IF hit THEN group \cup {u} ELSE group
      /\ status' = "up"
  <2>1. CASE hit
    <3>1. ResumeStatus({u}) = "up"
      BY <1>b, <2>1, ResumeUp
    <3> QED
      BY <1>b, <2>1, <3>1 DEF DoBreakThread, InternalResume, Armed, SemaTypeOK,
                              ThreadTypeOK
  <2>2. CASE ~hit
    BY <2>2 DEF DoBreakThread, SemaTypeOK, ThreadTypeOK
  <2> QED
    BY <2>1, <2>2
<1> HIDE DEF hit
<1>d. /\ pc' \in [Thread -> {"run", "block", "woken", "check", "enter"}]
      /\ \A v \in Thread : v # u => pc'[v] = pc[v]
      /\ current = u => pc[u] = "run" /\ pc'[u] = "check" /\ intr[u] = "none"
      /\ current # u => pc'[u] = pc[u]
  BY DEF SemaTypeOK, ThreadTypeOK, SemaScheduling
<1>e. hit <=> ~suspended[u] /\ intr[u] # "none"
  BY DEF hit
<1>1. SemaTypeOK'
  <2>1. hit \in BOOLEAN
    BY <1>e
  <2> QED
    BY <1>a, <1>c, <1>d, <2>1 DEF SemaTypeOK, ThreadTypeOK
<1>2. NeverCorrupted'
  BY <1>c DEF NeverCorrupted
<1>3. SemaScheduling'
  BY <1>b, <1>c, <1>d, <1>e DEF SemaTypeOK, ThreadTypeOK, SemaScheduling, Live, Made, Dead
<1>4. SemaCallbacks'
  BY <1>b, <1>c, <1>e DEF SemaTypeOK, ThreadTypeOK, SemaCallbacks, Live, Made, Dead
<1>5. Lines'
  <2>1. \A v \in Thread : intr'[v] = "wait" <=>
                          intr[v] = "wait" /\ (suspended[u] \/ v # u)
    BY <1>c, <1>e DEF SemaTypeOK, ThreadTypeOK
  <2> SUFFICES ASSUME NEW s \in Op
               PROVE  /\ NoDuplicates(queue'[s])
                      /\ \A v \in Thread : v \in ToSet(queue'[s]) <=>
                                             intr'[v] = "wait" /\ op'[v] = s
    BY DEF Lines
  <2>2. \A v \in Thread : v \in ToSet(queue[s]) <=> intr[v] = "wait" /\ op[v] = s
    BY DEF Lines
  <2>3. intr[u] = "wait" => ~suspended[u]
    BY DEF SemaCallbacks
  <2>4. \A v \in Thread : v \in ToSet(queue'[s]) <=>
                          v \in ToSet(queue[s]) /\ (suspended[u] \/ v # u)
    BY <1>a
  <2>5. NoDuplicates(queue'[s]) /\ op' = op
    BY <1>a
  <2> QED
    BY <2>1, <2>2, <2>3, <2>4, <2>5
<1>6. Units'
  BY <1>a DEF Units, Positive, Dead
<1>7. Breaks'
  BY <1>b, <1>c, <1>d, <1>e DEF SemaTypeOK, ThreadTypeOK, Breaks, SemaCallbacks, Live, Made, Dead
<1> QED
  BY <1>1, <1>2, <1>3, <1>4, <1>5, <1>6, <1>7

\* break-thread.
LEMMA BreakKeepsIInv ==
  ASSUME Corners = {}, IInv, NEW t \in Thread, NEW u \in Thread, Break(t, u)
  PROVE  IInv'
<1>1. /\ DoBreakThread(u) /\ BreakLines(u) /\ status = "up" /\ Made(u)
      /\ current = t /\ pc[t] = "run"
      /\ Dead(u) => intr[u] = "none"
      /\ pc' = [pc EXCEPT ![t] = IF u = t THEN "check" ELSE @]
      /\ UNCHANGED <<current, engine, suspended, breakEnabled, op>>
  BY DEF Break, BreakThread, Running
<1>2. pc \in [Thread -> {"run", "block", "woken", "check", "enter"}]
  BY DEF IInv, SemaTypeOK, ThreadTypeOK
<1>3. \/ current # u /\ pc' = pc
      \/ current = u /\ pc[u] = "run" /\ pc' = [pc EXCEPT ![u] = "check"]
  BY <1>1, <1>2
<1> QED
  BY <1>1, <1>3, DoBreakKeepsIInv

\* The Ctl-C handler, while the main thread does not run.
LEMMA CtlCKeepsIInv ==
  ASSUME Corners = {}, IInv, CtlCBreak
  PROVE  IInv'
<1>1. /\ DoBreakThread(Main) /\ BreakLines(Main) /\ status = "up"
      /\ current # Main /\ pc' = pc
      /\ UNCHANGED <<current, engine, suspended, breakEnabled, op>>
  BY DEF CtlCBreak, CtlC
<1>2. Live(Main)
  BY <1>1 DEF IInv, SemaScheduling
<1> QED
  BY <1>1, <1>2, ThreadsAssumption, DoBreakKeepsIInv DEF Live

\* thread-dead! for a thread u that runs no more, or never did.
LEMMA ThreadDeadKeepsIInv ==
  ASSUME IInv, NEW u \in Thread, Live(u), status = "up",
         ThreadDead(u, DeadWaiters(u)), DeadLines(u),
         \/ current # u /\ current' = current
         \/ current = u /\ current' = NoThread,
         pc' \in [Thread -> {"run", "block", "woken", "check", "enter"}],
         op' \in [Thread -> Op \cup {NoOp}],
         op'[u] \in {op[u], NoOp},
         \A v \in Thread : v # u => pc'[v] = pc[v] /\ op'[v] = op[v],
         UNCHANGED <<suspended, pendingBreak, breakEnabled>>
  PROVE  IInv'
<1> USE ThreadsAssumption, SemaphoresAssumption DEF IInv
<1>a. /\ queue' \in [Op -> Seq(Thread)]
      /\ \A s \in Op :
           /\ NoDuplicates(queue'[s])
           /\ ToSet(queue'[s]) = IF s = u THEN {} ELSE ToSet(queue[s]) \ {u}
           /\ queue[s] = <<>> => queue'[s] = <<>>
  BY DeadLinesFacts
<1>b. u \in Op /\ queue'[u] = <<>>
  BY <1>a, EmptyLineSet
<1>c. /\ open' = IF u \in made THEN open \cup {u} ELSE open
      /\ count' = count /\ made' = made
  BY DEF DeadLines
<1> DEFINE W == DeadWaiters(u)
<1>d. /\ \A v \in Thread : v \in W <=> intr[v] = "wait" /\ op[v] = u
      /\ u \notin W /\ W \subseteq Thread /\ ResumeStatus(W) = "up"
  BY DeadWaitersFacts
<1>e. /\ engine' = [engine EXCEPT ![u] = "done"]
      /\ needsRetry' = [needsRetry EXCEPT ![u] = @ \/ Armed(u)]
      /\ group' = (group \cup W) \ {u}
  BY DEF ThreadDead
<1>f. intr' = [v \in Thread |-> IF v = u THEN IF intr[u] = "none" THEN "none"
                                                                 ELSE "void"
                                ELSE IF v \in W THEN "none" ELSE intr[v]]
  BY <1>d DEF ThreadDead
<1>g. status' = IF u = Main THEN "exit" ELSE "up"
  <2>1. intr[u] = "none" => u \in group
    BY DEF SemaScheduling
  <2> QED
    BY <1>d, <2>1 DEF ThreadDead
<1> HIDE DEF W
<1>h. \A v \in Thread : v # u => (Live(v)' <=> Live(v)) /\ (Made(v)' <=> Made(v))
                                /\ (Dead(v)' <=> Dead(v))
  BY <1>e DEF Live, Made, Dead, SemaTypeOK, ThreadTypeOK
<1>i. Dead(u)' /\ Made(u)' /\ ~Live(u)'
  BY <1>e DEF Live, Made, Dead, SemaTypeOK, ThreadTypeOK
<1>1. SemaTypeOK'
  BY <1>a, <1>c, <1>d, <1>e, <1>f, <1>g DEF SemaTypeOK, ThreadTypeOK, Armed
<1>2. NeverCorrupted'
  BY <1>g DEF NeverCorrupted
<1>3. SemaScheduling'
  <2>1. \A v \in Thread : engine'[v] = "running" <=> current' = v
    BY <1>e DEF SemaScheduling, SemaTypeOK, ThreadTypeOK
  <2>2. \A v \in Thread : v \in group' <=> Live(v)' /\ intr'[v] = "none"
    BY <1>d, <1>e, <1>f, <1>h, <1>i DEF SemaScheduling, SemaCallbacks
  <2>3. \A v \in Thread : current' = v /\ pc'[v] # "block" => intr'[v] = "none"
    BY <1>d, <1>f DEF SemaScheduling
  <2>4. status' = "up" => Live(Main)'
    BY <1>g, <1>h DEF SemaScheduling
  <2> QED
    BY <2>1, <2>2, <2>3, <2>4 DEF SemaScheduling
<1>4. SemaCallbacks'
  <2>1. ASSUME NEW v \in Thread, v # u
        PROVE  /\ ~Made(v)' => intr'[v] = "none" /\ ~suspended'[v] /\ op'[v] = NoOp
               /\ intr'[v] = "wait" => Live(v)' /\ ~suspended'[v] /\ op'[v] \in Op
               /\ intr'[v] = "suspend" => Live(v)' /\ suspended'[v]
               /\ Live(v)' => (suspended'[v] <=> intr'[v] \in {"void", "suspend"})
               /\ op'[v] # v
    BY <2>1, <1>d, <1>f, <1>h DEF SemaCallbacks
  <2>2. intr'[u] \in {"none", "void"} /\ op'[u] # u
    BY <1>f DEF SemaCallbacks
  <2> QED
    BY <1>i, <2>1, <2>2 DEF SemaCallbacks
<1>5. Lines'
  <2> SUFFICES ASSUME NEW s \in Op
               PROVE  /\ NoDuplicates(queue'[s])
                      /\ \A v \in Thread : v \in ToSet(queue'[s]) <=>
                                             intr'[v] = "wait" /\ op'[v] = s
    BY DEF Lines
  <2>1. \A v \in Thread : v \in ToSet(queue[s]) <=> intr[v] = "wait" /\ op[v] = s
    BY DEF Lines
  <2>2. \A v \in Thread : intr'[v] = "wait" <=>
                            v # u /\ intr[v] = "wait" /\ op[v] # u
    BY <1>d, <1>f
  <2>3. \A v \in Thread : v \in ToSet(queue'[s]) <=>
                          s # u /\ v \in ToSet(queue[s]) /\ v # u
    BY <1>a
  <2>4. \A v \in Thread : v # u => op'[v] = op[v]
    OBVIOUS
  <2>5. NoDuplicates(queue'[s])
    BY <1>a
  <2> QED
    BY <2>1, <2>2, <2>3, <2>4, <2>5
<1>6. Units'
  <2>1. \A s \in Op : Positive(s)' => queue'[s] = <<>>
    BY <1>a, <1>b, <1>c DEF Units, Positive
  <2>2. \A v \in Thread : v \in open' <=> v \in made' /\ Dead(v)'
    BY <1>c, <1>h, <1>i DEF Units, Live
  <2>3. \A v, x \in Thread : op'[v] = x => x \in made'
    BY <1>c DEF Units
  <2> QED
    BY <2>1, <2>2, <2>3 DEF Units
<1>7. Breaks'
  <2>1. ASSUME NEW v \in Thread, v # u
        PROVE  /\ Live(v)' /\ (needsRetry'[v] \/ intr'[v] = "wait") =>
                    pc'[v] \in {"block", "woken"}
               /\ ~Made(v)' => ~needsRetry'[v] /\ ~pendingBreak'[v]
               /\ pendingBreak'[v] /\ breakEnabled'[v] /\ current' = v =>
                    needsRetry'[v] \/ pc'[v] = "check"
               /\ pendingBreak'[v] /\ breakEnabled'[v] => intr'[v] # "wait"
    <3>1. needsRetry'[v] = needsRetry[v] /\ (intr'[v] = "wait" => intr[v] = "wait")
      BY <2>1, <1>e, <1>f DEF SemaTypeOK, ThreadTypeOK
    <3>2. current' = v => current = v
      BY <2>1
    <3> QED
      BY <2>1, <1>h, <3>1, <3>2 DEF Breaks
  <2>2. intr'[u] # "wait" /\ current' # u
    BY <1>f
  <2> QED
    BY <1>i, <2>1, <2>2 DEF Breaks
<1> QED
  BY <1>1, <1>2, <1>3, <1>4, <1>5, <1>6, <1>7

\* kill-thread of another thread.
LEMMA KillKeepsIInv ==
  ASSUME Corners = {}, IInv, NEW t \in Thread, NEW u \in Thread, Kill(t, u)
  PROVE  IInv'
<1>1. /\ status = "up" /\ Live(u) /\ u # t /\ current = t /\ current' = current
      /\ ThreadDead(u, DeadWaiters(u)) /\ DeadLines(u)
      /\ pc' = [pc EXCEPT ![u] = "run"] /\ op' = [op EXCEPT ![u] = NoOp]
      /\ UNCHANGED <<suspended, pendingBreak, breakEnabled>>
  BY DEF Kill, KillThread, Running
<1>2. /\ pc \in [Thread -> {"run", "block", "woken", "check", "enter"}]
      /\ op \in [Thread -> Op \cup {NoOp}]
  BY DEF IInv, SemaTypeOK, ThreadTypeOK
<1>3. /\ pc' \in [Thread -> {"run", "block", "woken", "check", "enter"}]
      /\ op' \in [Thread -> Op \cup {NoOp}] /\ op'[u] \in {op[u], NoOp}
      /\ \A v \in Thread : v # u => pc'[v] = pc[v] /\ op'[v] = op[v]
  BY <1>1, <1>2
<1> QED
  BY <1>1, <1>3, ThreadDeadKeepsIInv

\* The end of a thread's thunk.
LEMMA FinishKeepsIInv ==
  ASSUME IInv, NEW t \in Thread, FinishThread(t)
  PROVE  IInv'
<1>1. /\ status = "up" /\ current = t /\ current' = NoThread
      /\ ThreadDead(t, DeadWaiters(t)) /\ DeadLines(t)
      /\ UNCHANGED <<suspended, pendingBreak, breakEnabled, pc, op>>
  BY DEF FinishThread, Finish, Running
<1>2. /\ pc \in [Thread -> {"run", "block", "woken", "check", "enter"}]
      /\ op \in [Thread -> Op \cup {NoOp}] /\ Live(t)
  BY <1>1 DEF IInv, SemaTypeOK, ThreadTypeOK, SemaScheduling, Live, Made, Dead
<1> QED
  BY <1>1, <1>2, ThreadDeadKeepsIInv

----------------------------------------------------------------------------
(* The theorems.                                                           *)

\* No step of a program without corners leaves the invariant.
LEMMA NextKeepsIInv ==
  ASSUME Corners = {}, IInv, [Next]_vars
  PROVE  IInv'
<1>1. ASSUME NEW t \in Thread, ThreadStep(t), UNCHANGED semaVars
      PROVE  IInv'
  <2>1. CASE SwapIn(t)
    BY <1>1, <2>1, SwapInKeepsIInv
  <2>2. CASE Preempt(t)
    BY <1>1, <2>2, PreemptKeepsIInv
  <2>3. CASE EngineBlock(t)
    BY <1>1, <2>3, EngineBlockKeepsIInv
  <2>4. CASE CheckForRetryingBreak(t)
    BY <1>1, <2>4, CheckForRetryingBreakKeepsIInv
  <2>5. CASE CheckBreak(t)
    BY <1>1, <2>5, CheckBreakKeepsIInv
  <2>6. ASSUME NEW on \in BOOLEAN, SetBreakEnabled(t, on)
        PROVE  IInv'
    BY <1>1, <2>6, SetBreakEnabledKeepsIInv
  <2>7. ASSUME NEW u \in Thread, MakeThread(t, u) \/ ThreadResume(t, u)
        PROVE  IInv'
    BY <1>1, <2>7, MakeThreadKeepsIInv, ThreadResumeKeepsIInv
  <2> QED
    BY <1>1, <2>1, <2>2, <2>3, <2>4, <2>5, <2>6, <2>7 DEF ThreadStep
<1>2. ASSUME NEW t \in Thread, FinishThread(t)
      PROVE  IInv'
  BY <1>2, FinishKeepsIInv
<1>3. ASSUME NEW t \in Thread, NEW u \in Thread,
             Kill(t, u) \/ Suspend(t, u) \/ Break(t, u) \/ GetThreadDeadSema(t, u)
      PROVE  IInv'
  BY <1>3, KillKeepsIInv, SuspendKeepsIInv, BreakKeepsIInv, GetThreadDeadSemaKeepsIInv
<1>4. ASSUME NEW t \in Thread, NEW s \in Op, WaitTake(t, s) \/ WaitBlock(t, s)
      PROVE  IInv'
  BY <1>4, WaitTakeKeepsIInv, WaitBlockKeepsIInv
<1>5. ASSUME NEW t \in Thread, NEW s \in Sema, TryWait(t, s) \/ Post(t, s)
      PROVE  IInv'
  BY <1>5, TryWaitKeepsIInv, PostUnitKeepsIInv, PostHandOverKeepsIInv
<1>6. CASE CtlCBreak
  BY <1>6, CtlCKeepsIInv
<1>7. CASE UNCHANGED vars
  BY <1>7 DEF vars, threadVars, semaVars, IInv, SemaTypeOK, ThreadTypeOK,
              NeverCorrupted, SemaScheduling, SemaCallbacks, Lines, Units, Breaks,
              Positive, Live, Made, Dead
<1> QED
  BY <1>1, <1>2, <1>3, <1>4, <1>5, <1>6, <1>7 DEF Next

\* The invariant holds for ever, whatever the threads do to each other.
THEOREM Invariance ==
  Corners = {} /\ Spec => []IInv
<1> SUFFICES ASSUME Corners = {} PROVE Spec => []IInv
  OBVIOUS
<1>1. IInv /\ [Next]_vars => IInv'
  BY NextKeepsIInv
<1> QED
  BY InitEstablishes, <1>1, PTL DEF Spec

\* No thread-group list is corrupted and no dead thread is resumed, for any
\* number of threads and semaphores.
THEOREM NotCorrupted ==
  Corners = {} /\ Spec => []NeverCorrupted
<1>1. IInv => NeverCorrupted
  BY DEF IInv
<1> QED
  BY Invariance, <1>1, PTL

\* A suspended thread does not run until it is resumed.
THEOREM SuspendedOut ==
  Corners = {} /\ Spec => []SuspendedStaysOut
<1>1. IInv => SuspendedStaysOut
  BY DEF IInv, SuspendedStaysOut, SemaScheduling, SemaCallbacks
<1> QED
  BY Invariance, <1>1, PTL

\* No wakeup is lost.
THEOREM NoneLost ==
  Corners = {} /\ Spec => []NoThreadLost
<1>1. ASSUME IInv PROVE NoThreadLost
  <2> SUFFICES ASSUME NEW t \in Thread, Live(t), ~suspended[t], t \notin group
               PROVE  op[t] # NoOp /\ t \in ToSet(queue[op[t]])
    BY DEF NoThreadLost
  <2>1. intr[t] = "wait"
    BY <1>1 DEF IInv, SemaTypeOK, ThreadTypeOK, SemaScheduling, SemaCallbacks
  <2> QED
    BY <1>1, <2>1, ThreadsAssumption DEF IInv, SemaCallbacks, Lines
<1> QED
  BY Invariance, <1>1, PTL

\* Whoever stands in line can take a unit.
THEOREM QueuedTake ==
  Corners = {} /\ Spec => []QueuedCanTake
<1>1. ASSUME IInv PROVE QueuedCanTake
  <2> SUFFICES ASSUME NEW s \in Op
               PROVE  /\ NoDuplicates(queue[s])
                      /\ \A t \in ToSet(queue[s]) :
                           Live(t) /\ ~suspended[t] /\ t \notin group /\ op[t] = s
    BY DEF QueuedCanTake
  <2>1. ToSet(queue[s]) \subseteq Thread
    BY <1>1, EmptyLineSet DEF IInv, SemaTypeOK
  <2> QED
    BY <1>1, <2>1 DEF IInv, Lines, SemaCallbacks, SemaScheduling
<1> QED
  BY Invariance, <1>1, PTL

\* No unit is idle while a thread waits for it, and nobody waits for the end
\* of a thread that has ended.
THEOREM NoneIdle ==
  Corners = {} /\ Spec => []NoIdleUnit
<1>1. ASSUME IInv PROVE NoIdleUnit
  <2> SUFFICES ASSUME NEW s \in Op, Positive(s) \/ (s \in Thread /\ Dead(s))
               PROVE  queue[s] = <<>>
    BY DEF NoIdleUnit
  <2>1. CASE Positive(s)
    BY <1>1, <2>1 DEF IInv, Units
  <2>2. CASE s \in Thread /\ Dead(s) /\ s \in made
    BY <1>1, <2>2 DEF IInv, Units, Positive
  <2>3. CASE s \in Thread /\ s \notin made
    <3>1. ToSet(queue[s]) \subseteq Thread /\ (queue[s] = <<>> <=> ToSet(queue[s]) = {})
      BY <1>1, EmptyLineSet DEF IInv, SemaTypeOK
    <3>2. \A t \in Thread : t \notin ToSet(queue[s])
      BY <1>1, <2>3 DEF IInv, Lines, Units
    <3> QED
      BY <3>1, <3>2
  <2> QED
    BY <2>1, <2>2, <2>3
<1> QED
  BY Invariance, <1>1, PTL

\* A break that can be raised will be noticed: its thread is schedulable.
THEOREM BreaksNoticed ==
  Corners = {} /\ Spec => []NoStuckBreak
<1>1. ASSUME IInv PROVE NoStuckBreak
  BY <1>1 DEF IInv, SemaTypeOK, ThreadTypeOK, SemaScheduling, SemaCallbacks, Breaks, NoStuckBreak
<1> QED
  BY Invariance, <1>1, PTL

\* An ended thread is not swapped in, stored or made again.
LEMMA DeadStays ==
  ASSUME Corners = {}, IInv, [Next]_vars, NEW v \in Thread, Dead(v)
  PROVE  Dead(v)'
<1>1. /\ v \notin group /\ current # v /\ Made(v)
      /\ engine \in [Thread -> {"none", "ready", "running", "done"}]
  BY DEF IInv, SemaTypeOK, ThreadTypeOK, SemaScheduling, Live, Dead, Made
<1>2. ASSUME NEW t \in Thread, ThreadStep(t)
      PROVE  Dead(v)'
  <2>1. CASE SwapIn(t)
    BY <1>1, <2>1 DEF SwapIn, Dead
  <2>2. CASE Preempt(t) \/ EngineBlock(t)
    BY <1>1, <2>2 DEF Preempt, EngineBlock, Expire, Running, Dead
  <2>3. CASE CheckForRetryingBreak(t) \/ CheckBreak(t)
    BY <1>1, <2>3 DEF CheckForRetryingBreak, CheckBreak, Dead
  <2>4. CASE \E on \in BOOLEAN : SetBreakEnabled(t, on)
    BY <1>1, <2>4 DEF SetBreakEnabled, Dead
  <2>5. CASE \E u \in Thread : MakeThread(t, u) \/ ThreadResume(t, u)
    BY <1>1, <2>5 DEF MakeThread, ThreadResume, Made, Dead
  <2> QED
    BY <1>2, <2>1, <2>2, <2>3, <2>4, <2>5 DEF ThreadStep
<1>3. ASSUME NEW t \in Thread, FinishThread(t)
      PROVE  Dead(v)'
  BY <1>1, <1>3 DEF FinishThread, Finish, ThreadDead, Dead
<1>4. ASSUME NEW t \in Thread, NEW u \in Thread,
             Kill(t, u) \/ Suspend(t, u) \/ Break(t, u) \/ GetThreadDeadSema(t, u)
      PROVE  Dead(v)'
  BY <1>1, <1>4 DEF Kill, KillThread, ThreadDead, Suspend, ThreadSuspend, Break,
       BreakThread, GetThreadDeadSema, Dead
<1>5. ASSUME NEW t \in Thread, NEW s \in Op,
             WaitTake(t, s) \/ WaitBlock(t, s) \/ TryWait(t, s)
      PROVE  Dead(v)'
  BY <1>1, <1>5 DEF WaitTake, WaitBlock, TryWait, Proceed, Block, threadVars, Dead
<1>6. ASSUME NEW t \in Thread, NEW s \in Sema, Post(t, s)
      PROVE  Dead(v)'
  BY <1>1, <1>6 DEF Post, Proceed, Dead
<1>7. CASE CtlCBreak
  BY <1>1, <1>7 DEF CtlCBreak, CtlC, Dead
<1>8. CASE UNCHANGED vars
  BY <1>8 DEF vars, threadVars, Dead
<1> QED
  BY <1>2, <1>3, <1>4, <1>5, <1>6, <1>7, <1>8, SemaphoresAssumption DEF Next

\* A terminated thread stays terminated.
THEOREM DeadStaysDead ==
  Corners = {} /\ Spec => DeadForever
<1> SUFFICES ASSUME Corners = {} PROVE Spec => DeadForever
  OBVIOUS
<1>1. IInv /\ [Next]_vars => [\A t \in Thread : Dead(t) => Dead(t)']_vars
  BY DeadStays
<1>2. Spec => []IInv
  BY Invariance
<1> QED
  BY <1>1, <1>2, PTL DEF Spec, DeadForever

----------------------------------------------------------------------------
(* Every semaphore implements the first-come first-served one.             *)

\* The units that were posted and not used are the ones counted and the ones
\* that resumed threads are about to take.
TallyOf(s) == s \notin open => owed[s] = count[s] + Cardinality(Served(s))

\* What the refinement needs beyond IInv: where a continuation stands, and
\* that no unit is lost or used twice.
FInv ==
  /\ IInv /\ Continuations
  /\ owed \in [Op -> Nat]
  /\ \A s \in Op : TallyOf(s)

\* The number of the threads of a set that grows or shrinks by one.
LEMMA Size ==
  ASSUME NEW S \in SUBSET Thread, NEW x
  PROVE  /\ Cardinality(S) \in Nat
         /\ x \in S => Cardinality(S) > 0 /\ Cardinality(S \ {x}) = Cardinality(S) - 1
         /\ x \notin S => Cardinality(S \cup {x}) = Cardinality(S) + 1
<1>1. IsFiniteSet(S)
  BY SemaphoresAssumption, FS_Subset
<1>2. Cardinality(S) \in Nat
  BY <1>1, FS_CardinalityType
<1>3. x \in S => Cardinality(S) # 0
  BY <1>1, FS_EmptySet
<1>4. x \in S => Cardinality(S \ {x}) = Cardinality(S) - 1
  BY <1>1, FS_RemoveElement
<1>5. x \notin S => Cardinality(S \cup {x}) = Cardinality(S) + 1
  BY <1>1, FS_AddElement
<1> QED
  BY <1>2, <1>3, <1>4, <1>5

\* The invariant is that of ThreadsTheorems and more.
LEMMA ThreadsInOrder ==
  ASSUME FInv
  PROVE  ThreadInv
  BY DEF FInv, IInv, SemaTypeOK, NeverCorrupted, SemaScheduling, SemaCallbacks,
         ThreadInv, Scheduling, Callbacks

\* A served thread is outside of the line, and one with no operation of its
\* own is in neither.
LEMMA ServedFacts ==
  ASSUME FInv, NEW s \in Op
  PROVE  /\ Served(s) = {v \in Thread : op[v] = s /\ Over(v)}
         /\ Served(s) \in SUBSET Thread
         /\ \A v \in Thread : v \in ToSet(queue[s]) => v \notin Served(s)
  BY DEF FInv, IInv, Lines, Served, Over

\* A step in which only t may leave its operation, and nobody is resumed,
\* changes who is served by t alone.
LEMMA ServedAfter ==
  ASSUME FInv, NEW t \in Thread, NEW s \in Op, NEW I, Interrupts(I),
         \A v \in Thread : v # t => op'[v] = op[v]
  PROVE  Served(s)' = IF op'[t] # s THEN Served(s) \ {t} ELSE Served(s)
<1>1. s # NoOp
  BY ThreadsAssumption
<1>2. Served(s)' = {v \in Thread : op'[v] = s /\ Over(v)'}
  BY DEF Served, Over
<1>3. ASSUME NEW v \in Thread, v # t
      PROVE  v \in Served(s)' <=> v \in Served(s)
  BY <1>1, <1>2, <1>3, ServedFacts DEF Interrupts
<1>4. op'[t] # s => t \notin Served(s)'
  BY <1>2
<1>5. op'[t] = s => (t \in Served(s)' <=> t \in Served(s))
  BY <1>1, <1>2, ServedFacts DEF Interrupts
<1>6. Served(s)' \subseteq Thread /\ Served(s) \subseteq Thread
  BY <1>2, ServedFacts
<1>7. CASE op'[t] # s
  BY <1>3, <1>4, <1>6, <1>7
<1>8. CASE op'[t] = s
  BY <1>3, <1>5, <1>6, <1>8
<1> QED
  BY <1>7, <1>8

\* The operators of WaitQueue mean the same on the abstract lines.
LEMMA SameLines ==
  ASSUME NEW q, NEW w
  PROVE  /\ Fair!ToSet(q) = ToSet(q)
         /\ Fair!GetOutOfLine(q, w) = GetOutOfLine(q, w)
         /\ Fair!QueueAdd(q, w) = QueueAdd(q, w)
         /\ Fair!QueueRemove(q) = QueueRemove(q)
  BY DEF Fair!ToSet, ToSet, Fair!GetOutOfLine, GetOutOfLine, Fair!QueueRemoveNode,
         QueueRemoveNode, Fair!NodeOf, NodeOf, Fair!RemoveAt, RemoveAt, Fair!QueueAdd,
         QueueAdd, Fair!QueueRemove, QueueRemove, Fair!QueueEmpty, QueueEmpty

\* So does the number of the threads served.
LEMMA SameSize ==
  ASSUME NEW S
  PROVE  Fair!Cardinality(S) = Cardinality(S)
  BY DEF Fair!Cardinality, Cardinality

\* A step that leaves semaphore x alone.
LEMMA StaysStep ==
  ASSUME FInv, NEW x \in Op, Served(x)' = Served(x), count'[x] = count[x],
         owed'[x] = owed[x], queue'[x] = queue[x], x \in open' <=> x \in open
  PROVE  Fair!Stays(x) /\ TallyOf(x)'
<1>1. Fair!Stays(x)
  BY DEF Fair!Stays, Fair!StaysOpen
<1>2. TallyOf(x)'
  BY DEF FInv, TallyOf
<1> QED
  BY <1>1, <1>2

\* A thread that goes on, or is killed, with its unit.
LEMMA UseStep ==
  ASSUME FInv, NEW x \in Op, NEW t \in Served(x), Served(x)' = Served(x) \ {t},
         owed'[x] = IF x \in open THEN owed[x] ELSE owed[x] - 1,
         count'[x] = count[x], queue'[x] = queue[x], x \in open' <=> x \in open
  PROVE  Fair!Use(x, t) /\ TallyOf(x)'
<1>1. Fair!Use(x, t)
  BY DEF Fair!Use, Fair!UseUnit, Fair!StaysOpen
<1>2. Cardinality(Served(x)') = Cardinality(Served(x)) - 1 /\ Cardinality(Served(x)) \in Nat
  BY ServedFacts, Size
<1>3. count[x] \in Nat /\ owed[x] \in Nat
  BY SemaphoresAssumption DEF FInv, IInv, SemaTypeOK
<1>4. TallyOf(x)'
  BY <1>2, <1>3 DEF FInv, TallyOf
<1> QED
  BY <1>1, <1>4

\* What leaves the lines alone: a thread stays where it is or uses its unit.
LEMMA QuietStep ==
  ASSUME FInv, NEW t \in Thread, NEW x \in Op, Interrupts({}),
         \A v \in Thread : v # t => op'[v] = op[v],
         Spend(t), UNCHANGED <<count, queue, open>>
  PROVE  (Fair!Stays(x) \/ Fair!Use(x, t)) /\ TallyOf(x)'
<1>1. Served(x)' = IF op'[t] # x THEN Served(x) \ {t} ELSE Served(x)
  BY ServedAfter
<1>2. owed'[x] = IF x \notin open /\ t \in Served(x) /\ op'[t] # x THEN owed[x] - 1 ELSE owed[x]
  BY DEF Spend
<1>3. CASE t \in Served(x) /\ op'[t] # x
  BY <1>1, <1>2, <1>3, UseStep
<1>4. CASE ~(t \in Served(x) /\ op'[t] # x)
  <2>1. Served(x)' = Served(x)
    BY <1>1, <1>4
  <2> QED
    BY <1>2, <1>4, <2>1, StaysStep
<1> QED
  BY <1>3, <1>4

\* The interrupt callback of u takes it out of one line at most, without a
\* unit.
LEMMA InterruptStep ==
  ASSUME FInv, NEW u \in Thread, NEW x \in Op, Served(x)' = Served(x),
         queue'[x] = LineInterrupt(u)[x], count'[x] = count[x],
         owed'[x] = owed[x], x \in open' <=> x \in open
  PROVE  (Fair!Stays(x) \/ Fair!Leave(x, u)) /\ TallyOf(x)'
<1>1. queue \in [Op -> Seq(Thread)]
  BY DEF FInv, IInv, SemaTypeOK
<1>2. CASE intr[u] = "wait" /\ op[u] = x
  <2>1. u \in ToSet(queue[x])
    BY <1>2 DEF FInv, IInv, Lines
  <2>2. queue'[x] = GetOutOfLine(queue[x], u)
    BY <1>1, <1>2 DEF LineInterrupt
  <2>3. Fair!Leave(x, u)
    BY <2>1, <2>2, SameLines DEF Fair!Leave, Fair!StaysOpen
  <2>4. TallyOf(x)'
    BY DEF FInv, TallyOf
  <2> QED
    BY <2>3, <2>4
<1>3. CASE ~(intr[u] = "wait" /\ op[u] = x)
  <2>1. queue'[x] = queue[x]
    BY <1>1, <1>3 DEF LineInterrupt
  <2> QED
    BY <2>1, StaysStep
<1> QED
  BY <1>2, <1>3

\* thread-suspend, break-thread and Ctl-C change nothing of who is served.
LEMMA BrokenStep ==
  ASSUME FInv, NEW u \in Thread, NEW x \in Op, Interrupts({u}),
         queue' = LineInterrupt(u) \/ queue' = queue,
         UNCHANGED <<op, count, open, owed>>
  PROVE  (Fair!Stays(x) \/ Fair!Leave(x, u)) /\ TallyOf(x)'
<1>1. \A v \in Thread : op'[v] = op[v]
  OBVIOUS
<1>2. op[u] # x => u \notin Served(x)
  BY ServedFacts
<1>3. Served(x)' = Served(x)
  BY <1>1, <1>2, ServedAfter
<1> QED
  BY <1>3, InterruptStep, StaysStep

\* thread-dead! resumes everybody in u's own line for ever, and takes u out of
\* the line it stands in, or lets it go with the unit it was given.
LEMMA DeathStep ==
  ASSUME FInv, NEW u \in Thread, Live(u), ThreadDead(u, DeadWaiters(u)), DeadLines(u),
         op'[u] = NoOp, \A v \in Thread : v # u => pc'[v] = pc[v] /\ op'[v] = op[v],
         Spend(u), NEW x \in Op
  PROVE  /\ Fair!Stays(x) \/ Fair!PostAll(x) \/ Fair!Use(x, u) \/ Fair!Leave(x, u)
         /\ TallyOf(x)'
<1> DEFINE W == DeadWaiters(u)
<1>0. /\ queue \in [Op -> Seq(Thread)] /\ u \in Op /\ x # NoOp /\ op[u] # u
      /\ intr \in [Thread -> {"none", "void", "wait", "suspend"}]
      /\ needsRetry \in [Thread -> BOOLEAN]
  BY SemaphoresAssumption, ThreadsAssumption
     DEF FInv, IInv, SemaTypeOK, ThreadTypeOK, SemaCallbacks
<1>1. W \subseteq Thread /\ u \notin W
  BY <1>0, EmptyLineSet DEF DeadWaiters, FInv, IInv, Lines
<1>2. ASSUME NEW v \in W
      PROVE  /\ u \in made /\ intr[v] = "wait" /\ op[v] = u
             /\ pc[v] \in {"block", "woken"} /\ ~needsRetry[v]
  <2>1. u \in made /\ v \in ToSet(queue[u])
    BY DEF DeadWaiters
  <2>2. intr[v] = "wait" /\ op[v] = u
    BY <1>0, <1>1, <2>1 DEF FInv, IInv, Lines
  <2> QED
    BY <1>1, <2>1, <2>2 DEF FInv, IInv, SemaCallbacks, Breaks, Continuations
<1> HIDE DEF W
<1>3. ASSUME NEW v \in Thread, v # u
      PROVE  /\ intr'[v] = IF v \in W THEN "none" ELSE intr[v]
             /\ needsRetry'[v] = needsRetry[v]
  BY <1>0, <1>3 DEF ThreadDead, W
<1>4. ASSUME NEW v \in Thread, v # u
      PROVE  v \in Served(x)' <=> v \in Served(x) \/ (v \in W /\ x = u)
  <2>1. CASE v \in W
    BY <1>0, <1>2, <1>3, <1>4, <2>1 DEF Served
  <2>2. CASE v \notin W
    BY <1>3, <1>4, <2>2 DEF Served
  <2> QED
    BY <2>1, <2>2
<1>5. u \notin Served(x)' /\ Served(x)' \subseteq Thread /\ Served(x) \subseteq Thread
  BY <1>0 DEF Served
<1>6. owed'[x] = IF x \notin open /\ u \in Served(x) THEN owed[x] - 1 ELSE owed[x]
  BY <1>0 DEF Spend
<1>7. LineInterrupt(u) \in [Op -> Seq(Thread)] /\ count' = count
  BY InterruptLines DEF FInv, IInv, DeadLines
<1>8. CASE u \in made /\ x = u
  <2>1. queue'[x] = <<>> /\ x \in open'
    BY <1>0, <1>7, <1>8 DEF DeadLines
  <2>2. u \notin Served(x) /\ W = ToSet(queue[x])
    BY <1>0, <1>8 DEF Served, W, DeadWaiters
  <2>3. Served(x)' = Served(x) \cup ToSet(queue[x])
    BY <1>1, <1>4, <1>5, <1>8, <2>2
  <2>4. Fair!PostAll(x)
    BY <1>6, <2>1, <2>2, <2>3, SameLines DEF Fair!PostAll
  <2> QED
    BY <2>1, <2>4 DEF TallyOf
<1>9. CASE ~(u \in made /\ x = u)
  <2>1. /\ queue'[x] = LineInterrupt(u)[x] /\ count'[x] = count[x]
        /\ x \in open' <=> x \in open
    BY <1>0, <1>7, <1>9 DEF DeadLines
  <2>2. Served(x)' = Served(x) \ {u}
    BY <1>2, <1>4, <1>5, <1>9
  <2>3. CASE u \in Served(x)
    <3>1. queue'[x] = queue[x]
      BY <2>1, <2>3 DEF Served, LineInterrupt
    <3> QED
      BY <1>6, <2>1, <2>2, <2>3, <3>1, UseStep
  <2>4. CASE u \notin Served(x)
    <3>1. Served(x)' = Served(x)
      BY <2>2, <2>4
    <3> QED
      BY <1>6, <2>1, <2>4, <3>1, InterruptStep
  <2> QED
    BY <2>3, <2>4
<1> QED
  BY <1>8, <1>9

\* The continuations after thread-dead!.
LEMMA DeathContinuations ==
  ASSUME FInv, IInv', NEW u \in Thread, ThreadDead(u, DeadWaiters(u)),
         op'[u] = NoOp, pc'[u] # "enter",
         \A v \in Thread : v # u => pc'[v] = pc[v] /\ op'[v] = op[v]
  PROVE  Continuations'
<1>0. /\ intr \in [Thread -> {"none", "void", "wait", "suspend"}]
      /\ needsRetry \in [Thread -> BOOLEAN]
      /\ engine \in [Thread -> {"none", "ready", "running", "done"}]
      /\ \A v \in Thread : (intr[v] = "wait" => Live(v)) /\ (intr'[v] = "wait" => Live(v)')
  BY DEF FInv, IInv, SemaTypeOK, ThreadTypeOK, SemaCallbacks
<1>1. engine'[u] = "done"
  BY <1>0 DEF ThreadDead
<1>2. ASSUME NEW v \in Thread, v # u
      PROVE  /\ engine'[v] = engine[v] /\ needsRetry'[v] = needsRetry[v]
             /\ intr'[v] = "wait" => intr[v] = "wait"
  BY <1>0, <1>2 DEF ThreadDead
<1>3. ASSUME NEW v \in Thread
      PROVE  /\ pc'[v] = "run" \/ ~Live(v)' => op'[v] = NoOp
             /\ pc'[v] = "enter" => op'[v] # NoOp
             /\ ~Made(v)' => ~needsRetry'[v]
             /\ intr'[v] = "wait" => ~needsRetry'[v]
  <2>1. CASE v = u
    BY <1>0, <1>1, <2>1 DEF Live, Made, Dead
  <2>2. CASE v # u
    BY <1>2, <2>2 DEF FInv, Continuations, Live, Made, Dead
  <2> QED
    BY <2>1, <2>2
<1>4. \A v \in Thread :
        Live(v)' /\ (needsRetry'[v] \/ intr'[v] = "wait") => pc'[v] \in {"block", "woken"}
  BY DEF IInv, Breaks
<1> QED
  BY <1>3, <1>4 DEF Continuations

\* A wait that finds a unit free.
LEMMA TakeStep ==
  ASSUME FInv, NEW s \in Op, NEW x \in Op, Positive(s), TakeUnit(s),
         UNCHANGED <<open, queue>>, Served(x)' = Served(x)
  PROVE  (Fair!Stays(x) \/ Fair!Take(x)) /\ TallyOf(x)'
<1>0. /\ count \in [Op -> 0..MaxCount] /\ MaxCount \in Nat /\ owed \in [Op -> Nat]
      /\ Cardinality(Served(x)) \in Nat /\ TallyOf(x)
  BY SemaphoresAssumption, ServedFacts, Size DEF FInv, IInv, SemaTypeOK
<1>1. CASE x # s
  <2>1. count'[x] = count[x] /\ owed'[x] = owed[x]
    BY <1>0, <1>1 DEF TakeUnit
  <2> QED
    BY <2>1, StaysStep
<1>2. CASE x = s /\ s \in open
  <2>1. count'[x] = count[x] /\ owed'[x] = owed[x]
    BY <1>0, <1>2 DEF TakeUnit
  <2> QED
    BY <2>1, StaysStep
<1>3. CASE x = s /\ s \notin open
  <2>1. count[x] > 0 /\ count'[x] = count[x] - 1 /\ owed'[x] = owed[x] - 1
    BY <1>0, <1>3 DEF TakeUnit, Positive
  <2>2. queue[x] = <<>>
    BY <1>3 DEF FInv, IInv, Units
  <2>3. owed[x] > Cardinality(Served(x))
    BY <1>0, <1>3, <2>1 DEF TallyOf
  <2>4. Fair!Take(x)
    BY <1>3, <2>1, <2>2, <2>3, SameSize DEF Fair!Take, Fair!Free, Fair!UseUnit, Fair!StaysOpen
  <2>5. TallyOf(x)'
    BY <1>0, <1>3, <2>1 DEF TallyOf
  <2> QED
    BY <2>4, <2>5
<1> QED
  BY <1>1, <1>2, <1>3

\* A wait that gets in line.
LEMMA JoinStep ==
  ASSUME FInv, NEW t \in Thread, NEW s \in Op, WaitBlock(t, s), NEW x \in Op
  PROVE  /\ Fair!Stays(x) \/ Fair!Join(x, t)
         /\ TallyOf(x)' /\ Continuations'
<1>0. /\ count \in [Op -> 0..MaxCount] /\ MaxCount \in Nat /\ owed \in [Op -> Nat]
      /\ queue \in [Op -> Seq(Thread)] /\ op \in [Thread -> Op \cup {NoOp}]
      /\ intr \in [Thread -> {"none", "void", "wait", "suspend"}]
      /\ Cardinality(Served(x)) \in Nat /\ TallyOf(x)
  BY SemaphoresAssumption, ServedFacts, Size DEF FInv, IInv, SemaTypeOK, ThreadTypeOK
<1>1. Running(t, "run") \/ Running(t, "enter")
  BY DEF WaitBlock, Calls
<1>2. /\ ThreadInv' /\ intr[t] = "none"
      /\ intr' = [intr EXCEPT ![t] = "wait"] /\ op' = [op EXCEPT ![t] = s]
      /\ \A v \in Thread : v # t => (Over(v)' <=> Over(v))
  BY <1>1, ThreadsInOrder, BlockKeeps DEF WaitBlock
<1>3. t \notin Served(x) /\ t \notin Served(x)' /\ t \notin ToSet(queue[x])
  BY <1>0, <1>1, <1>2 DEF Served, Running, FInv, IInv, Lines
<1>4. Served(x)' = Served(x)
  <2>1. Served(x)' = {v \in Thread : op'[v] = x /\ Over(v)'}
    BY DEF Served, Over
  <2>2. ASSUME NEW v \in Thread, v # t
        PROVE  v \in Served(x)' <=> v \in Served(x)
    BY <1>0, <1>2, <2>1, <2>2, ServedFacts
  <2> QED
    BY <1>3, <2>1, <2>2, ServedFacts
<1>5. CASE x # s
  <2>1. queue'[x] = queue[x] /\ UNCHANGED <<count, open, owed>>
    BY <1>0, <1>5 DEF WaitBlock
  <2> QED
    BY <1>2, <1>4, <2>1, StaysStep DEF ThreadInv
<1>6. CASE x = s
  <2>1. count[x] = 0 /\ x \notin open
    BY <1>0, <1>6 DEF WaitBlock, Positive
  <2>2. queue'[x] = QueueAdd(queue[x], t) /\ UNCHANGED <<count, open, owed>>
    BY <1>0, <1>6 DEF WaitBlock
  <2>3. ~(owed[x] > Cardinality(Served(x)))
    BY <1>0, <2>1 DEF TallyOf
  <2>4. Fair!Join(x, t)
    BY <1>3, <1>4, <2>1, <2>2, <2>3, SameLines, SameSize DEF Fair!Join, Fair!Free, Fair!StaysOpen
  <2>5. TallyOf(x)'
    BY <1>0, <1>4, <2>2 DEF TallyOf
  <2> QED
    BY <1>2, <2>4, <2>5 DEF ThreadInv
<1> QED
  BY <1>5, <1>6

\* A thread that takes a unit, or posts with nobody in line, was not served
\* and resumes nobody.
LEMMA ProceedAlone ==
  ASSUME FInv, NEW t \in Thread, Proceed(t, {}),
         Running(t, "run") \/ Running(t, "enter"), NEW x \in Op
  PROVE  Served(x)' = Served(x) /\ Continuations'
<1>1. /\ ThreadInv' /\ op' = [op EXCEPT ![t] = NoOp]
      /\ \A v \in Thread \ {} : v # t => (Over(v)' <=> Over(v))
  <2>1. {} \in SUBSET Thread /\ \A w \in {} : intr[w] = "wait"
    OBVIOUS
  <2> QED
    BY <2>1, ThreadsInOrder, ProceedKeeps
<1>2. op \in [Thread -> Op \cup {NoOp}] /\ x # NoOp
  BY ThreadsAssumption DEF FInv, IInv, SemaTypeOK, ThreadTypeOK
<1>3. t \notin Served(x) /\ t \notin Served(x)'
  BY <1>1, <1>2 DEF Served, Running
<1>4. Served(x)' = {v \in Thread : op'[v] = x /\ Over(v)'}
  BY DEF Served, Over
<1>5. ASSUME NEW v \in Thread, v # t
      PROVE  v \in Served(x)' <=> v \in Served(x)
  BY <1>1, <1>2, <1>4, <1>5, ServedFacts
<1> QED
  BY <1>1, <1>3, <1>4, <1>5, ServedFacts DEF ThreadInv

\* semaphore-post.
LEMMA PostStep ==
  ASSUME FInv, NEW t \in Thread, NEW s \in Sema, Post(t, s), NEW x \in Op
  PROVE  /\ Fair!Stays(x) \/ Fair!Post(x)
         /\ TallyOf(x)' /\ Continuations'
<1>0. /\ count \in [Op -> 0..MaxCount] /\ MaxCount \in Nat /\ owed \in [Op -> Nat]
      /\ queue \in [Op -> Seq(Thread)] /\ op \in [Thread -> Op \cup {NoOp}]
      /\ s \in Op /\ s \notin open /\ open' = open /\ x # NoOp
      /\ Cardinality(Served(x)) \in Nat /\ TallyOf(x)
  BY SemaphoresAssumption, ThreadsAssumption, ServedFacts, Size
     DEF FInv, IInv, SemaTypeOK, ThreadTypeOK, Post
<1>1. /\ Running(t, "run")
      /\ owed'[x] = IF x = s THEN owed[x] + 1 ELSE owed[x]
      /\ queue'[x] = IF x = s THEN QueueRemove(queue[x]) ELSE queue[x]
  BY <1>0 DEF Post
<1>2. CASE queue[s] = <<>>
  <2>1. Proceed(t, {}) /\ count'[x] = IF x = s THEN count[x] + 1 ELSE count[x]
    BY <1>0, <1>2 DEF Post, QueueEmpty
  <2>2. Served(x)' = Served(x) /\ Continuations'
    BY <1>1, <2>1, ProceedAlone
  <2>3. CASE x # s
    BY <1>0, <1>1, <2>1, <2>2, <2>3, StaysStep
  <2>4. CASE x = s
    <3>1. Fair!Post(x)
      BY <1>0, <1>1, <1>2, <2>2, <2>4, SameLines DEF Fair!Post
    <3>2. TallyOf(x)'
      BY <1>0, <1>1, <2>1, <2>2, <2>4 DEF TallyOf
    <3> QED
      BY <2>2, <3>1, <3>2
  <2> QED
    BY <2>3, <2>4
<1>3. CASE queue[s] # <<>>
  <2>0. PICK h : h = Head(queue[s])
    OBVIOUS
  <2>1. Proceed(t, {h}) /\ count' = count
    BY <1>3, <2>0 DEF Post, QueueEmpty
  <2>2. h \in ToSet(queue[s]) /\ ToSet(queue[s]) \subseteq Thread
    BY <1>0, <1>3, <2>0, RemoveFromLine, EmptyLineSet DEF FInv, IInv, Lines
  <2>3. h \in Thread /\ intr[h] = "wait" /\ op[h] = s /\ h \notin Served(s)
    BY <1>0, <2>2, ServedFacts DEF FInv, IInv, Lines
  <2>4. /\ ThreadInv' /\ t # h /\ op' = [op EXCEPT ![t] = NoOp] /\ Over(h)'
        /\ \A v \in Thread \ {h} : v # t => (Over(v)' <=> Over(v))
    <3>1. {h} \in SUBSET Thread /\ \A w \in {h} : intr[w] = "wait"
      BY <2>3
    <3>2. /\ ThreadInv' /\ t \notin {h} /\ op' = [op EXCEPT ![t] = NoOp]
          /\ \A w \in {h} : Over(w)'
          /\ \A v \in Thread \ {h} : v # t => (Over(v)' <=> Over(v))
      BY <1>1, <2>1, <3>1, ThreadsInOrder, ProceedKeeps
    <3> QED
      BY <3>2
  <2>5. Served(x)' = {v \in Thread : op'[v] = x /\ Over(v)'}
    BY DEF Served, Over
  <2>6. t \notin Served(x) /\ t \notin Served(x)'
    BY <1>0, <1>1, <2>4 DEF Served, Running
  <2>7. h \in Served(x)' <=> x = s
    <3>1. op'[h] = s
      BY <1>0, <2>3, <2>4
    <3> QED
      BY <2>3, <2>4, <2>5, <3>1
  <2>8. ASSUME NEW v \in Thread, v # t, v # h
        PROVE  v \in Served(x)' <=> v \in Served(x)
    BY <1>0, <2>4, <2>5, <2>8, ServedFacts
  <2>9. x # s => h \notin Served(x)
    BY <1>0, <2>3 DEF Served
  <2>10. Served(x)' = IF x = s THEN Served(x) \cup {h} ELSE Served(x)
    BY <2>3, <2>5, <2>6, <2>7, <2>8, <2>9, ServedFacts
  <2>11. CASE x # s
    BY <1>0, <1>1, <2>1, <2>4, <2>10, <2>11, StaysStep DEF ThreadInv
  <2>12. CASE x = s
    <3>a. h = Head(queue[x]) /\ queue[x] # <<>>
      BY <1>3, <2>0, <2>12
    <3>b. /\ Served(x)' = Served(x) \cup {Head(queue[x])} /\ owed'[x] = owed[x] + 1
          /\ queue'[x] = Fair!QueueRemove(queue[x]) /\ x \notin open /\ x \notin open'
      BY <1>0, <1>1, <2>10, <2>12, <3>a, SameLines
    <3>1. Fair!Post(x)
      BY <3>a, <3>b DEF Fair!Post
    <3>2. Cardinality(Served(x)') = Cardinality(Served(x)) + 1
      BY <2>3, <2>10, <2>12, ServedFacts, Size
    <3>3. TallyOf(x)'
      BY <1>0, <1>1, <2>1, <2>12, <3>2 DEF TallyOf
    <3> QED
      BY <2>4, <3>1, <3>3 DEF ThreadInv
  <2> QED
    BY <2>11, <2>12
<1> QED
  BY <1>2, <1>3

\* get-thread-dead-sema may post the line of a dead thread for ever; nobody
\* stands in it yet.
LEMMA DeadSemaStep ==
  ASSUME FInv, NEW t \in Thread, NEW u \in Thread, GetThreadDeadSema(t, u), NEW x \in Op
  PROVE  /\ Fair!Stays(x) \/ Fair!PostAll(x)
         /\ TallyOf(x)' /\ Continuations'
<1>0. /\ queue \in [Op -> Seq(Thread)] /\ u \in Op /\ u # NoOp
      /\ op \in [Thread -> Op \cup {NoOp}] /\ pc[t] = "run"
      /\ pc \in [Thread -> {"run", "block", "woken", "check", "enter"}]
      /\ op' = [op EXCEPT ![t] = u] /\ pc' = [pc EXCEPT ![t] = "enter"]
      /\ UNCHANGED <<engine, intr, needsRetry, count, queue, owed>> /\ current = t
  BY SemaphoresAssumption, ThreadsAssumption
     DEF FInv, IInv, SemaTypeOK, ThreadTypeOK, GetThreadDeadSema, Running
<1>1. Served(x)' = Served(x)
  BY <1>0 DEF Served
<1>2. Continuations'
  <2>1. Live(t) /\ intr[t] = "none" /\ ~needsRetry[t]
    BY <1>0 DEF FInv, IInv, SemaScheduling, Breaks, Live, Made, Dead
  <2> QED
    BY <1>0, <2>1 DEF FInv, Continuations, Live, Made, Dead
<1>3. CASE u \notin made /\ Dead(u) /\ x = u
  <2>1. ToSet(queue[u]) \subseteq Thread /\ (queue[u] = <<>> <=> ToSet(queue[u]) = {})
    BY <1>0, EmptyLineSet
  <2>2. \A v \in Thread : v \notin ToSet(queue[u])
    BY <1>0, <1>3 DEF FInv, IInv, Lines, Units
  <2>3. queue[u] = <<>> /\ ToSet(queue[u]) = {} /\ x \in open'
    BY <1>3, <2>1, <2>2 DEF GetThreadDeadSema
  <2>4. Fair!PostAll(x)
    BY <1>0, <1>1, <1>3, <2>3, SameLines DEF Fair!PostAll
  <2> QED
    BY <1>2, <2>3, <2>4 DEF TallyOf
<1>4. CASE ~(u \notin made /\ Dead(u) /\ x = u)
  <2>1. x \in open' <=> x \in open
    BY <1>4 DEF GetThreadDeadSema
  <2> QED
    BY <1>0, <1>1, <1>2, <2>1, StaysStep
<1> QED
  BY <1>3, <1>4

\* The history of the units stays a function to the naturals.
LEMMA OwedType ==
  ASSUME FInv
  PROVE  /\ \A t \in Thread : Spend(t) => owed' \in [Op -> Nat]
         /\ \A s \in Op : Positive(s) /\ TakeUnit(s) => owed' \in [Op -> Nat]
         /\ \A s \in Op : owed' = [owed EXCEPT ![s] = @ + 1] => owed' \in [Op -> Nat]
<1>0. owed \in [Op -> Nat] /\ count \in [Op -> Nat]
  BY SemaphoresAssumption DEF FInv, IInv, SemaTypeOK
<1>1. ASSUME NEW t \in Thread, Spend(t) PROVE owed' \in [Op -> Nat]
  <2>1. ASSUME NEW s \in Op, s \notin open, t \in Served(s) PROVE owed[s] - 1 \in Nat
    <3>1. Cardinality(Served(s)) \in Nat /\ Cardinality(Served(s)) > 0
      BY <2>1, ServedFacts, Size
    <3> QED
      BY <1>0, <2>1, <3>1 DEF FInv, TallyOf
  <2> QED
    BY <1>0, <1>1, <2>1 DEF Spend
<1>2. ASSUME NEW s \in Op, Positive(s), TakeUnit(s) PROVE owed' \in [Op -> Nat]
  <2>1. CASE s \in open
    BY <1>0, <1>2, <2>1 DEF TakeUnit
  <2>2. CASE s \notin open
    <3>1. Cardinality(Served(s)) \in Nat /\ count[s] > 0
      BY <1>2, <2>2, ServedFacts, Size DEF Positive
    <3>2. owed[s] - 1 \in Nat
      BY <1>0, <2>2, <3>1 DEF FInv, TallyOf
    <3> QED
      BY <1>0, <1>2, <2>2, <3>2 DEF TakeUnit
  <2> QED
    BY <2>1, <2>2
<1> QED
  BY <1>0, <1>1, <1>2

\* Every step of a thread that leaves the lines alone.
LEMMA ThreadStepIsFair ==
  ASSUME Corners = {}, FInv, NEW t \in Thread, ThreadStep(t), Spend(t),
         UNCHANGED semaVars, NEW x \in Op
  PROVE  /\ Fair!Stays(x) \/ Fair!Use(x, t)
         /\ TallyOf(x)' /\ Continuations' /\ owed' \in [Op -> Nat]
<1>0. ThreadInv /\ op \in [Thread -> Op \cup {NoOp}]
  BY ThreadsInOrder DEF FInv, IInv, SemaTypeOK, ThreadTypeOK
<1>1. ThreadInv' /\ Interrupts({}) /\ \A v \in Thread : v # t => op'[v] = op[v]
  <2>1. CASE SwapIn(t) \/ CheckBreak(t)
    <3>1. PICK o : op' = [op EXCEPT ![t] = o]
      BY <2>1 DEF SwapIn, CheckBreak, CheckForBreak
    <3> QED
      BY <1>0, <2>1, <3>1, SwapInKeeps, CheckBreakKeeps
  <2>2. CASE Preempt(t) \/ EngineBlock(t)
    BY <1>0, <2>2, PreemptKeeps, EngineBlockKeeps DEF Preempt, EngineBlock
  <2>3. CASE CheckForRetryingBreak(t)
    BY <1>0, <2>3, CheckForRetryingBreakKeeps DEF CheckForRetryingBreak
  <2>4. ASSUME NEW on \in BOOLEAN, SetBreakEnabled(t, on)
        PROVE  ThreadInv' /\ Interrupts({}) /\ op' = op
    BY <1>0, <2>4, SetBreakEnabledKeeps DEF SetBreakEnabled
  <2>5. ASSUME NEW u \in Thread, MakeThread(t, u) \/ ThreadResume(t, u)
        PROVE  ThreadInv' /\ Interrupts({}) /\ op' = op
    BY <1>0, <2>5, MakeThreadKeeps, ThreadResumeKeeps DEF MakeThread, ThreadResume
  <2> QED
    BY <2>1, <2>2, <2>3, <2>4, <2>5 DEF ThreadStep
<1>2. UNCHANGED <<count, queue, open>>
  BY DEF semaVars
<1> QED
  BY <1>1, <1>2, QuietStep, OwedType DEF ThreadInv

\* The end of a thread, by itself or by kill-thread.
LEMMA DeathIsFair ==
  ASSUME Corners = {}, FInv, IInv', NEW t \in Thread, NEW u \in Thread,
         Kill(t, u) \/ (u = t /\ FinishThread(t)), NEW x \in Op
  PROVE  /\ Fair!Stays(x) \/ Fair!PostAll(x) \/ Fair!Use(x, u) \/ Fair!Leave(x, u)
         /\ TallyOf(x)' /\ Continuations' /\ owed' \in [Op -> Nat]
<1>0. /\ pc \in [Thread -> {"run", "block", "woken", "check", "enter"}]
      /\ op \in [Thread -> Op \cup {NoOp}] /\ owed \in [Op -> Nat]
      /\ \A v \in Thread : current = v => Live(v)
      /\ \A v \in Thread : pc[v] = "run" => op[v] = NoOp
  BY DEF FInv, IInv, SemaTypeOK, ThreadTypeOK, SemaScheduling, Continuations, Live,
         Made, Dead
<1>1. /\ Live(u) /\ ThreadDead(u, DeadWaiters(u)) /\ DeadLines(u) /\ op'[u] = NoOp
      /\ pc'[u] # "enter"
      /\ \A v \in Thread : v # u => pc'[v] = pc[v] /\ op'[v] = op[v]
      /\ Spend(u)
  <2>1. CASE Kill(t, u)
    BY <1>0, <2>1 DEF Kill, KillThread
  <2>2. CASE u = t /\ FinishThread(t)
    <3>1. /\ Live(u) /\ ThreadDead(u, DeadWaiters(u)) /\ DeadLines(u) /\ op[u] = NoOp
          /\ pc[u] = "run" /\ UNCHANGED <<pc, op, owed>>
      BY <1>0, <2>2 DEF FinishThread, Finish, Running
    <3>2. \A s \in Op : u \notin Served(s)
      BY <3>1, ThreadsAssumption DEF Served
    <3>3. Spend(u)
      BY <1>0, <3>1, <3>2 DEF Spend
    <3> QED
      BY <3>1, <3>3
  <2> QED
    BY <2>1, <2>2
<1> QED
  BY <1>1, DeathStep, DeathContinuations, OwedType

\* Every step is a step of FairSemaphores, and the units stay in order.
LEMMA NextIsFair ==
  ASSUME Corners = {}, FInv, [Next]_vars
  PROVE  Fair!Next /\ FInv'
<1> DEFINE Step(x) == \/ Fair!Stays(x) \/ Fair!Take(x) \/ Fair!Post(x) \/ Fair!PostAll(x)
                      \/ \E t \in Thread : Fair!Join(x, t) \/ Fair!Use(x, t) \/ Fair!Leave(x, t)
           Kept(x) == Step(x) /\ TallyOf(x)' /\ Continuations' /\ owed' \in [Op -> Nat]
<1>0. IInv' /\ ThreadInv /\ Main \in Op /\ owed \in [Op -> Nat]
  BY NextKeepsIInv, ThreadsInOrder, ThreadsAssumption, SemaphoresAssumption DEF FInv
<1>1. SUFFICES ASSUME NEW x \in Op PROVE Kept(x)
  BY <1>0 DEF Fair!Next, FInv
<1>2. ASSUME NEW t \in Thread, ThreadStep(t), Spend(t), UNCHANGED semaVars
      PROVE  Kept(x)
  BY <1>2, ThreadStepIsFair
<1>3. ASSUME NEW t \in Thread, FinishThread(t)
      PROVE  Kept(x)
  BY <1>0, <1>3, DeathIsFair
<1>4. ASSUME NEW t \in Thread, NEW u \in Thread, Kill(t, u)
      PROVE  Kept(x)
  BY <1>0, <1>4, DeathIsFair
<1>5. ASSUME NEW t \in Thread, NEW u \in Thread, Suspend(t, u)
      PROVE  Kept(x)
  <2>1. ThreadInv' /\ Interrupts({u})
    BY <1>0, <1>5, ThreadSuspendKeeps DEF Suspend
  <2>2. queue' = LineInterrupt(u) /\ UNCHANGED <<op, count, open, owed>>
    BY <1>5 DEF Suspend, ThreadSuspend
  <2>3. Fair!Stays(x) \/ Fair!Leave(x, u)
    BY <2>1, <2>2, BrokenStep
  <2>4. TallyOf(x)'
    BY <2>1, <2>2, BrokenStep
  <2> QED
    BY <1>0, <2>1, <2>2, <2>3, <2>4 DEF ThreadInv
<1>6. ASSUME NEW u \in Thread, ThreadInv', Interrupts({u}), op' = op, BreakLines(u)
      PROVE  Kept(x)
  <2>1. (queue' = LineInterrupt(u) \/ queue' = queue) /\ UNCHANGED <<op, count, open, owed>>
    BY <1>6 DEF BreakLines
  <2>2. Fair!Stays(x) \/ Fair!Leave(x, u)
    BY <1>6, <2>1, BrokenStep
  <2>3. TallyOf(x)'
    BY <1>6, <2>1, BrokenStep
  <2> QED
    BY <1>0, <1>6, <2>1, <2>2, <2>3 DEF ThreadInv
<1>7. ASSUME NEW t \in Thread, NEW u \in Thread, Break(t, u)
      PROVE  Kept(x)
  BY <1>0, <1>6, <1>7, BreakThreadKeeps DEF Break, BreakThread
<1>8. ASSUME CtlCBreak
      PROVE  Kept(x)
  BY <1>0, <1>6, <1>8, CtlCKeeps, ThreadsAssumption DEF CtlCBreak, CtlC
<1>9. ASSUME NEW t \in Thread, NEW u \in Thread, GetThreadDeadSema(t, u)
      PROVE  Kept(x)
  <2>1. owed' = owed
    BY <1>9 DEF GetThreadDeadSema
  <2> QED
    BY <1>0, <1>9, <2>1, DeadSemaStep
<1>10. ASSUME NEW t \in Thread, NEW s \in Op, WaitTake(t, s)
       PROVE  Kept(x)
  <2>1. /\ Running(t, "run") \/ Running(t, "enter")
        /\ Proceed(t, {}) /\ Positive(s) /\ TakeUnit(s) /\ UNCHANGED <<open, queue>>
    BY <1>10 DEF WaitTake, Calls
  <2>2. Served(x)' = Served(x) /\ Continuations'
    BY <2>1, ProceedAlone
  <2> QED
    BY <2>1, <2>2, TakeStep, OwedType
<1>11. ASSUME NEW t \in Thread, NEW s \in Op, WaitBlock(t, s)
       PROVE  Kept(x)
  <2>1. owed' = owed
    BY <1>11 DEF WaitBlock
  <2> QED
    BY <1>0, <1>11, <2>1, JoinStep
<1>12. ASSUME NEW t \in Thread, NEW s \in Sema, TryWait(t, s)
       PROVE  Kept(x)
  <2>1. s \in Op /\ Positive(s) /\ TakeUnit(s) /\ UNCHANGED <<open, queue, threadVars>>
    BY <1>12, SemaphoresAssumption DEF TryWait, Positive
  <2>2. Served(x)' = Served(x)
    BY <2>1 DEF Served, threadVars
  <2>3. Continuations'
    BY <1>0, <2>1, ThreadStutterKeeps DEF ThreadInv
  <2> QED
    BY <2>1, <2>2, <2>3, TakeStep, OwedType
<1>13. ASSUME NEW t \in Thread, NEW s \in Sema, Post(t, s)
       PROVE  Kept(x)
  <2>1. s \in Op /\ owed' = [owed EXCEPT ![s] = @ + 1]
    BY <1>13, SemaphoresAssumption DEF Post
  <2> QED
    BY <1>13, <2>1, PostStep, OwedType
<1>14. CASE UNCHANGED vars
  <2>1. Served(x)' = Served(x) /\ UNCHANGED <<count, owed, queue, open>>
    BY <1>14 DEF vars, threadVars, semaVars, Served
  <2>2. Continuations'
    BY <1>0, <1>14, ThreadStutterKeeps DEF vars, ThreadInv
  <2> QED
    BY <1>0, <2>1, <2>2, StaysStep
<1> HIDE DEF Kept
<1> QED
  BY <1>2, <1>3, <1>4, <1>5, <1>7, <1>8, <1>9, <1>10, <1>11, <1>12, <1>13, <1>14 DEF Next

\* The initial state has nobody served and all units in the counts.
LEMMA InitIsFair ==
  Init => FInv /\ Fair!Init
<1> SUFFICES ASSUME Init PROVE FInv /\ Fair!Init
  OBVIOUS
<1>1. IInv /\ ThreadInv
  BY InitEstablishes, ThreadInitEstablishes DEF Init
<1>2. owed = count /\ count \in [Op -> Nat]
  BY SemaphoresAssumption DEF Init
<1>3. \A s \in Op : Served(s) = {}
  BY ThreadsAssumption DEF Init, ThreadInit, Served
<1>4. \A s \in Op : TallyOf(s)
  BY <1>2, <1>3, FS_EmptySet DEF TallyOf
<1>5. Fair!Init
  BY <1>2, <1>3 DEF Init, Fair!Init, MakeQueue, Fair!MakeQueue
<1> QED
  BY <1>1, <1>2, <1>4, <1>5 DEF FInv, ThreadInv

\* The units stay in order, whatever the threads do to each other.
THEOREM UnitsInOrder ==
  Corners = {} /\ Spec => []FInv
<1> SUFFICES ASSUME Corners = {} PROVE Spec => []FInv
  OBVIOUS
<1>1. FInv /\ [Next]_vars => FInv'
  BY NextIsFair
<1> QED
  BY InitIsFair, <1>1, PTL DEF Spec

\* The state stays type correct.
THEOREM TypeCorrect ==
  Corners = {} /\ Spec => []TypeOK
<1>1. FInv => TypeOK
  BY DEF FInv, IInv, TypeOK
<1> QED
  BY UnitsInOrder, <1>1, PTL

\* Whatever threads do to each other, every semaphore of the implementation
\* behaves as a first-come first-served one: each unit posted goes to the head
\* of the line or to the next thread that comes, and to one thread only.
THEOREM ImplementsFairSemaphores ==
  Corners = {} /\ Spec => FairLines
<1> SUFFICES ASSUME Corners = {} PROVE Spec => FairLines
  OBVIOUS
<1>1. Init => Fair!Init
  BY InitIsFair
<1>2. FInv /\ [Next]_vars => [Fair!Next]_(Fair!semaphoreVars)
  BY NextIsFair
<1>3. Spec => []FInv
  BY UnitsInOrder
<1> QED
  BY <1>1, <1>2, <1>3, PTL DEF Spec, FairLines, Fair!Spec
=============================================================================
