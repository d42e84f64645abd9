---------------------------- MODULE Semaphores -----------------------------
(***************************************************************************)
(* Semaphores (racket/src/thread/semaphore.rkt) and thread-wait over the   *)
(* threads of module Threads: threads wait and post while other threads    *)
(* break, suspend, resume and kill them.  The dead-sema of thread u, which *)
(* thread-wait waits for, is the line u itself.                            *)
(***************************************************************************)
EXTENDS Threads, WaitQueue

CONSTANTS
  Sema,      \* the program's semaphores
  MaxCount   \* bound on the units a semaphore accumulates

ASSUME SemaphoresAssumption ==
  /\ Op = Sema \cup Thread
  /\ Sema \cap Thread = {}
  /\ MaxCount \in Nat
  /\ IsFiniteSet(Thread)

VARIABLES
  count,  \* semaphore-count of every line, as long as the line is not open
  open,   \* the lines with the count +inf.0
  queue,  \* semaphore-queue
  made,   \* the threads whose dead-sema exists
  owed    \* history: the units posted and not yet used, those that resumed
          \* threads are about to use included; the code has no such count

semaVars == <<count, open, queue, made>>
vars == <<threadVars, semaVars, owed>>

SemaTypeOK ==
  /\ ThreadTypeOK
  /\ count \in [Op -> 0..MaxCount]
  /\ open \subseteq Thread
  /\ queue \in [Op -> Seq(Thread)]
  /\ made \subseteq Thread

TypeOK == SemaTypeOK /\ owed \in [Op -> Nat]

Init ==
  /\ ThreadInit
  /\ count \in {f \in [Op -> 0..MaxCount] : \A u \in Thread : f[u] = 0}
  /\ open = {}
  /\ queue = [o \in Op |-> MakeQueue]
  /\ made = {}
  /\ owed = count

----------------------------------------------------------------------------
\* The threads that a post has resumed out of their wait for s, and that will
\* return from it with the unit: check-for-retrying-break finds no retry.
Served(s) ==
  {t \in Thread : /\ op[t] = s /\ pc[t] \in {"block", "woken"}
                  /\ intr[t] # "wait" /\ ~needsRetry[t]}

\* A served thread t that leaves its wait takes its unit with it, be it by
\* returning, by a break in the engine prefix or by being killed.
Spend(t) ==
  owed' = [s \in Op |-> IF s \notin open /\ t \in Served(s) /\ op'[t] # s
                          THEN owed[s] - 1 ELSE owed[s]]

\* (positive? (semaphore-count s))
Positive(s) == s \in open \/ count[s] > 0

\* Mutant: the count of a dead-sema counts down like any other.
BuggyTakeUnit(s) ==
  /\ count' = [count EXCEPT ![s] = @ - 1]
  /\ UNCHANGED owed

\* (set-semaphore-count! s (sub1 c)); sub1 of +inf.0 is +inf.0.
TakeUnit(s) ==
  IF s \in open
    THEN UNCHANGED <<count, owed>>
    ELSE /\ count' = [count EXCEPT ![s] = @ - 1]
         /\ owed' = [owed EXCEPT ![s] = @ - 1]

\* t calls semaphore-wait for s: from the program, or as its retry callback
\* or the second half of thread-wait.
Calls(t, s) ==
  \/ Running(t, "run") /\ s \in Sema
  \/ Running(t, "enter") /\ s = op[t]

\* (semaphore-wait s) finds a unit.
WaitTake(t, s) ==
  /\ Calls(t, s) /\ Positive(s)
  /\ TakeUnit(s)
  /\ Proceed(t, {})
  /\ UNCHANGED <<open, queue, made>>

\* (semaphore-wait s) gets in line and blocks.
WaitBlock(t, s) ==
  /\ Calls(t, s) /\ ~Positive(s)
  /\ queue' = [queue EXCEPT ![s] = QueueAdd(@, t)]
  /\ Block(t, s)
  /\ UNCHANGED <<count, open, made, owed>>

\* (semaphore-try-wait? s) when it succeeds; otherwise it changes nothing.
TryWait(t, s) ==
  /\ Running(t, "run") /\ count[s] > 0
  /\ TakeUnit(s)
  /\ UNCHANGED <<threadVars, open, queue, made>>

\* Mutant: the thread that came last is resumed.
BuggyPost(t, s) ==
  /\ Running(t, "run")
  /\ IF QueueEmpty(queue[s])
       THEN /\ count[s] < MaxCount
            /\ count' = [count EXCEPT ![s] = @ + 1]
            /\ Proceed(t, {})
            /\ UNCHANGED queue
       ELSE /\ Proceed(t, {Last(queue[s])})
            /\ queue' = [queue EXCEPT ![s] = Front(@)]
            /\ UNCHANGED count
  /\ owed' = [owed EXCEPT ![s] = @ + 1]
  /\ UNCHANGED <<open, made>>

\* (semaphore-post s): the head of the line is resumed, or the count grows.
Post(t, s) ==
  /\ Running(t, "run")
  /\ IF QueueEmpty(queue[s])
       THEN /\ count[s] < MaxCount
            /\ count' = [count EXCEPT ![s] = @ + 1]
            /\ Proceed(t, {})
       ELSE /\ Proceed(t, {Head(queue[s])})
            /\ UNCHANGED count
  /\ queue' = [queue EXCEPT ![s] = QueueRemove(@)]
  /\ owed' = [owed EXCEPT ![s] = @ + 1]
  /\ UNCHANGED <<open, made>>

\* Mutant: a dead-sema made after the thread's end is not posted.
BuggyGetThreadDeadSema(t, u) ==
  /\ Running(t, "run") /\ Made(u)
  /\ u = t => "wait-self" \in Corners
  /\ made' = made \cup {u}
  /\ pc' = [pc EXCEPT ![t] = "enter"]
  /\ op' = [op EXCEPT ![t] = u]
  /\ UNCHANGED <<current, engine, group, intr, suspended, needsRetry,
                 pendingBreak, breakEnabled, status, count, open, queue, owed>>

\* The first half of thread-wait: get-thread-dead-sema.
GetThreadDeadSema(t, u) ==
  /\ Running(t, "run") /\ Made(u)
  /\ u = t => "wait-self" \in Corners
  /\ made' = made \cup {u}
  /\ open' = IF u \notin made /\ Dead(u) THEN open \cup {u} ELSE open
  /\ pc' = [pc EXCEPT ![t] = "enter"]
  /\ op' = [op EXCEPT ![t] = u]
  /\ UNCHANGED <<current, engine, group, intr, suspended, needsRetry,
                 pendingBreak, breakEnabled, status, count, queue, owed>>

----------------------------------------------------------------------------
\* Mutant: an interrupted thread keeps its place in line.
BuggyLineInterrupt(u) == queue

\* The interrupt callback of semaphore-wait, if u is blocked in one.
LineInterrupt(u) ==
  IF intr[u] = "wait"
    THEN [queue EXCEPT ![op[u]] = GetOutOfLine(@, u)]
    ELSE queue

\* The waiters that thread-dead! finds in the dead-sema of u.
DeadWaiters(u) == IF u \in made THEN ToSet(queue[u]) ELSE {}

\* The lines after (thread-dead! u): its dead-sema is posted for ever and
\* the callback takes u out of the line it waits in.
DeadLines(u) ==
  /\ open' = IF u \in made THEN open \cup {u} ELSE open
  /\ queue' = LET q == LineInterrupt(u)
              IN  IF u \in made THEN [q EXCEPT ![u] = <<>>] ELSE q
  /\ UNCHANGED <<count, made>>

FinishThread(t) == Finish(t, DeadWaiters(t)) /\ DeadLines(t) /\ UNCHANGED owed

Kill(t, u) == KillThread(t, u, DeadWaiters(u)) /\ DeadLines(u) /\ Spend(u)

Suspend(t, u) ==
  /\ ThreadSuspend(t, u)
  /\ queue' = LineInterrupt(u)
  /\ UNCHANGED <<count, open, made, owed>>

\* The lines after do-break-thread.
BreakLines(u) ==
  /\ queue' = IF suspended[u] THEN queue ELSE LineInterrupt(u)
  /\ UNCHANGED <<count, open, made, owed>>

Break(t, u) == BreakThread(t, u) /\ BreakLines(u)

CtlCBreak == CtlC /\ BreakLines(Main)

----------------------------------------------------------------------------
\* The steps of one thread that leave every line alone.
ThreadStep(t) ==
  \/ SwapIn(t) \/ Preempt(t) \/ EngineBlock(t)
  \/ CheckForRetryingBreak(t) \/ CheckBreak(t)
  \/ \E on \in BOOLEAN : SetBreakEnabled(t, on)
  \/ \E u \in Thread : MakeThread(t, u) \/ ThreadResume(t, u)

Next ==
  \/ \E t \in Thread : ThreadStep(t) /\ Spend(t) /\ UNCHANGED semaVars
  \/ \E t \in Thread : FinishThread(t)
  \/ \E t, u \in Thread :
       Kill(t, u) \/ Suspend(t, u) \/ Break(t, u) \/ GetThreadDeadSema(t, u)
  \/ \E t \in Thread, s \in Op : WaitTake(t, s) \/ WaitBlock(t, s)
  \/ \E t \in Thread, s \in Sema : TryWait(t, s) \/ Post(t, s)
  \/ CtlCBreak

Spec == Init /\ [][Next]_vars

----------------------------------------------------------------------------
(* Properties.                                                             *)

\* No sequence of operations makes thread-internal-resume! meet a dead
\* thread, unlinks a thread that is not in the thread group or links one that
\* is already there (thread-group-remove! and thread-group-add! do not check).
NeverCorrupted == status \in {"up", "exit"}

\* threads.scrbl: a suspended thread "does not execute until it is resumed":
\* no post, break or termination of another thread puts it back in the group.
SuspendedStaysOut ==
  \A t \in Thread : suspended[t] /\ Live(t) => t \notin group

\* A live thread that is neither suspended nor schedulable stands in the line
\* of the operation it is blocked in: no wakeup is lost to a break, a suspend,
\* a resume or a kill that races with a post.
NoThreadLost ==
  \A t \in Thread :
    Live(t) /\ ~suspended[t] /\ t \notin group =>
      op[t] # NoOp /\ t \in ToSet(queue[op[t]])

\* Whoever stands in a line can take the unit a post hands over: it is alive,
\* not suspended, and blocked in the operation of this line; and it stands
\* there once.
QueuedCanTake ==
  \A s \in Op :
    /\ NoDuplicates(queue[s])
    /\ \A t \in ToSet(queue[s]) :
         Live(t) /\ ~suspended[t] /\ t \notin group /\ op[t] = s

\* No unit lies unused while a thread waits for it, and nobody waits for the
\* death of a dead thread.
NoIdleUnit ==
  \A s \in Op :
    Positive(s) \/ (s \in Thread /\ Dead(s)) => queue[s] = <<>>

\* breaks.scrbl: "When a break is detected and enabled, the exception is
\* raised in the thread sometime afterward": a live, unsuspended thread with
\* a pending and enabled break is schedulable, so that it will check for it.
NoStuckBreak ==
  \A t \in Thread :
    pendingBreak[t] /\ breakEnabled[t] /\ Live(t) /\ ~suspended[t] =>
      t \in group

\* A terminated thread stays terminated.
DeadForever == [][\A t \in Thread : Dead(t) => Dead(t)']_vars

\* semaphores.scrbl: "Semaphore waiting is fair": whatever happens to the
\* threads in its line, each semaphore gives every unit that is posted to the
\* thread that has waited longest, or keeps it for the next that comes, and to
\* nobody else, as FairSemaphores says: a post that serves another thread than
\* the head of the line, a unit lost or used twice between a post and a break,
\* suspend or kill of the waiter, or a thread that overtakes others violate it.
Fair == INSTANCE FairSemaphores WITH
          Semaphore <- Op, units <- owed, line <- queue,
          served <- [s \in Op |-> Served(s)]

FairLines == Fair!Spec
=============================================================================
