------------------------------ MODULE Threads ------------------------------
(***************************************************************************)
(* The green threads of racket/src/thread: what thread.rkt and             *)
(* schedule.rkt do to a thread, whatever the operation it blocks in.  A    *)
(* module that models a blocking operation (Semaphores, ...) extends this  *)
(* one and conjoins to each action what it does to the operation's lines.  *)
(*                                                                         *)
(* One action is one `atomically` block: the engine's timer can swap the   *)
(* running thread out between two of them and nowhere else.                *)
(***************************************************************************)
EXTENDS Naturals, FiniteSets

CONSTANTS
  Thread,    \* every thread the program may create
  Main,      \* root-thread, the one call-in-main-thread starts
  NoThread,  \* the value #f of (current-thread)
  Op,        \* what a blocking operation waits for (a semaphore, ...)
  NoOp,      \* no blocking operation
  Corners    \* the uses of the API below that the program makes:
             \*   "kill-self"       (kill-thread (current-thread))
             \*   "suspend-dead"    thread-suspend of a terminated thread
             \*   "break-dead"      break-thread of a thread killed in a wait
             \*   "wait-self"       thread-wait of the calling thread
             \*   "unchecked-break" (break-enabled on?), and Ctl-C while the
             \*                     main thread runs

ASSUME ThreadsAssumption ==
  /\ Main \in Thread
  /\ NoThread \notin Thread
  /\ NoOp \notin Op

VARIABLES
  current,       \* (current-thread)
  engine,        \* thread-engine: "none" before the thread is made, "ready"
                 \* for a stored engine, "running", "done"
  group,         \* the threads of the thread group, i.e. the schedulable ones
  intr,          \* thread-interrupt-callback: "none" is #f, "void" is void,
                 \* "wait" the callback of a blocking operation, "suspend"
                 \* the one of thread-suspend
  suspended,     \* thread-suspended?
  needsRetry,    \* thread-needs-retry?
  pendingBreak,  \* thread-pending-break?
  breakEnabled,  \* the thread's break-enabled cell
  pc,            \* where the thread's continuation stands:
                 \*   "run"    in the program's own code
                 \*   "block"  before the engine-block of an internal suspend
                 \*   "woken"  after it, before check-for-retrying-break
                 \*   "check"  before a check-for-break
                 \*   "enter"  before the atomic part of operation op
  op,            \* the blocking operation the thread is in
  status         \* "up", "exit" after (exit), "resume-dead" after the
                 \* internal error of that name, "group" after the thread
                 \* group's links or its count are corrupted

threadVars == <<current, engine, group, intr, suspended, needsRetry,
                pendingBreak, breakEnabled, pc, op, status>>

ThreadTypeOK ==
  /\ current \in Thread \cup {NoThread}
  /\ engine \in [Thread -> {"none", "ready", "running", "done"}]
  /\ group \subseteq Thread
  /\ intr \in [Thread -> {"none", "void", "wait", "suspend"}]
  /\ suspended \in [Thread -> BOOLEAN]
  /\ needsRetry \in [Thread -> BOOLEAN]
  /\ pendingBreak \in [Thread -> BOOLEAN]
  /\ breakEnabled \in [Thread -> BOOLEAN]
  /\ pc \in [Thread -> {"run", "block", "woken", "check", "enter"}]
  /\ op \in [Thread -> Op \cup {NoOp}]
  /\ status \in {"up", "exit", "resume-dead", "group"}

\* call-in-main-thread: only the main thread exists, and it is schedulable.
ThreadInit ==
  /\ current = NoThread
  /\ engine = [t \in Thread |-> IF t = Main THEN "ready" ELSE "none"]
  /\ group = {Main}
  /\ intr = [t \in Thread |-> "none"]
  /\ suspended = [t \in Thread |-> FALSE]
  /\ needsRetry = [t \in Thread |-> FALSE]
  /\ pendingBreak = [t \in Thread |-> FALSE]
  /\ breakEnabled = [t \in Thread |-> TRUE]
  /\ pc = [t \in Thread |-> "run"]
  /\ op = [t \in Thread |-> NoOp]
  /\ status = "up"

Made(t) == engine[t] # "none"

\* thread-dead?
Dead(t) == engine[t] = "done"

Live(t) == Made(t) /\ ~Dead(t)

\* t runs and its continuation stands at c.
Running(t, c) == status = "up" /\ current = t /\ pc[t] = c

----------------------------------------------------------------------------
(* Parts of handlers.                                                      *)

\* (thread-group-remove! (thread-parent t) t): it unlinks and counts down
\* without asking whether t is a member.
GroupRemoveStatus(t) == IF t \in group THEN "up" ELSE "group"

\* (thread-internal-resume! u) for each u of W: it refuses a dead thread and
\* adds to the group without asking whether u is already a member.
ResumeStatus(W) == CASE \E u \in W : Dead(u) -> "resume-dead"
                     [] W \cap group # {}    -> "group"
                     [] OTHER                -> "up"

InternalResume(W) ==
  /\ intr' = [u \in Thread |-> IF u \in W THEN "none" ELSE intr[u]]
  /\ group' = group \cup W
  /\ status' = ResumeStatus(W)

\* (thread-internal-suspend! t ...) with a callback of kind k.
InternalSuspend(t, k) ==
  /\ intr' = [intr EXCEPT ![t] = k]
  /\ group' = group \ {t}
  /\ status' = GroupRemoveStatus(t)

\* The interrupt callback of t would be run: it is armed by a wait or by an
\* explicit suspend, and then notes that a retry is needed.
Armed(t) == intr[t] \in {"wait", "suspend"}

\* The condition of check-for-break.
BreakDue(t) == pendingBreak[t] /\ breakEnabled[t] /\ ~needsRetry[t]

\* check-for-break in t when the continuation would go on at <<c, o>>: a due
\* break is consumed and raised, and its handler escapes from the operation
\* or continues it.
CheckForBreak(t, c, o) ==
  /\ pendingBreak' = [pendingBreak EXCEPT ![t] = @ /\ ~BreakDue(t)]
  /\ \E escape \in IF BreakDue(t) THEN BOOLEAN ELSE {FALSE} :
       /\ pc' = [pc EXCEPT ![t] = IF escape THEN "run" ELSE c]
       /\ op' = [op EXCEPT ![t] = IF escape THEN NoOp ELSE o]

\* Mutant: the thread stays in its group.
BuggyThreadDead(u, W) ==
  /\ engine' = [engine EXCEPT ![u] = "done"]
  /\ InternalResume(W)
  /\ UNCHANGED needsRetry

\* (thread-dead! u), where W are the threads in line for u's dead-sema.
ThreadDead(u, W) ==
  /\ engine' = [engine EXCEPT ![u] = "done"]
  /\ intr' = [v \in Thread |->
                CASE v = u /\ intr[u] # "none" -> "void"
                  [] v # u /\ v \in W          -> "none"
                  [] OTHER                     -> intr[v]]
  /\ needsRetry' = [needsRetry EXCEPT ![u] = @ \/ Armed(u)]
  /\ group' = (group \cup W) \ {u}
  /\ status' = CASE u \in W                             -> "resume-dead"
                 [] ResumeStatus(W) # "up"               -> ResumeStatus(W)
                 [] intr[u] = "none" /\ u \notin group   -> "group"
                 [] OTHER -> IF u = Main THEN "exit" ELSE "up"

\* Mutant: the test of thread-suspended? is missing.
BuggyDoBreakThread(u) ==
  /\ ~pendingBreak[u]
  /\ pendingBreak' = [pendingBreak EXCEPT ![u] = TRUE]
  /\ needsRetry' = [needsRetry EXCEPT ![u] = @ \/ Armed(u)]
  /\ IF intr[u] = "none" THEN UNCHANGED <<intr, group, status>>
                         ELSE InternalResume({u})

\* Mutant: the thread is resumed only if the break can be raised.
LazyDoBreakThread(u) ==
  /\ ~pendingBreak[u]
  /\ pendingBreak' = [pendingBreak EXCEPT ![u] = TRUE]
  /\ needsRetry' = [needsRetry EXCEPT ![u] = @ \/ Armed(u)]
  /\ IF suspended[u] \/ intr[u] = "none" \/ ~breakEnabled[u]
       THEN UNCHANGED <<intr, group, status>>
       ELSE InternalResume({u})

\* The atomic part of do-break-thread for a target without a pending break.
DoBreakThread(u) ==
  /\ ~pendingBreak[u]
  /\ pendingBreak' = [pendingBreak EXCEPT ![u] = TRUE]
  /\ IF suspended[u] \/ intr[u] = "none"
       THEN UNCHANGED <<needsRetry, intr, group, status>>
       ELSE /\ needsRetry' = [needsRetry EXCEPT ![u] = @ \/ Armed(u)]
            /\ InternalResume({u})

\* The expire callback of swap-in-thread: the engine is stored again, even
\* when thread-dead! has just marked the thread done.
Expire(t) ==
  /\ current' = NoThread
  /\ engine' = [engine EXCEPT ![t] = "ready"]

----------------------------------------------------------------------------
(* The scheduler, and the end of a blocking operation.                     *)

\* Mutant: the prefix does not check for a break.
BuggySwapIn(t) ==
  /\ status = "up" /\ current = NoThread /\ t \in group
  /\ current' = t
  /\ engine' = [engine EXCEPT ![t] = "running"]
  /\ UNCHANGED <<group, intr, suspended, needsRetry, pendingBreak,
                 breakEnabled, pc, op, status>>

\* select-thread! and swap-in-thread, with the engine prefix that checks for
\* a break.  Any member of the group may be next; the round-robin order is
\* left out here.
SwapIn(t) ==
  /\ status = "up" /\ current = NoThread /\ t \in group
  /\ current' = t
  /\ engine' = [engine EXCEPT ![t] = "running"]
  /\ CheckForBreak(t, pc[t], op[t])
  /\ UNCHANGED <<group, intr, suspended, needsRetry, breakEnabled, status>>

\* The engine's timer fires outside of atomic mode.
Preempt(t) ==
  /\ status = "up" /\ current = t
  /\ Expire(t)
  /\ UNCHANGED <<group, intr, suspended, needsRetry, pendingBreak,
                 breakEnabled, pc, op, status>>

\* The engine-block of an internal suspend (and of kill-thread).
EngineBlock(t) ==
  /\ Running(t, "block")
  /\ Expire(t)
  /\ pc' = [pc EXCEPT ![t] = "woken"]
  /\ UNCHANGED <<group, intr, suspended, needsRetry, pendingBreak,
                 breakEnabled, op, status>>

\* check-for-retrying-break: without an interruption the operation is over.
CheckForRetryingBreak(t) ==
  /\ Running(t, "woken")
  /\ needsRetry' = [needsRetry EXCEPT ![t] = FALSE]
  /\ pc' = [pc EXCEPT ![t] = IF needsRetry[t] THEN "check" ELSE "run"]
  /\ op' = [op EXCEPT ![t] = IF needsRetry[t] THEN @ ELSE NoOp]
  /\ UNCHANGED <<current, engine, group, intr, suspended, pendingBreak,
                 breakEnabled, status>>

\* check-for-break, then the retry callback of the operation, if any.
CheckBreak(t) ==
  /\ Running(t, "check")
  /\ CheckForBreak(t, IF op[t] = NoOp THEN "run" ELSE "enter", op[t])
  /\ UNCHANGED <<current, engine, group, intr, suspended, needsRetry,
                 breakEnabled, status>>

----------------------------------------------------------------------------
(* The operations of thread.rkt, called by the running thread t.           *)

\* (thread proc): the break-enabled cell is inherited.
MakeThread(t, u) ==
  /\ Running(t, "run") /\ ~Made(u)
  /\ engine' = [engine EXCEPT ![u] = "ready"]
  /\ breakEnabled' = [breakEnabled EXCEPT ![u] = breakEnabled[t]]
  /\ group' = group \cup {u}
  /\ UNCHANGED <<current, intr, suspended, needsRetry, pendingBreak, pc, op,
                 status>>

\* The thread's thunk returns: the complete callback of swap-in-thread.
Finish(t, W) ==
  /\ Running(t, "run")
  /\ current' = NoThread
  /\ ThreadDead(t, W)
  /\ UNCHANGED <<suspended, pendingBreak, breakEnabled, pc, op>>

\* Mutant: the test of thread-dead? is missing.
BuggyKillThread(t, u, W) ==
  /\ Running(t, "run") /\ Made(u) /\ u # t
  /\ ThreadDead(u, W)
  /\ pc' = [pc EXCEPT ![u] = "run"]
  /\ op' = [op EXCEPT ![u] = NoOp]
  /\ UNCHANGED <<current, suspended, pendingBreak, breakEnabled>>

\* (kill-thread u).  A thread that kills itself goes on to engine-block; the
\* continuation of any other one is dropped with its engine.
KillThread(t, u, W) ==
  /\ Running(t, "run") /\ Live(u)
  /\ u = t => "kill-self" \in Corners
  /\ ThreadDead(u, W)
  /\ pc' = [pc EXCEPT ![u] = IF u = t THEN "block" ELSE "run"]
  /\ op' = [op EXCEPT ![u] = NoOp]
  /\ UNCHANGED <<current, suspended, pendingBreak, breakEnabled>>

\* (thread-suspend u) for a thread not suspended yet (otherwise it has no
\* effect, because a suspended thread keeps a callback).
ThreadSuspend(t, u) ==
  /\ Running(t, "run") /\ Made(u) /\ ~suspended[u]
  /\ Dead(u) => "suspend-dead" \in Corners
  /\ suspended' = [suspended EXCEPT ![u] = TRUE]
  /\ needsRetry' = [needsRetry EXCEPT ![u] = @ \/ Armed(u)]
  /\ IF intr[u] # "none"
       THEN /\ intr' = [intr EXCEPT ![u] = "void"]
            /\ UNCHANGED <<group, status>>
       ELSE InternalSuspend(u, "suspend")
  /\ pc' = [pc EXCEPT ![t] = IF u = t THEN "block" ELSE @]
  /\ UNCHANGED <<current, engine, pendingBreak, breakEnabled, op>>

\* (thread-resume u)
ThreadResume(t, u) ==
  /\ Running(t, "run") /\ Live(u) /\ suspended[u]
  /\ suspended' = [suspended EXCEPT ![u] = FALSE]
  /\ InternalResume({u})
  /\ UNCHANGED <<current, engine, needsRetry, pendingBreak, breakEnabled, pc,
                 op>>

\* (break-thread u); a thread that breaks itself goes on to check-for-break.
BreakThread(t, u) ==
  /\ Running(t, "run") /\ Made(u)
  /\ Dead(u) /\ intr[u] # "none" => "break-dead" \in Corners
  /\ DoBreakThread(u)
  /\ pc' = [pc EXCEPT ![t] = IF u = t THEN "check" ELSE @]
  /\ UNCHANGED <<current, engine, suspended, breakEnabled, op>>

\* The Ctl-C handler: a break for the root thread, and no check-for-break.
CtlC ==
  /\ status = "up"
  /\ current = Main => "unchecked-break" \in Corners
  /\ DoBreakThread(Main)
  /\ UNCHANGED <<current, engine, suspended, breakEnabled, pc, op>>

\* call-with-break-parameterization changes the mark for break-enabled-key
\* and then calls check-for-break; (break-enabled on) sets the cell only.
SetBreakEnabled(t, on) ==
  /\ Running(t, "run") /\ breakEnabled[t] # on
  /\ breakEnabled' = [breakEnabled EXCEPT ![t] = on]
  /\ \E checked \in BOOLEAN :
       /\ ~checked => "unchecked-break" \in Corners
       /\ pc' = [pc EXCEPT ![t] = IF checked THEN "check" ELSE @]
  /\ UNCHANGED <<current, engine, group, intr, suspended, needsRetry,
                 pendingBreak, op, status>>

\* (waiter-suspend! t ...) of the blocking operation o, from its atomic part.
Block(t, o) ==
  /\ InternalSuspend(t, "wait")
  /\ pc' = [pc EXCEPT ![t] = "block"]
  /\ op' = [op EXCEPT ![t] = o]
  /\ UNCHANGED <<current, engine, suspended, needsRetry, pendingBreak,
                 breakEnabled>>

\* The operation finishes in its atomic part, resuming the waiters W.
Proceed(t, W) ==
  /\ InternalResume(W)
  /\ pc' = [pc EXCEPT ![t] = "run"]
  /\ op' = [op EXCEPT ![t] = NoOp]
  /\ UNCHANGED <<current, engine, suspended, needsRetry, pendingBreak,
                 breakEnabled>>
=============================================================================
