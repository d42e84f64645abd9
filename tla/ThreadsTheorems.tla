-------------------------- MODULE ThreadsTheorems --------------------------
(***************************************************************************)
(* What the handlers of module Threads keep true, for any set of threads   *)
(* and any blocking operations, in a program that makes no use of the      *)
(* corners of the API where the code goes wrong, and what the operations   *)
(* on a line (WaitQueue) do to the set of threads that stand in it.  The   *)
(* proofs about a module that extends Threads (Mailboxes, Channels) cite   *)
(* these facts; those about Semaphores, the facts on lines.                *)
(***************************************************************************)
EXTENDS Threads, WaitQueue, SequenceTheorems, TLAPS

\* The engines and the thread group say the same of a thread: the running
\* one is the current one, the schedulable ones are those without callback,
\* the current one has no callback until it blocks, and the end of the main
\* thread ends the program.
Scheduling ==
  /\ status \in {"up", "exit"}
  /\ \A t \in Thread : engine[t] = "running" <=> current = t
  /\ \A t \in Thread : t \in group <=> Live(t) /\ intr[t] = "none"
  /\ \A t \in Thread : current = t /\ pc[t] # "block" => intr[t] = "none"
  /\ status = "up" => Live(Main)

\* What the interrupt callback of a thread says of it.
Callbacks ==
  \A t \in Thread :
    /\ ~Made(t) => intr[t] = "none" /\ ~suspended[t]
    /\ intr[t] = "wait" => Live(t) /\ ~suspended[t] /\ op[t] \in Op
    /\ intr[t] = "suspend" => Live(t) /\ suspended[t]
    /\ Live(t) => (suspended[t] <=> intr[t] \in {"void", "suspend"})

\* Where a continuation stands: a thread runs the program's own code outside
\* of every blocking operation, a retry is pending only inside of one, and not
\* while the thread waits.
Continuations ==
  \A t \in Thread :
    /\ pc[t] = "run" \/ ~Live(t) => op[t] = NoOp
    /\ pc[t] = "enter" => op[t] # NoOp
    /\ Live(t) /\ (needsRetry[t] \/ intr[t] = "wait") => pc[t] \in {"block", "woken"}
    /\ ~Made(t) => ~needsRetry[t]
    /\ intr[t] = "wait" => ~needsRetry[t]

ThreadInv == ThreadTypeOK /\ Scheduling /\ Callbacks /\ Continuations

\* The blocking operation of t is over: t was resumed, not interrupted.
Over(t) == pc[t] \in {"block", "woken"} /\ intr[t] # "wait" /\ ~needsRetry[t]

\* A step that takes the threads of I out of their waits, and nobody else; a
\* thread that stays in its operation has finished it afterwards if and only
\* if it had before.
Interrupts(I) ==
  \A v \in Thread :
    /\ intr'[v] = "wait" <=> intr[v] = "wait" /\ v \notin I
    /\ \/ op'[v] = op[v] /\ (op[v] # NoOp => (Over(v)' <=> Over(v)))
       \/ op'[v] = NoOp

----------------------------------------------------------------------------
\* The initial state.
LEMMA ThreadInitEstablishes ==
  ThreadInit => ThreadInv
  BY ThreadsAssumption DEF ThreadInit, ThreadInv, ThreadTypeOK, Scheduling,
       Callbacks, Continuations, Live, Made, Dead

\* A step that leaves the threads alone.
LEMMA ThreadStutterKeeps ==
  ASSUME ThreadInv, UNCHANGED threadVars
  PROVE  ThreadInv' /\ Interrupts({})
  BY DEF threadVars, ThreadInv, ThreadTypeOK, Scheduling, Callbacks,
       Continuations, Interrupts, Over, Live, Made, Dead

\* Live threads outside of the group can be resumed.
LEMMA ResumeUp ==
  ASSUME NEW W, \A u \in W : Live(u) /\ u \notin group
  PROVE  ResumeStatus(W) = "up"
  BY DEF ResumeStatus, Live, Made, Dead

\* swap-in-thread.
LEMMA SwapInKeeps ==
  ASSUME Corners = {}, ThreadInv, NEW t \in Thread, SwapIn(t)
  PROVE  ThreadInv' /\ Interrupts({})
<1> USE ThreadsAssumption DEF SwapIn, CheckForBreak, BreakDue, ThreadInv
<1>0. /\ intr[t] = "none" /\ Live(t)
      /\ \/ pc' = pc /\ op' = op
         \/ /\ ~needsRetry[t] /\ pc' = [pc EXCEPT ![t] = "run"]
            /\ op' = [op EXCEPT ![t] = NoOp]
  <2>1. PICK escape \in IF BreakDue(t) THEN BOOLEAN ELSE {FALSE} :
          /\ pc' = [pc EXCEPT ![t] = IF escape THEN "run" ELSE pc[t]]
          /\ op' = [op EXCEPT ![t] = IF escape THEN NoOp ELSE op[t]]
    OBVIOUS
  <2>2. CASE escape = FALSE
    BY <2>1, <2>2 DEF ThreadTypeOK, Scheduling
  <2>3. CASE escape = TRUE
    BY <2>1, <2>3 DEF ThreadTypeOK, Scheduling
  <2> QED
    BY <2>1, <2>2, <2>3
<1>1. ThreadTypeOK'
  BY <1>0 DEF ThreadTypeOK
<1>2. Scheduling'
  BY <1>0 DEF ThreadTypeOK, Scheduling, Callbacks, Live, Made, Dead
<1>3. Callbacks'
  BY <1>0 DEF ThreadTypeOK, Scheduling, Callbacks, Live, Made, Dead
<1>4. Continuations'
  BY <1>0 DEF ThreadTypeOK, Scheduling, Callbacks, Continuations, Live, Made, Dead
<1>5. Interrupts({})
  BY <1>0 DEF ThreadTypeOK, Scheduling, Callbacks, Continuations, Interrupts, Over, Live, Made, Dead
<1> QED
  BY <1>1, <1>2, <1>3, <1>4, <1>5

\* The engine's timer.
LEMMA PreemptKeeps ==
  ASSUME Corners = {}, ThreadInv, NEW t \in Thread, Preempt(t)
  PROVE  ThreadInv' /\ Interrupts({})
<1> USE ThreadsAssumption DEF Preempt, Expire, ThreadInv
<1>1. ThreadTypeOK'
  BY DEF ThreadTypeOK
<1>2. Scheduling'
  BY DEF ThreadTypeOK, Scheduling, Callbacks, Live, Made, Dead
<1>3. Callbacks'
  BY DEF ThreadTypeOK, Scheduling, Callbacks, Live, Made, Dead
<1>4. Continuations'
  BY DEF ThreadTypeOK, Scheduling, Callbacks, Continuations, Live, Made, Dead
<1>5. Interrupts({})
  BY DEF ThreadTypeOK, Scheduling, Callbacks, Continuations, Interrupts, Over, Live, Made, Dead
<1> QED
  BY <1>1, <1>2, <1>3, <1>4, <1>5

\* engine-block.
LEMMA EngineBlockKeeps ==
  ASSUME Corners = {}, ThreadInv, NEW t \in Thread, EngineBlock(t)
  PROVE  ThreadInv' /\ Interrupts({})
<1> USE ThreadsAssumption DEF EngineBlock, Expire, Running, ThreadInv
<1>1. ThreadTypeOK'
  BY DEF ThreadTypeOK
<1>2. Scheduling'
  BY DEF ThreadTypeOK, Scheduling, Callbacks, Live, Made, Dead
<1>3. Callbacks'
  BY DEF ThreadTypeOK, Scheduling, Callbacks, Live, Made, Dead
<1>4. Continuations'
  BY DEF ThreadTypeOK, Scheduling, Callbacks, Continuations, Live, Made, Dead
<1>5. Interrupts({})
  BY DEF ThreadTypeOK, Scheduling, Callbacks, Continuations, Interrupts, Over, Live, Made, Dead
<1> QED
  BY <1>1, <1>2, <1>3, <1>4, <1>5

\* check-for-retrying-break.
LEMMA CheckForRetryingBreakKeeps ==
  ASSUME Corners = {}, ThreadInv, NEW t \in Thread, CheckForRetryingBreak(t)
  PROVE  ThreadInv' /\ Interrupts({})
<1> USE ThreadsAssumption DEF CheckForRetryingBreak, Running, ThreadInv
<1>1. ThreadTypeOK'
  BY DEF ThreadTypeOK
<1>2. Scheduling'
  BY DEF ThreadTypeOK, Scheduling, Callbacks, Live, Made, Dead
<1>3. Callbacks'
  BY DEF ThreadTypeOK, Scheduling, Callbacks, Live, Made, Dead
<1>4. Continuations'
  BY DEF ThreadTypeOK, Scheduling, Callbacks, Continuations, Live, Made, Dead
<1>5. Interrupts({})
  BY DEF ThreadTypeOK, Scheduling, Callbacks, Continuations, Interrupts, Over, Live, Made, Dead
<1> QED
  BY <1>1, <1>2, <1>3, <1>4, <1>5

\* check-for-break.
LEMMA CheckBreakKeeps ==
  ASSUME Corners = {}, ThreadInv, NEW t \in Thread, CheckBreak(t)
  PROVE  ThreadInv' /\ Interrupts({})
<1> USE ThreadsAssumption DEF CheckBreak, CheckForBreak, BreakDue, Running, ThreadInv
<1>1. ThreadTypeOK'
  BY DEF ThreadTypeOK
<1>2. Scheduling'
  BY DEF ThreadTypeOK, Scheduling, Callbacks, Live, Made, Dead
<1>3. Callbacks'
  BY DEF ThreadTypeOK, Scheduling, Callbacks, Live, Made, Dead
<1>4. Continuations'
  BY DEF ThreadTypeOK, Scheduling, Callbacks, Continuations, Live, Made, Dead
<1>5. Interrupts({})
  BY DEF ThreadTypeOK, Scheduling, Callbacks, Continuations, Interrupts, Over, Live, Made, Dead
<1> QED
  BY <1>1, <1>2, <1>3, <1>4, <1>5

\* A change of the break-enabled mark.
LEMMA SetBreakEnabledKeeps ==
  ASSUME Corners = {}, ThreadInv, NEW t \in Thread, NEW on \in BOOLEAN,
         SetBreakEnabled(t, on)
  PROVE  ThreadInv' /\ Interrupts({})
<1> USE ThreadsAssumption DEF SetBreakEnabled, Running, ThreadInv
<1>1. ThreadTypeOK'
  BY DEF ThreadTypeOK
<1>2. Scheduling'
  BY DEF ThreadTypeOK, Scheduling, Callbacks, Live, Made, Dead
<1>3. Callbacks'
  BY DEF ThreadTypeOK, Scheduling, Callbacks, Live, Made, Dead
<1>4. Continuations'
  BY DEF ThreadTypeOK, Scheduling, Callbacks, Continuations, Live, Made, Dead
<1>5. Interrupts({})
  BY DEF ThreadTypeOK, Scheduling, Callbacks, Continuations, Interrupts, Over, Live, Made, Dead
<1> QED
  BY <1>1, <1>2, <1>3, <1>4, <1>5

\* thread.
LEMMA MakeThreadKeeps ==
  ASSUME Corners = {}, ThreadInv, NEW t \in Thread, NEW u \in Thread, 
         MakeThread(t, u)
  PROVE  ThreadInv' /\ Interrupts({})
<1> USE ThreadsAssumption DEF MakeThread, Running, ThreadInv
<1>1. ThreadTypeOK'
  BY DEF ThreadTypeOK
<1>2. Scheduling'
  BY DEF ThreadTypeOK, Scheduling, Callbacks, Live, Made, Dead
<1>3. Callbacks'
  BY DEF ThreadTypeOK, Scheduling, Callbacks, Live, Made, Dead
<1>4. Continuations'
  BY DEF ThreadTypeOK, Scheduling, Callbacks, Continuations, Live, Made, Dead
<1>5. Interrupts({})
  BY DEF ThreadTypeOK, Scheduling, Callbacks, Continuations, Interrupts, Over, Live, Made, Dead
<1> QED
  BY <1>1, <1>2, <1>3, <1>4, <1>5

\* thread-resume.
LEMMA ThreadResumeKeeps ==
  ASSUME Corners = {}, ThreadInv, NEW t \in Thread, NEW u \in Thread, 
         ThreadResume(t, u)
  PROVE  ThreadInv' /\ Interrupts({})
<1> USE ThreadsAssumption DEF ThreadResume, InternalResume, Running, ThreadInv
<1>0. /\ status' = "up" /\ Live(u) /\ suspended[u] /\ u \notin group /\ u # t
      /\ intr[u] \in {"void", "suspend"}
  BY ResumeUp DEF ThreadTypeOK, Scheduling, Callbacks, Live, Made, Dead
<1>1. ThreadTypeOK'
  BY <1>0 DEF ThreadTypeOK
<1>2. Scheduling'
  BY <1>0 DEF ThreadTypeOK, Scheduling, Callbacks, Live, Made, Dead
<1>3. Callbacks'
  BY <1>0 DEF ThreadTypeOK, Scheduling, Callbacks, Live, Made, Dead
<1>4. Continuations'
  BY <1>0 DEF ThreadTypeOK, Scheduling, Callbacks, Continuations, Live, Made, Dead
<1>5. Interrupts({})
  BY <1>0 DEF ThreadTypeOK, Scheduling, Callbacks, Continuations, Interrupts, Over, Live, Made, Dead
<1> QED
  BY <1>1, <1>2, <1>3, <1>4, <1>5

\* thread-suspend.
LEMMA ThreadSuspendKeeps ==
  ASSUME Corners = {}, ThreadInv, NEW t \in Thread, NEW u \in Thread,
         ThreadSuspend(t, u)
  PROVE  ThreadInv' /\ Interrupts({u})
<1> USE ThreadsAssumption DEF ThreadInv
<1>a. /\ current = t /\ pc[t] = "run" /\ status = "up" /\ intr[t] = "none"
      /\ Live(u) /\ ~suspended[u] /\ intr[u] \in {"none", "wait"}
      /\ suspended' = [suspended EXCEPT ![u] = TRUE]
      /\ needsRetry' = [needsRetry EXCEPT ![u] = @ \/ intr[u] = "wait"]
      /\ pc' = [pc EXCEPT ![t] = IF u = t THEN "block" ELSE @]
      /\ UNCHANGED <<current, engine, pendingBreak, breakEnabled, op>>
  <2>1. current = t /\ pc[t] = "run" /\ status = "up" /\ Live(u) /\ ~suspended[u]
    BY DEF ThreadSuspend, Running, Live
  <2>2. intr[t] = "none" /\ intr[u] \in {"none", "wait"}
    BY <2>1 DEF ThreadTypeOK, Scheduling, Callbacks
  <2> QED
    BY <2>1, <2>2 DEF ThreadSuspend, Armed
<1>b. /\ intr' = [intr EXCEPT ![u] = IF @ = "wait" THEN "void" ELSE "suspend"]
      /\ group' = group \ {u} /\ status' = "up"
  <2>1. CASE intr[u] = "none"
    BY <1>a, <2>1 DEF ThreadSuspend, InternalSuspend, GroupRemoveStatus, Scheduling
  <2>2. CASE intr[u] = "wait"
    BY <1>a, <2>2 DEF ThreadSuspend, Scheduling
  <2> QED
    BY <1>a, <2>1, <2>2
<1>c. /\ op[t] = NoOp
      /\ \A v \in Thread : v # u => needsRetry'[v] = needsRetry[v] /\ intr'[v] = intr[v]
      /\ needsRetry'[u] <=> needsRetry[u] \/ intr[u] = "wait"
      /\ intr'[u] # "wait"
  BY <1>a, <1>b DEF ThreadTypeOK, Continuations
<1>1. ThreadTypeOK'
  BY <1>a, <1>b, <1>c DEF ThreadTypeOK
<1>2. Scheduling'
  BY <1>a, <1>b, <1>c DEF ThreadTypeOK, Scheduling, Live, Made, Dead
<1>3. Callbacks'
  BY <1>a, <1>b, <1>c DEF ThreadTypeOK, Callbacks, Live, Made, Dead
<1>4. Continuations'
  BY <1>a, <1>b, <1>c DEF ThreadTypeOK, Callbacks, Continuations, Live, Made, Dead
<1>5. Interrupts({u})
  BY <1>a, <1>b, <1>c DEF ThreadTypeOK, Callbacks, Continuations, Interrupts, Over, Live, Made, Dead
<1> QED
  BY <1>1, <1>2, <1>3, <1>4, <1>5

\* do-break-thread, for a target u that either does not run or goes on to
\* check-for-break.
LEMMA DoBreakKeeps ==
  ASSUME ThreadInv, NEW u \in Thread, DoBreakThread(u), status = "up",
         Made(u), Dead(u) => intr[u] = "none",
         \/ current # u /\ pc' = pc
         \/ current = u /\ pc[u] = "run" /\ pc' = [pc EXCEPT ![u] = "check"],
         UNCHANGED <<current, engine, suspended, breakEnabled, op>>
  PROVE  ThreadInv' /\ Interrupts({u})
<1> USE ThreadsAssumption DEF ThreadInv
<1> DEFINE hit == ~suspended[u] /\ intr[u] # "none"
<1>a. hit => intr[u] = "wait" /\ Live(u) /\ u \notin group
  BY DEF ThreadTypeOK, Callbacks, Scheduling, Live
<1>b. /\ pendingBreak' = [pendingBreak EXCEPT ![u] = TRUE]
      /\ intr' = [intr EXCEPT ![u] = IF hit THEN "none" ELSE @]
      /\ needsRetry' = [needsRetry EXCEPT ![u] = @ \/ hit]
      /\ group' = IF hit THEN group \cup {u} ELSE group
      /\ status' = "up"
  <2>1. CASE hit
    <3>1. ResumeStatus({u}) = "up"
      BY <1>a, <2>1, ResumeUp
    <3> QED
      BY <1>a, <2>1, <3>1 DEF DoBreakThread, InternalResume, Armed, ThreadTypeOK
  <2>2. CASE ~hit
    BY <2>2 DEF DoBreakThread, ThreadTypeOK
  <2> QED
    BY <2>1, <2>2
<1> HIDE DEF hit
<1>c. /\ pc' \in [Thread -> {"run", "block", "woken", "check", "enter"}]
      /\ \A v \in Thread : v # u => pc'[v] = pc[v]
      /\ current = u => /\ pc[u] = "run" /\ pc'[u] = "check" /\ intr[u] = "none"
                        /\ op[u] = NoOp /\ ~needsRetry[u]
      /\ current # u => pc'[u] = pc[u]
  BY DEF ThreadTypeOK, Scheduling, Continuations, Live, Made, Dead
<1>d. hit <=> ~suspended[u] /\ intr[u] # "none"
  BY DEF hit
<1>e. hit \in BOOLEAN /\ (intr[u] = "wait" => hit)
  BY <1>d DEF Callbacks
<1>1. ThreadTypeOK'
  BY <1>a, <1>b, <1>c, <1>d, <1>e DEF ThreadTypeOK
<1>2. Scheduling'
  BY <1>a, <1>b, <1>c, <1>d, <1>e DEF ThreadTypeOK, Scheduling, Live, Made, Dead
<1>3. Callbacks'
  BY <1>a, <1>b, <1>c, <1>d, <1>e DEF ThreadTypeOK, Callbacks, Live, Made, Dead
<1>4. Continuations'
  BY <1>a, <1>b, <1>c, <1>d, <1>e DEF ThreadTypeOK, Callbacks, Continuations, Live, Made, Dead
<1>5. Interrupts({u})
  BY <1>a, <1>b, <1>c, <1>d, <1>e DEF ThreadTypeOK, Callbacks, Continuations, Interrupts, Over, Live, Made, Dead
<1> QED
  BY <1>1, <1>2, <1>3, <1>4, <1>5

\* break-thread.
LEMMA BreakThreadKeeps ==
  ASSUME Corners = {}, ThreadInv, NEW t \in Thread, NEW u \in Thread,
         BreakThread(t, u)
  PROVE  ThreadInv' /\ Interrupts({u})
<1>1. /\ DoBreakThread(u) /\ status = "up" /\ Made(u)
      /\ current = t /\ pc[t] = "run"
      /\ Dead(u) => intr[u] = "none"
      /\ pc' = [pc EXCEPT ![t] = IF u = t THEN "check" ELSE @]
      /\ UNCHANGED <<current, engine, suspended, breakEnabled, op>>
  BY DEF BreakThread, Running
<1>2. pc \in [Thread -> {"run", "block", "woken", "check", "enter"}]
  BY DEF ThreadInv, ThreadTypeOK
<1>3. \/ current # u /\ pc' = pc
      \/ current = u /\ pc[u] = "run" /\ pc' = [pc EXCEPT ![u] = "check"]
  BY <1>1, <1>2
<1> QED
  BY <1>1, <1>3, DoBreakKeeps

\* The Ctl-C handler, while the main thread does not run.
LEMMA CtlCKeeps ==
  ASSUME Corners = {}, ThreadInv, CtlC
  PROVE  ThreadInv' /\ Interrupts({Main})
<1>1. /\ DoBreakThread(Main) /\ status = "up" /\ current # Main /\ pc' = pc
      /\ UNCHANGED <<current, engine, suspended, breakEnabled, op>>
  BY DEF CtlC
<1>2. Live(Main)
  BY <1>1 DEF ThreadInv, Scheduling
<1> QED
  BY <1>1, <1>2, ThreadsAssumption, DoBreakKeeps DEF Live

\* thread-dead! for a thread u that runs no more, or never did, and for whose
\* end nobody waits.
LEMMA ThreadDeadKeeps ==
  ASSUME ThreadInv, NEW u \in Thread, Live(u), status = "up", ThreadDead(u, {}),
         \/ current # u /\ current' = current
         \/ current = u /\ current' = NoThread,
         pc' \in [Thread -> {"run", "block", "woken", "check", "enter"}],
         op' \in [Thread -> Op \cup {NoOp}], op'[u] = NoOp, pc'[u] # "enter",
         \A v \in Thread : v # u => pc'[v] = pc[v] /\ op'[v] = op[v],
         UNCHANGED <<suspended, pendingBreak, breakEnabled>>
  PROVE  ThreadInv' /\ Interrupts({u})
<1> USE ThreadsAssumption DEF ThreadInv
<1>a. /\ engine' = [engine EXCEPT ![u] = "done"]
      /\ needsRetry' = [needsRetry EXCEPT ![u] = @ \/ Armed(u)]
      /\ group' = group \ {u}
      /\ intr' = [intr EXCEPT ![u] = IF @ = "none" THEN "none" ELSE "void"]
  BY DEF ThreadDead, ThreadTypeOK
<1>b. status' = IF u = Main THEN "exit" ELSE "up"
  <2>1. intr[u] = "none" => u \in group
    BY DEF Scheduling
  <2>2. ResumeStatus({}) = "up"
    BY ResumeUp
  <2> QED
    BY <2>1, <2>2 DEF ThreadDead
<1>c. Armed(u) \in BOOLEAN
  BY DEF Armed
<1>1. ThreadTypeOK'
  BY <1>a, <1>b, <1>c DEF ThreadTypeOK
<1>2. Scheduling'
  BY <1>a, <1>b, <1>c DEF ThreadTypeOK, Scheduling, Live, Made, Dead
<1>3. Callbacks'
  BY <1>a, <1>b, <1>c DEF ThreadTypeOK, Callbacks, Live, Made, Dead
<1>4. Continuations'
  BY <1>a, <1>b, <1>c DEF ThreadTypeOK, Callbacks, Continuations, Live, Made, Dead
<1>5. Interrupts({u})
  BY <1>a, <1>b, <1>c DEF ThreadTypeOK, Callbacks, Continuations, Interrupts, Over, Live, Made, Dead
<1> QED
  BY <1>1, <1>2, <1>3, <1>4, <1>5

\* kill-thread of another thread.
LEMMA KillThreadKeeps ==
  ASSUME Corners = {}, ThreadInv, NEW t \in Thread, NEW u \in Thread,
         KillThread(t, u, {})
  PROVE  ThreadInv' /\ Interrupts({u})
<1>1. /\ status = "up" /\ Live(u) /\ u # t /\ current = t /\ current' = current
      /\ ThreadDead(u, {})
      /\ pc' = [pc EXCEPT ![u] = "run"] /\ op' = [op EXCEPT ![u] = NoOp]
      /\ UNCHANGED <<suspended, pendingBreak, breakEnabled>>
  BY DEF KillThread, Running
<1>2. /\ pc \in [Thread -> {"run", "block", "woken", "check", "enter"}]
      /\ op \in [Thread -> Op \cup {NoOp}]
  BY DEF ThreadInv, ThreadTypeOK
<1>3. /\ pc' \in [Thread -> {"run", "block", "woken", "check", "enter"}]
      /\ op' \in [Thread -> Op \cup {NoOp}] /\ op'[u] = NoOp /\ pc'[u] = "run"
      /\ \A v \in Thread : v # u => pc'[v] = pc[v] /\ op'[v] = op[v]
  BY <1>1, <1>2
<1> QED
  BY <1>1, <1>3, ThreadDeadKeeps

\* The end of a thread's thunk; the thread is in no blocking operation.
LEMMA FinishKeeps ==
  ASSUME ThreadInv, NEW t \in Thread, Finish(t, {})
  PROVE  ThreadInv' /\ Interrupts({}) /\ op' = op
<1>1. /\ status = "up" /\ current = t /\ current' = NoThread /\ pc[t] = "run"
      /\ ThreadDead(t, {})
      /\ UNCHANGED <<suspended, pendingBreak, breakEnabled, pc, op>>
  BY DEF Finish, Running
<1>2. /\ pc \in [Thread -> {"run", "block", "woken", "check", "enter"}]
      /\ op \in [Thread -> Op \cup {NoOp}] /\ Live(t) /\ op[t] = NoOp
      /\ intr[t] = "none"
  BY <1>1 DEF ThreadInv, ThreadTypeOK, Scheduling, Continuations, Live, Made, Dead
<1>3. ThreadInv' /\ Interrupts({t})
  BY <1>1, <1>2, ThreadDeadKeeps
<1> QED
  BY <1>1, <1>2, <1>3 DEF Interrupts

\* A blocking operation o of the running thread t waits.
LEMMA BlockKeeps ==
  ASSUME ThreadInv, NEW t \in Thread, NEW o \in Op, Block(t, o),
         Running(t, "run") \/ Running(t, "enter")
  PROVE  /\ ThreadInv'
         /\ intr[t] = "none" /\ Live(t) /\ ~needsRetry[t]
         /\ intr' = [intr EXCEPT ![t] = "wait"]
         /\ op' = [op EXCEPT ![t] = o]
         /\ \A v \in Thread : v # t => (Over(v)' <=> Over(v))
<1> USE ThreadsAssumption DEF ThreadInv
<1>a. /\ intr[t] = "none" /\ t \in group /\ Live(t) /\ ~needsRetry[t]
      /\ current = t /\ status = "up"
  BY DEF Running, ThreadTypeOK, Scheduling, Continuations, Live, Made, Dead
<1>b. /\ intr' = [intr EXCEPT ![t] = "wait"] /\ group' = group \ {t}
      /\ status' = "up" /\ pc' = [pc EXCEPT ![t] = "block"]
      /\ op' = [op EXCEPT ![t] = o]
      /\ UNCHANGED <<current, engine, suspended, needsRetry, pendingBreak,
                     breakEnabled>>
  BY <1>a DEF Block, InternalSuspend, GroupRemoveStatus
<1>1. ThreadTypeOK'
  BY <1>b DEF ThreadTypeOK
<1>2. Scheduling'
  BY <1>a, <1>b DEF ThreadTypeOK, Scheduling, Live, Made, Dead
<1>3. Callbacks'
  BY <1>a, <1>b DEF ThreadTypeOK, Callbacks, Live, Made, Dead
<1>4. Continuations'
  BY <1>a, <1>b DEF ThreadTypeOK, Continuations, Live, Made, Dead
<1>5. \A v \in Thread : v # t => (Over(v)' <=> Over(v))
  BY <1>b DEF ThreadTypeOK, Over
<1> QED
  BY <1>a, <1>b, <1>1, <1>2, <1>3, <1>4, <1>5

\* The running thread t finishes an operation and resumes the waiters W.
LEMMA ProceedKeeps ==
  ASSUME ThreadInv, NEW t \in Thread, NEW W \in SUBSET Thread, Proceed(t, W),
         Running(t, "run") \/ Running(t, "enter"),
         \A w \in W : intr[w] = "wait"
  PROVE  /\ ThreadInv'
         /\ t \notin W /\ intr[t] = "none" /\ Live(t) /\ ~needsRetry[t]
         /\ \A v \in Thread : intr'[v] = "wait" <=> intr[v] = "wait" /\ v \notin W
         /\ op' = [op EXCEPT ![t] = NoOp]
         /\ \A w \in W : Over(w)'
         /\ \A v \in Thread \ W : v # t => (Over(v)' <=> Over(v))
<1> USE ThreadsAssumption DEF ThreadInv
<1>a. /\ intr[t] = "none" /\ t \in group /\ Live(t) /\ ~needsRetry[t]
      /\ current = t /\ status = "up"
  BY DEF Running, ThreadTypeOK, Scheduling, Continuations, Live, Made, Dead
<1>b. /\ \A w \in W : /\ Live(w) /\ w \notin group /\ pc[w] \in {"block", "woken"}
                      /\ ~needsRetry[w] /\ ~suspended[w]
      /\ t \notin W
  BY <1>a DEF Scheduling, Callbacks, Continuations
<1>c. /\ intr' = [v \in Thread |-> IF v \in W THEN "none" ELSE intr[v]]
      /\ group' = group \cup W
      /\ status' = "up" /\ pc' = [pc EXCEPT ![t] = "run"]
      /\ op' = [op EXCEPT ![t] = NoOp]
      /\ UNCHANGED <<current, engine, suspended, needsRetry, pendingBreak,
                     breakEnabled>>
  BY <1>b, ResumeUp DEF Proceed, InternalResume
<1>1. ThreadTypeOK'
  BY <1>c DEF ThreadTypeOK
<1>2. Scheduling'
  BY <1>a, <1>b, <1>c DEF ThreadTypeOK, Scheduling, Live, Made, Dead
<1>3. Callbacks'
  BY <1>a, <1>b, <1>c DEF ThreadTypeOK, Callbacks, Live, Made, Dead
<1>4. Continuations'
  BY <1>a, <1>b, <1>c DEF ThreadTypeOK, Continuations, Live, Made, Dead
<1>5. /\ \A w \in W : Over(w)'
      /\ \A v \in Thread \ W : v # t => (Over(v)' <=> Over(v))
  BY <1>b, <1>c DEF ThreadTypeOK, Over
<1>6. \A v \in Thread : intr'[v] = "wait" <=> intr[v] = "wait" /\ v \notin W
  BY <1>c
<1> QED
  BY <1>a, <1>b, <1>c, <1>1, <1>2, <1>3, <1>4, <1>5, <1>6

----------------------------------------------------------------------------
(* Lines, for every line: wait queues (waiter.rkt, queue.rkt).             *)

\* Nobody stands in a new queue.
LEMMA EmptyLine ==
  ToSet(MakeQueue) = {} /\ NoDuplicates(MakeQueue)
  BY DEF ToSet, MakeQueue, NoDuplicates

\* A line is empty exactly when nobody stands in it.
LEMMA EmptyLineSet ==
  ASSUME NEW T, NEW q \in Seq(T)
  PROVE  ToSet(q) \subseteq T /\ (q = <<>> <=> ToSet(q) = {})
<1>1. DOMAIN q = 1..Len(q) /\ Len(q) \in Nat /\ \A i \in 1..Len(q) : q[i] \in T
  BY LenProperties
<1>2. ToSet(q) \subseteq T
  BY <1>1 DEF ToSet
<1>3. ASSUME q # <<>> PROVE q[1] \in ToSet(q)
  BY <1>1, <1>3, EmptySeq DEF ToSet
<1>4. ASSUME q = <<>> PROVE ToSet(q) = {}
  BY <1>4, EmptyLine DEF MakeQueue
<1> QED
  BY <1>2, <1>3, <1>4

\* queue-add! adds its element, and a new element keeps the line free of
\* duplicates.
LEMMA AddToLine ==
  ASSUME NEW T, NEW q \in Seq(T), NEW w \in T
  PROVE  /\ QueueAdd(q, w) \in Seq(T)
         /\ ToSet(QueueAdd(q, w)) = ToSet(q) \cup {w}
         /\ NoDuplicates(q) /\ w \notin ToSet(q) => NoDuplicates(QueueAdd(q, w))
<1> DEFINE r == Append(q, w)
<1>1. /\ r \in Seq(T)
      /\ Len(r) = Len(q) + 1
      /\ r[Len(q) + 1] = w
      /\ \A i \in 1..Len(q) : r[i] = q[i]
  OBVIOUS
<1>2. DOMAIN r = 1..(Len(q) + 1) /\ DOMAIN q = 1..Len(q) /\ Len(q) \in Nat
  BY <1>1
<1> HIDE DEF r
<1>3. ToSet(r) = ToSet(q) \cup {w}
  BY <1>1, <1>2 DEF ToSet
<1>4. NoDuplicates(q) /\ w \notin ToSet(q) => NoDuplicates(r)
  BY <1>1, <1>2 DEF ToSet, NoDuplicates
<1> QED
  BY <1>1, <1>3, <1>4 DEF r, QueueAdd

\* queue-remove! takes the head, and only the head.
LEMMA RemoveFromLine ==
  ASSUME NEW T, NEW q \in Seq(T), q # <<>>, NoDuplicates(q)
  PROVE  /\ QueueRemove(q) \in Seq(T)
         /\ Head(q) \in ToSet(q)
         /\ ToSet(QueueRemove(q)) = ToSet(q) \ {Head(q)}
         /\ NoDuplicates(QueueRemove(q))
<1> DEFINE r == Tail(q)
<1>1. /\ r \in Seq(T)
      /\ Len(q) \in Nat \ {0}
      /\ Len(r) = Len(q) - 1
      /\ \A i \in 1..(Len(q) - 1) : r[i] = q[i + 1]
      /\ Head(q) = q[1]
  OBVIOUS
<1>2. DOMAIN r = 1..(Len(q) - 1) /\ DOMAIN q = 1..Len(q)
  BY <1>1
<1> HIDE DEF r
<1>3. Head(q) \in ToSet(q)
  BY <1>1, <1>2 DEF ToSet
<1>4. ASSUME NEW x \in ToSet(q), x # Head(q)
      PROVE  x \in ToSet(r)
  <2>1. PICK i \in 1..Len(q) : x = q[i]
    BY <1>2 DEF ToSet
  <2>2. i - 1 \in 1..(Len(q) - 1) /\ r[i - 1] = x
    BY <2>1, <1>1, <1>4
  <2> QED
    BY <2>2, <1>2 DEF ToSet
<1>5. ASSUME NEW x \in ToSet(r)
      PROVE  x \in ToSet(q) /\ x # Head(q)
  <2>1. PICK i \in 1..(Len(q) - 1) : x = r[i]
    BY <1>2 DEF ToSet
  <2>2. i + 1 \in 1..Len(q) /\ q[i + 1] = x /\ i + 1 # 1
    BY <2>1, <1>1
  <2> QED
    BY <2>2, <1>1, <1>2 DEF ToSet, NoDuplicates
<1>6. NoDuplicates(r)
  <2> SUFFICES ASSUME NEW i \in 1..(Len(q) - 1), NEW j \in 1..(Len(q) - 1),
                      r[i] = r[j]
               PROVE  i = j
    BY <1>2 DEF NoDuplicates
  <2>1. q[i + 1] = q[j + 1] /\ i + 1 \in 1..Len(q) /\ j + 1 \in 1..Len(q)
    BY <1>1
  <2> QED
    BY <2>1, <1>1, <1>2 DEF NoDuplicates
<1>7. ToSet(r) = ToSet(q) \ {Head(q)}
  BY <1>4, <1>5
<1> QED
  BY <1>1, <1>3, <1>6, <1>7 DEF r, QueueRemove, QueueEmpty

\* A part of a line is a line of its threads.
LEMMA PartOfLine ==
  ASSUME NEW T, NEW q \in Seq(T), NEW i \in Int, NEW j \in Int,
         1 <= i, i <= j + 1, j <= Len(q)
  PROVE  /\ SubSeq(q, i, j) \in Seq(T)
         /\ Len(SubSeq(q, i, j)) = j - i + 1
         /\ \A k \in 1..(j - i + 1) : SubSeq(q, i, j)[k] = q[i + k - 1]
<1>1. \A k \in i..j : q[k] \in T
  OBVIOUS
<1>2. /\ SubSeq(q, i, j) \in Seq(T)
      /\ Len(SubSeq(q, i, j)) = IF i <= j THEN j - i + 1 ELSE 0
      /\ \A k \in 1..(j - i + 1) : SubSeq(q, i, j)[k] = q[i + k - 1]
  BY <1>1, SubSeqProperties
<1> QED
  BY <1>2

\* queue-remove-node! takes one element out, wherever it stands.
LEMMA LeaveLine ==
  ASSUME NEW T, NEW q \in Seq(T), NEW w \in ToSet(q), NoDuplicates(q)
  PROVE  /\ GetOutOfLine(q, w) \in Seq(T)
         /\ ToSet(GetOutOfLine(q, w)) = ToSet(q) \ {w}
         /\ NoDuplicates(GetOutOfLine(q, w))
<1> DEFINE n == NodeOf(q, w)
           r == RemoveAt(q, n)
<1>1. n \in 1..Len(q) /\ q[n] = w /\ DOMAIN q = 1..Len(q) /\ Len(q) \in Nat
  BY DEF NodeOf, ToSet
<1> HIDE DEF n
<1>2. /\ SubSeq(q, 1, n - 1) \in Seq(T)
      /\ Len(SubSeq(q, 1, n - 1)) = n - 1
      /\ \A i \in 1..(n - 1) : SubSeq(q, 1, n - 1)[i] = q[i]
  BY <1>1
<1>3. /\ SubSeq(q, n + 1, Len(q)) \in Seq(T)
      /\ Len(SubSeq(q, n + 1, Len(q))) = Len(q) - n
      /\ \A k \in 1..(Len(q) - n) : SubSeq(q, n + 1, Len(q))[k] = q[n + k]
  <2> DEFINE i == n + 1
             back == SubSeq(q, i, Len(q))
  <2>1. i \in Int /\ Len(q) \in Int /\ 1 <= i /\ i <= Len(q) + 1
    BY <1>1
  <2> HIDE DEF i
  <2>2. /\ back \in Seq(T)
        /\ Len(back) = Len(q) - i + 1
        /\ \A k \in 1..(Len(q) - i + 1) : back[k] = q[i + k - 1]
    BY <2>1, PartOfLine
  <2> HIDE DEF back
  <2>3. ASSUME NEW k \in 1..(Len(q) - n)
        PROVE  back[k] = q[n + k]
    <3>1. k \in 1..(Len(q) - i + 1) /\ i + k - 1 = n + k
      BY <1>1 DEF i
    <3> QED
      BY <2>2, <3>1
  <2>4. Len(back) = Len(q) - n
    BY <2>2, <1>1 DEF i
  <2>5. back = SubSeq(q, n + 1, Len(q))
    BY DEF back, i
  <2> QED
    BY <2>2, <2>3, <2>4, <2>5, Zenon
<1>4. /\ r \in Seq(T)
      /\ DOMAIN r = 1..(Len(q) - 1)
      /\ \A i \in 1..(Len(q) - 1) : r[i] = IF i < n THEN q[i] ELSE q[i + 1]
  <2> DEFINE front == SubSeq(q, 1, n - 1)
             back == SubSeq(q, n + 1, Len(q))
  <2> HIDE DEF front, back
  <2>1. /\ front \in Seq(T) /\ Len(front) = n - 1
        /\ back \in Seq(T) /\ Len(back) = Len(q) - n
        /\ \A i \in 1..(n - 1) : front[i] = q[i]
        /\ \A i \in 1..(Len(q) - n) : back[i] = q[n + i]
    BY <1>2, <1>3 DEF front, back
  <2>2. /\ front \o back \in Seq(T)
        /\ Len(front \o back) = Len(front) + Len(back)
        /\ \A i \in 1..(Len(front) + Len(back)) :
             (front \o back)[i] = IF i <= Len(front) THEN front[i]
                                                    ELSE back[i - Len(front)]
    BY <2>1, ConcatProperties, Zenon
  <2>3. r = front \o back
    BY DEF RemoveAt, front, back
  <2> HIDE DEF r
  <2>4. r \in Seq(T) /\ Len(r) = Len(q) - 1
    BY <2>1, <2>2, <2>3, <1>1
  <2>5. DOMAIN r = 1..(Len(q) - 1)
    BY <2>4
  <2>6. ASSUME NEW i \in 1..(Len(q) - 1)
        PROVE  r[i] = IF i < n THEN q[i] ELSE q[i + 1]
    <3>1. i \in 1..(Len(front) + Len(back))
      BY <2>1, <1>1
    <3>2. CASE i < n
      BY <3>1, <3>2, <2>1, <2>2, <2>3, <1>1
    <3>3. CASE i >= n
      <4>1. i - Len(front) \in 1..(Len(q) - n) /\ n + (i - Len(front)) = i + 1
        BY <3>3, <2>1, <1>1
      <4>2. r[i] = back[i - Len(front)]
        BY <3>1, <3>3, <2>1, <2>2, <2>3, <1>1
      <4> QED
        BY <4>1, <4>2, <3>3, <2>1, <1>1
    <3> QED
      BY <3>2, <3>3, <1>1
  <2> QED
    BY <2>4, <2>5, <2>6
<1> HIDE DEF r
<1>5. ASSUME NEW x \in ToSet(q), x # w
      PROVE  x \in ToSet(r)
  <2>1. PICK i \in 1..Len(q) : x = q[i]
    BY <1>1 DEF ToSet
  <2>2. CASE i < n
    BY <2>1, <2>2, <1>1, <1>4 DEF ToSet
  <2>3. CASE i > n
    <3>1. i - 1 \in 1..(Len(q) - 1) /\ r[i - 1] = x
      BY <2>1, <2>3, <1>1, <1>4
    <3> QED
      BY <3>1, <1>4 DEF ToSet
  <2> QED
    BY <2>1, <2>2, <2>3, <1>1, <1>5
<1>6. ASSUME NEW x \in ToSet(r)
      PROVE  x \in ToSet(q) /\ x # w
  <2>1. PICK i \in 1..(Len(q) - 1) : x = r[i]
    BY <1>4 DEF ToSet
  <2>2. CASE i < n
    <3>1. i \in 1..Len(q) /\ q[i] = x /\ i # n
      BY <2>1, <2>2, <1>1, <1>4
    <3> QED
      BY <3>1, <1>1 DEF ToSet, NoDuplicates
  <2>3. CASE i >= n
    <3>1. i + 1 \in 1..Len(q) /\ q[i + 1] = x /\ i + 1 # n
      BY <2>1, <2>3, <1>1, <1>4
    <3> QED
      BY <3>1, <1>1 DEF ToSet, NoDuplicates
  <2> QED
    BY <2>2, <2>3, <1>1
<1>7. NoDuplicates(r)
  <2> SUFFICES ASSUME NEW i \in 1..(Len(q) - 1), NEW j \in 1..(Len(q) - 1),
                      r[i] = r[j]
               PROVE  i = j
    BY <1>4 DEF NoDuplicates
  <2> DEFINE From(k) == IF k < n THEN k ELSE k + 1
  <2>1. q[From(i)] = q[From(j)] /\ From(i) \in 1..Len(q) /\ From(j) \in 1..Len(q)
    BY <1>1, <1>4
  <2>2. From(i) = From(j)
    BY <2>1, <1>1 DEF NoDuplicates
  <2> QED
    BY <2>2, <1>1
<1>8. ToSet(r) = ToSet(q) \ {w}
  BY <1>5, <1>6
<1> QED
  BY <1>4, <1>7, <1>8 DEF r, n, GetOutOfLine, QueueRemoveNode
=============================================================================
