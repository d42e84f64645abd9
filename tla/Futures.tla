------------------------------- MODULE Futures ------------------------------
(***************************************************************************)
(* Futures of the C runtime (racket/src/racket/src/future.c).  Futures     *)
(* that can run wait in a queue; each of a pool of OS threads takes one    *)
(* and runs it until it needs the runtime thread: for an atomic operation, *)
(* for a primitive that blocks, for a touch, or because a future semaphore *)
(* is not ready.  Then its continuation is captured, by the future thread  *)
(* itself or on its request by the runtime thread, and the future thread   *)
(* is free for another future; or it waits until the runtime thread has    *)
(* done the work.  The runtime thread does such work whenever its          *)
(* scheduler runs, and when the future is touched; it also runs a touched  *)
(* future itself when nobody else does.                                    *)
(*                                                                         *)
(* A critical section of future_mutex or of a semaphore is one step.       *)
(***************************************************************************)
EXTENDS Integers, Sequences, FiniteSets

CONSTANTS
  N,         \* how many futures there may be
  Worker,    \* the future threads of the pool
  NoWorker,  \* NULL
  MaxCalls,  \* bound on the operations that a future performs
  MaxPosts,  \* bound on fsemaphore-post and fsemaphore-wait by the program
  MaxTouch   \* bound on the touches by the program

ASSUME FuturesAssumption ==
  /\ N \in Nat \ {0} /\ MaxCalls \in Nat /\ MaxPosts \in Nat /\ MaxTouch \in Nat
  /\ NoWorker \notin Worker

Future == 1..N
NoFuture == 0

VARIABLES
  status,
  queue, pending,      \* future_queue, future_pending_sema
  suspended_lw,        \* ft->suspended_lw is not NULL
  want_lw,
  can_continue,        \* the thread whose worker_can_continue_sema it is
  prim, target,        \* the primitive that ft waits for, what it touches
  in_specific,         \* in_future_specific_touch_queue
  no_retval,
  touching,            \* the futures chained to ft, the last one first
  waiting_atomic, waiting_touch, waiting_lwc,
  alive,               \* the custodian is available
  ready, line,         \* a future semaphore: its count and its queue
  wpc, cur, sema,      \* of a future thread: current_ft, worker_can_continue_sema
  fsemaFt,             \* the future that it has in fsemaphore-wait
  rpc, job, other,     \* of the runtime thread in scheme_check_future_work
  withheld,            \* (ft, other_ft, can_continue_sema)
  stack,               \* the touches and calls that the runtime thread is in
  calls, posts, touches \* for the bounds

futVars == <<suspended_lw, want_lw, can_continue, prim, target, in_specific, no_retval>>
listVars == <<touching, waiting_atomic, waiting_touch, waiting_lwc>>
fsemaVars == <<ready, line>>
workerVars == <<wpc, cur, fsemaFt>>
checkVars == <<job, other, withheld>>
bounds == <<calls, posts, touches>>
vars == <<status, queue, pending, futVars, listVars, alive, fsemaVars,
          workerVars, sema, rpc, checkVars, stack, bounds>>

Status == {"none", "PENDING", "PENDING_OVERSIZE", "RUNNING", "WAITING_FOR_PRIM",
           "HANDLING_PRIM", "WAITING_FOR_FSEMA", "SUSPENDED", "FINISHED"}

TypeOK ==
  /\ status \in [Future -> Status]
  /\ queue \in Seq(Future) /\ pending \in Nat
  /\ suspended_lw \in [Future -> BOOLEAN] /\ want_lw \in [Future -> BOOLEAN]
  /\ can_continue \in [Future -> Worker \cup {NoWorker}]
  /\ prim \in [Future -> {"none", "atomic", "blocking", "touch"}]
  /\ target \in [Future -> 0..N]
  /\ in_specific \in [Future -> BOOLEAN] /\ no_retval \in [Future -> BOOLEAN]
  /\ touching \in [Future -> Seq(Future)]
  /\ waiting_atomic \in Seq(Future) /\ waiting_touch \in Seq(Future)
  /\ waiting_lwc \in Seq(Future)
  /\ alive \in BOOLEAN
  /\ ready \in Int /\ line \in Seq(Future)
  /\ wpc \in [Worker -> {"idle", "run", "touch", "wait", "fwait", "fsema"}]
  /\ cur \in [Worker -> 0..N] /\ fsemaFt \in [Worker -> 0..N]
  /\ sema \in [Worker -> 0..1]
  /\ rpc \in {"run", "raise", "atomic", "rtatomic", "touch", "chain", "twice", "lwc",
            "capture"}
  /\ job \in 0..N /\ other \in 0..N /\ withheld \in Worker \cup {NoWorker}
  /\ stack \in Seq([k : {"touch", "body", "prim", "touched", "fsema", "ready"}, f : 0..N])

Init ==
  /\ status = [f \in Future |-> "none"]
  /\ queue = <<>> /\ pending = 0
  /\ suspended_lw = [f \in Future |-> FALSE] /\ want_lw = [f \in Future |-> FALSE]
  /\ can_continue = [f \in Future |-> NoWorker]
  /\ prim = [f \in Future |-> "none"] /\ target = [f \in Future |-> NoFuture]
  /\ in_specific = [f \in Future |-> FALSE] /\ no_retval = [f \in Future |-> FALSE]
  /\ touching = [f \in Future |-> <<>>]
  /\ waiting_atomic = <<>> /\ waiting_touch = <<>> /\ waiting_lwc = <<>>
  /\ alive = TRUE /\ ready = 0 /\ line = <<>>
  /\ wpc = [w \in Worker |-> "idle"] /\ cur = [w \in Worker |-> NoFuture]
  /\ fsemaFt = [w \in Worker |-> NoFuture] /\ sema = [w \in Worker |-> 0]
  /\ rpc = "run" /\ job = NoFuture /\ other = NoFuture /\ withheld = NoWorker /\ stack = <<>>
  /\ calls = [f \in Future |-> 0] /\ posts = 0 /\ touches = 0

Has(s, x) == \E i \in DOMAIN s : s[i] = x

\* The elements of s at the positions in P, in order.
At(s, P) == [n \in 1..Cardinality(P) |-> s[CHOOSE i \in P : Cardinality({j \in P : j <= i}) = n]]
Without(s, x) == At(s, {i \in DOMAIN s : s[i] # x})

----------------------------------------------------------------------------
\* enqueue_future, for each of fs.
Enqueue(fs) == queue' = queue \o fs /\ pending' = pending + Len(fs)

\* requeue_future_within_lock, for each of fs; st is the status otherwise.
Requeue(fs, st) ==
  /\ status' = [f \in Future |-> IF ~Has(fs, f) THEN st[f]
                                 ELSE IF alive THEN "PENDING" ELSE "SUSPENDED"]
  /\ IF alive THEN Enqueue(fs) ELSE UNCHANGED <<queue, pending>>

\* complete_rtcall, for each of fs: its continuation goes back to the queue,
\* or the future thread that waits may go on.  st and sm are the status and
\* the semaphores otherwise.
CompleteRtcall(fs, st, sm) ==
  LET blocked == {f \in Future : Has(fs, f) /\ ~suspended_lw[f]} IN
  /\ Requeue(At(fs, {i \in DOMAIN fs : suspended_lw[fs[i]]}), st)
  /\ want_lw' = [f \in Future |-> want_lw[f] /\ f \notin blocked]
  /\ can_continue' = [f \in Future |-> IF f \in blocked THEN NoWorker ELSE can_continue[f]]
  /\ sema' = [w \in Worker |-> sm[w] + Cardinality({f \in blocked : can_continue[f] = w})]

\* get_future_for_touch(t) == g
WaitsForTouch(t, g) == status[t] = "WAITING_FOR_PRIM" /\ prim[t] = "touch" /\ target[t] = g

\* f gets its result, and trigger_added_touches passes it on, once to each.
Finish(f, sm) ==
  LET ts == At(touching[f], {i \in DOMAIN touching[f] :
                               /\ WaitsForTouch(touching[f][i], f)
                               /\ \A j \in 1..(i - 1) : touching[f][j] # touching[f][i]})
  IN
  /\ touching' = [touching EXCEPT ![f] = <<>>]
  /\ CompleteRtcall(ts,
       [t \in Future |-> IF t = f THEN "FINISHED"
                         ELSE IF Has(ts, t) THEN "HANDLING_PRIM" ELSE status[t]], sm)

\* f is the next future that is made.
IsNext(f) == status[f] = "none" /\ \A e \in 1..(f - 1) : status[e] # "none"

\* make_future: the future enters the queue, unless it needs more room than a
\* future thread has.
MakeFuture(f) ==
  /\ IsNext(f)
  /\ \/ status' = [status EXCEPT ![f] = "PENDING"] /\ Enqueue(<<f>>)
     \/ status' = [status EXCEPT ![f] = "PENDING_OVERSIZE"] /\ UNCHANGED <<queue, pending>>

----------------------------------------------------------------------------
(* The future threads.                                                     *)

\* No touch has been completed twice by Chain, where the model stops.
Orderly == rpc # "twice"

\* The future thread w is at pc, or runs f.
Stands(w, pc) == Orderly /\ wpc[w] = pc
Runs(w, f) == Stands(w, "run") /\ cur[w] = f

Called(f) == calls[f] < MaxCalls /\ calls' = [calls EXCEPT ![f] = @ + 1]

\* worker_thread_future_loop, up to the call of the future; get_pending_future
\* gives up all the futures of a custodian that is shut down.
Take(w) ==
  /\ Stands(w, "idle") /\ pending > 0
  /\ pending' = pending - 1
  /\ IF alive /\ queue # <<>>
     THEN LET f == Head(queue) IN
          /\ queue' = Tail(queue)
          /\ status' = [status EXCEPT ![f] = "RUNNING"]
          /\ suspended_lw' = [suspended_lw EXCEPT ![f] = FALSE]
          /\ cur' = [cur EXCEPT ![w] = f]
          /\ wpc' = [wpc EXCEPT ![w] = "run"]
     ELSE /\ queue' = <<>>
          /\ status' = [f \in Future |-> IF Has(queue, f) THEN "SUSPENDED" ELSE status[f]]
          /\ UNCHANGED <<suspended_lw, cur, wpc>>
  /\ UNCHANGED <<want_lw, can_continue, prim, target, in_specific, no_retval, listVars, alive,
                 fsemaVars, fsemaFt, sema, rpc, checkVars, stack, bounds>>

\* worker_thread_future_loop, after the future has returned.
Return(w, f) ==
  /\ Runs(w, f)
  /\ Finish(f, sema)
  /\ wpc' = [wpc EXCEPT ![w] = "idle"]
  /\ cur' = [cur EXCEPT ![w] = NoFuture]
  /\ UNCHANGED <<suspended_lw, prim, target, in_specific, no_retval, waiting_atomic,
                 waiting_touch, waiting_lwc, alive, fsemaVars, fsemaFt, rpc, checkVars,
                 stack, bounds>>

\* A future that is pushed while it is still in the list of an earlier call
\* cuts off what comes after it (there is no in-queue flag as in other lists).
PushAtomic(f) ==
  waiting_atomic' =
    IF Has(waiting_atomic, f)
    THEN <<f>> \o SubSeq(waiting_atomic, 1, CHOOSE i \in DOMAIN waiting_atomic :
                            waiting_atomic[i] = f /\ \A j \in 1..(i - 1) : waiting_atomic[j] # f)
    ELSE <<f>> \o waiting_atomic

PushLwc(f) ==
  waiting_lwc' = IF Has(waiting_lwc, f) THEN waiting_lwc ELSE <<f>> \o waiting_lwc

\* f, which w runs, waits with status st.  Either w has captured the
\* continuation and goes on without f, at pc free; or it waits at pc blocked,
\* and asks the runtime thread to capture the continuation if it insists.
Suspend(w, f, st, captured, insist, free, blocked) ==
  /\ status' = [status EXCEPT ![f] = st]
  /\ suspended_lw' = [suspended_lw EXCEPT ![f] = captured]
  /\ cur' = [cur EXCEPT ![w] = IF captured THEN NoFuture ELSE f]
  /\ wpc' = [wpc EXCEPT ![w] = IF captured THEN free ELSE blocked]
  /\ can_continue' = [can_continue EXCEPT ![f] = IF captured THEN @ ELSE w]
  /\ IF ~captured /\ insist
     THEN PushLwc(f) /\ want_lw' = [want_lw EXCEPT ![f] = TRUE]
     ELSE UNCHANGED <<waiting_lwc, want_lw>>

\* future_do_runtimecall for an atomic operation; not every caller allows the
\* future thread to suspend.
AtomicCall(w, f) ==
  /\ Runs(w, f) /\ Called(f)
  /\ \E captured \in BOOLEAN, can_suspend \in BOOLEAN :
       /\ captured => can_suspend
       /\ Suspend(w, f, "WAITING_FOR_PRIM", captured, can_suspend /\ ~alive, "idle", "wait")
  /\ prim' = [prim EXCEPT ![f] = "atomic"]
  /\ PushAtomic(f)
  /\ UNCHANGED <<queue, pending, target, in_specific, no_retval, touching, waiting_touch, alive,
                 fsemaVars, fsemaFt, sema, rpc, checkVars, stack, posts, touches>>

\* future_do_runtimecall for a primitive that may block.
BlockingCall(w, f) ==
  /\ Runs(w, f) /\ Called(f)
  /\ \E captured \in BOOLEAN :
       Suspend(w, f, "WAITING_FOR_PRIM", captured, TRUE, "idle", "wait")
  /\ prim' = [prim EXCEPT ![f] = "blocking"]
  /\ UNCHANGED <<queue, pending, target, in_specific, no_retval, touching, waiting_atomic,
                 waiting_touch, alive, fsemaVars, fsemaFt, sema, rpc, checkVars, stack,
                 posts, touches>>

\* touch in a future thread: it has the result at once, or it puts f on the
\* chain of g (if it can allocate) and then asks the runtime thread.
Touch(w, f, g) ==
  /\ Runs(w, f) /\ Called(f) /\ g < f
  /\ IF status[g] = "FINISHED"
     THEN UNCHANGED <<wpc, target, touching, in_specific>>
     ELSE /\ wpc' = [wpc EXCEPT ![w] = "touch"]
          /\ target' = [target EXCEPT ![f] = g]
          /\ \/ /\ touching' = [touching EXCEPT ![g] = <<f>> \o @]
                /\ in_specific' = [in_specific EXCEPT ![f] = TRUE]
             \/ UNCHANGED <<touching, in_specific>>
  /\ UNCHANGED <<status, queue, pending, suspended_lw, want_lw, can_continue, prim, no_retval,
                 waiting_atomic, waiting_touch, waiting_lwc, alive, fsemaVars, cur, fsemaFt,
                 sema, rpc, checkVars, stack, posts, touches>>

\* future_do_runtimecall for a touch.
TouchCall(w) ==
  LET f == cur[w] IN
  /\ Stands(w, "touch")
  /\ \E captured \in BOOLEAN :
       Suspend(w, f, "WAITING_FOR_PRIM", captured, TRUE, "idle", "wait")
  /\ prim' = [prim EXCEPT ![f] = "touch"]
  /\ in_specific' = [in_specific EXCEPT ![f] = FALSE]
  /\ waiting_touch' = IF in_specific[f] \/ Has(waiting_touch, f)
                      THEN waiting_touch ELSE <<f>> \o waiting_touch
  /\ UNCHANGED <<queue, pending, target, no_retval, touching, waiting_atomic, alive, fsemaVars,
                 fsemaFt, sema, rpc, checkVars, stack, bounds>>

\* future_do_runtimecall, after mzrt_sema_wait.  The call is done, or it has
\* failed and the future with it, or the continuation has been captured.
Continue(w) ==
  LET f == cur[w] IN
  /\ Stands(w, "wait") /\ sema[w] > 0
  /\ IF f = NoFuture
     THEN /\ sema' = [sema EXCEPT ![w] = @ - 1]
          /\ wpc' = [wpc EXCEPT ![w] = "idle"]
          /\ UNCHANGED <<status, queue, pending, want_lw, can_continue, touching, cur>>
     ELSE IF no_retval[f]
     THEN /\ Finish(f, [sema EXCEPT ![w] = @ - 1])
          /\ wpc' = [wpc EXCEPT ![w] = "idle"]
          /\ cur' = [cur EXCEPT ![w] = NoFuture]
     ELSE /\ sema' = [sema EXCEPT ![w] = @ - 1]
          /\ status' = [status EXCEPT ![f] = "RUNNING"]
          /\ wpc' = [wpc EXCEPT ![w] = "run"]
          /\ want_lw' = [want_lw EXCEPT ![f] = FALSE]
          /\ UNCHANGED <<queue, pending, can_continue, touching, cur>>
  /\ UNCHANGED <<suspended_lw, prim, target, in_specific, no_retval, waiting_atomic,
                 waiting_touch, waiting_lwc, alive, fsemaVars, fsemaFt, rpc, checkVars,
                 stack, bounds>>

\* A future thread makes a future: it allocates it, and it knows that the code
\* can run in a future thread.  (If not, it is an AtomicCall or BlockingCall.)
FutureMakesFuture(w, f, g) ==
  /\ Runs(w, f) /\ Called(f) /\ IsNext(g)
  /\ status' = [status EXCEPT ![g] = "PENDING"]
  /\ Enqueue(<<g>>)
  /\ UNCHANGED <<futVars, listVars, alive, fsemaVars, workerVars, sema, rpc, checkVars, stack,
                 posts, touches>>

----------------------------------------------------------------------------
(* Future semaphores.                                                      *)

\* scheme_fsemaphore_post and try_resume_future_from_fsema_wait.
Post ==
  IF ready = 0 /\ line # <<>>
  THEN line' = Tail(line) /\ Requeue(<<Head(line)>>, status) /\ UNCHANGED ready
  ELSE ready' = ready + 1 /\ UNCHANGED <<line, status, queue, pending>>

FuturePosts(w, f) ==
  /\ Runs(w, f) /\ Called(f) /\ Post
  /\ UNCHANGED <<futVars, listVars, alive, workerVars, sema, rpc, checkVars, stack,
                 posts, touches>>

\* scheme_fsemaphore_wait in a future thread: the semaphore is ready, or the
\* future is suspended with the semaphore unlocked, ...
FutureWaits(w, f) ==
  /\ Runs(w, f) /\ Called(f)
  /\ IF ready # 0
     THEN /\ ready' = ready - 1
          /\ UNCHANGED <<status, suspended_lw, cur, wpc, can_continue, waiting_lwc, want_lw, fsemaFt>>
     ELSE /\ \E captured \in BOOLEAN :
               Suspend(w, f, "WAITING_FOR_FSEMA", captured, TRUE, "fsema", "fwait")
          /\ fsemaFt' = [fsemaFt EXCEPT ![w] = f]
          /\ UNCHANGED ready
  /\ UNCHANGED <<queue, pending, prim, target, in_specific, no_retval, touching, waiting_atomic,
                 waiting_touch, alive, line, sema, rpc, checkVars, stack, posts, touches>>

\* ... by the runtime thread if need be, ...
FutureCaptured(w) ==
  /\ Stands(w, "fwait") /\ sema[w] > 0
  /\ sema' = [sema EXCEPT ![w] = @ - 1]
  /\ wpc' = [wpc EXCEPT ![w] = "fsema"]
  /\ UNCHANGED <<status, queue, pending, futVars, listVars, alive, fsemaVars, cur, fsemaFt, rpc,
                 checkVars, stack, bounds>>

\* Mutant: the count is not looked at again.
BuggyFutureInLine(w) ==
  /\ Stands(w, "fsema")
  /\ line' = Append(line, fsemaFt[w])
  /\ wpc' = [wpc EXCEPT ![w] = "idle"]
  /\ fsemaFt' = [fsemaFt EXCEPT ![w] = NoFuture]
  /\ UNCHANGED <<ready, status, queue, pending, futVars, listVars, alive, cur, sema, rpc, checkVars,
                 stack, bounds>>

\* ... and then the future thread looks at the count once more.
FutureInLine(w) ==
  /\ Stands(w, "fsema")
  /\ IF ready # 0
     THEN ready' = ready - 1 /\ Requeue(<<fsemaFt[w]>>, status) /\ UNCHANGED line
     ELSE line' = Append(line, fsemaFt[w]) /\ UNCHANGED <<ready, status, queue, pending>>
  /\ wpc' = [wpc EXCEPT ![w] = "idle"]
  /\ fsemaFt' = [fsemaFt EXCEPT ![w] = NoFuture]
  /\ UNCHANGED <<futVars, listVars, alive, cur, sema, rpc, checkVars, stack, bounds>>

----------------------------------------------------------------------------
(* The runtime thread.  A frame of its stack is a touch of f, the body of  *)
(* a future f that it runs, a primitive that it calls for f ("touched" if  *)
(* that is a touch, which has begun), or fsemaphore-wait, which blocks or  *)
(* has seen that the semaphore is ready.                                   *)

Frame(k, f) == [k |-> k, f |-> f]
Top(k, f) == rpc = "run" /\ stack # <<>> /\ stack[1] = Frame(k, f)

\* The program runs, or the body of the future f.
InProgram(f) == rpc = "run" /\ IF f = NoFuture THEN stack = <<>> ELSE Top("body", f)
InBounds(f) == IF f = NoFuture THEN UNCHANGED calls ELSE Called(f)

\* A thread that has done something may be out of fuel, so that the scheduler
\* runs, and scheme_check_future_work with it.
MayYield == rpc' \in {"run", "atomic"}

RuntimeMakesFuture(f, g) ==
  /\ InProgram(f) /\ InBounds(f) /\ MakeFuture(g)
  /\ UNCHANGED <<futVars, listVars, alive, fsemaVars, workerVars, sema, rpc, checkVars, stack,
                 posts, touches>>

RuntimeTouches(f, g) ==
  /\ InProgram(f) /\ InBounds(f) /\ status[g] # "none"
  /\ f # NoFuture => g < f
  /\ f = NoFuture => touches < MaxTouch
  /\ touches' = IF f = NoFuture THEN touches + 1 ELSE touches
  /\ stack' = <<Frame("touch", g)>> \o stack
  /\ UNCHANGED <<status, queue, pending, futVars, listVars, alive, fsemaVars, workerVars, sema,
                 rpc, checkVars, posts>>

RuntimePosts(f) ==
  /\ InProgram(f) /\ InBounds(f) /\ Post
  /\ posts < MaxPosts /\ posts' = posts + 1
  /\ UNCHANGED <<futVars, listVars, alive, workerVars, sema, rpc, checkVars, stack, touches>>

\* scheme_fsemaphore_wait in the runtime thread: it blocks with the scheduler
\* until the semaphore is ready, ...
RuntimeWaits(f) ==
  /\ InProgram(f) /\ InBounds(f)
  /\ posts < MaxPosts /\ posts' = posts + 1
  /\ IF ready # 0 THEN ready' = ready - 1 /\ UNCHANGED stack
                  ELSE stack' = <<Frame("fsema", NoFuture)>> \o stack /\ UNCHANGED ready
  /\ UNCHANGED <<status, queue, pending, futVars, listVars, alive, line, workerVars, sema, rpc,
                 checkVars, touches>>

\* ... fsemaphore_ready, ...
FsemaphoreReady ==
  /\ Top("fsema", NoFuture)
  /\ IF ready # 0
     THEN stack' = <<Frame("ready", NoFuture)>> \o Tail(stack) /\ UNCHANGED rpc
     ELSE rpc' = "atomic" /\ UNCHANGED stack
  /\ UNCHANGED <<status, queue, pending, futVars, listVars, alive, fsemaVars, workerVars, sema,
                 checkVars, bounds>>

\* ... and then it takes one from the count, as it is by now.
TakeReady ==
  /\ Top("ready", NoFuture)
  /\ ready' = ready - 1
  /\ stack' = Tail(stack)
  /\ UNCHANGED <<status, queue, pending, futVars, listVars, alive, line, workerVars, sema, rpc,
                 checkVars, bounds>>

\* The custodian of the futures is shut down.
Shutdown ==
  /\ InProgram(NoFuture) /\ alive
  /\ alive' = FALSE
  /\ UNCHANGED <<status, queue, pending, futVars, listVars, fsemaVars, workerVars, sema, rpc,
                 checkVars, stack, bounds>>

\* The program is out of fuel.
Yield ==
  /\ InProgram(NoFuture)
  /\ rpc' = "atomic"
  /\ UNCHANGED <<status, queue, pending, futVars, listVars, alive, fsemaVars, workerVars, sema,
                 checkVars, stack, bounds>>

\* Mutant: a future that the runtime thread runs stays in the queue.
BuggyRunInRuntime(f) ==
  /\ status[f] \in {"PENDING", "PENDING_OVERSIZE", "SUSPENDED"}
  /\ status' = [status EXCEPT ![f] = "RUNNING"]
  /\ suspended_lw' = [suspended_lw EXCEPT ![f] = FALSE]
  /\ stack' = <<Frame("body", f)>> \o stack
  /\ MayYield
  /\ UNCHANGED <<queue, want_lw>>

\* general_touch of a future that nobody runs: future_in_runtime.  That a captured
\* continuation can be applied is no condition: scheme_can_apply_lightweight_continuation
\* (fun.c) is always true when it is not to check for overflow, as here.
RunInRuntime(f) ==
  /\ status[f] \in {"PENDING", "PENDING_OVERSIZE", "SUSPENDED"}
  /\ status' = [status EXCEPT ![f] = "RUNNING"]
  /\ queue' = Without(queue, f)
  /\ suspended_lw' = [suspended_lw EXCEPT ![f] = FALSE]
  /\ stack' = <<Frame("body", f)>> \o stack
  /\ MayYield
  /\ UNCHANGED want_lw

\* Mutant: a touch leaves primitives to the scheduler, which does only the
\* atomic ones.
BuggyInvokeRtcall(f) ==
  /\ status[f] = "WAITING_FOR_PRIM"
  /\ rpc' = "atomic"
  /\ UNCHANGED <<status, queue, suspended_lw, want_lw, stack>>

\* general_touch of a future that waits for a primitive: invoke_rtcall.
InvokeRtcall(f) ==
  /\ status[f] = "WAITING_FOR_PRIM"
  /\ status' = [status EXCEPT ![f] = "HANDLING_PRIM"]
  /\ want_lw' = [want_lw EXCEPT ![f] = FALSE]
  /\ stack' = <<Frame("prim", f)>> \o stack
  /\ MayYield
  /\ UNCHANGED <<queue, suspended_lw>>

\* One turn of general_touch; the scheduler runs before the next one.
TouchTurn(f) ==
  /\ Top("touch", f)
  /\ \/ RunInRuntime(f)
     \/ InvokeRtcall(f)
     \/ /\ status[f] = "FINISHED"
        /\ rpc' = IF no_retval[f] THEN "raise" ELSE "run"
        /\ stack' = Tail(stack)
        /\ UNCHANGED <<status, queue, suspended_lw, want_lw>>
     \/ /\ status[f] \in {"RUNNING", "WAITING_FOR_FSEMA", "HANDLING_PRIM"}
        /\ rpc' = "atomic"
        /\ UNCHANGED <<status, queue, suspended_lw, want_lw, stack>>
  /\ UNCHANGED <<pending, can_continue, prim, target, in_specific, no_retval, listVars, alive,
                 fsemaVars, workerVars, sema, checkVars, bounds>>

\* The body of f returns: the touch has its result.
BodyReturns(f) ==
  /\ Top("body", f)
  /\ Finish(f, sema)
  /\ stack' = SubSeq(stack, 3, Len(stack))
  /\ MayYield
  /\ UNCHANGED <<suspended_lw, prim, target, in_specific, no_retval, waiting_atomic,
                 waiting_touch, waiting_lwc, alive, fsemaVars, workerVars, checkVars, bounds>>

\* The body of f, or the primitive for f, raises an exception.
Raise(f) ==
  /\ Top("body", f) \/ (Top("prim", f) /\ prim[f] = "blocking")
  /\ rpc' = "raise"
  /\ UNCHANGED <<status, queue, pending, futVars, listVars, alive, fsemaVars, workerVars, sema,
                 checkVars, stack, bounds>>

\* do_invoke_rtcall: a touch is a call of general_touch; any other primitive
\* returns, and complete_rtcall lets f go on.
DoInvokeRtcall(f) ==
  /\ IF Top("prim", f) /\ prim[f] = "touch"
     THEN /\ stack' = <<Frame("touch", target[f]), Frame("touched", f)>> \o Tail(stack)
          /\ UNCHANGED <<status, queue, pending, want_lw, can_continue, sema, rpc>>
     ELSE /\ Top("prim", f) \/ Top("touched", f)
          /\ CompleteRtcall(<<f>>, status, sema)
          /\ stack' = Tail(stack)
          /\ MayYield
  /\ UNCHANGED <<suspended_lw, prim, target, in_specific, no_retval, listVars, alive, fsemaVars,
                 workerVars, checkVars, bounds>>

\* An exception leaves the frames of the stack: the body of a future ends
\* without a result, and so does a future whose continuation was captured for
\* the primitive (invoke_rtcall); a future thread that waits is told.
Unwind ==
  LET k == stack[1].k
      f == stack[1].f
  IN
  /\ rpc = "raise"
  /\ IF stack = <<>>
     THEN rpc' = "run" /\ UNCHANGED <<status, queue, pending, suspended_lw, want_lw, can_continue,
                                      no_retval, touching, sema, stack>>
     ELSE /\ stack' = Tail(stack)
          /\ no_retval' = IF k = "touch" THEN no_retval ELSE [no_retval EXCEPT ![f] = TRUE]
          /\ CASE k = "touch" ->
                    UNCHANGED <<status, queue, pending, suspended_lw, want_lw, can_continue,
                                touching, sema>>
               [] k = "body" -> Finish(f, sema) /\ UNCHANGED suspended_lw
               [] k \in {"prim", "touched"} /\ suspended_lw[f] ->
                    /\ Finish(f, sema)
                    /\ suspended_lw' = [suspended_lw EXCEPT ![f] = FALSE]
               [] OTHER ->
                    /\ sema' = [sema EXCEPT ![can_continue[f]] = @ + 1]
                    /\ can_continue' = [can_continue EXCEPT ![f] = NoWorker]
                    /\ UNCHANGED <<status, queue, pending, suspended_lw, want_lw, touching>>
          /\ UNCHANGED rpc
  /\ UNCHANGED <<prim, target, in_specific, waiting_atomic, waiting_touch, waiting_lwc, alive,
                 fsemaVars, workerVars, checkVars, bounds>>

----------------------------------------------------------------------------
(* scheme_check_future_work: the lists of what future threads ask for, one *)
(* after the other, each until it is empty.                                *)

\* An atomic operation that f still waits for is done at once ...
CheckAtomic ==
  /\ rpc = "atomic"
  /\ IF waiting_atomic = <<>>
     THEN rpc' = "touch" /\ UNCHANGED <<waiting_atomic, status, want_lw, job>>
     ELSE LET f == Head(waiting_atomic) IN
          /\ waiting_atomic' = Tail(waiting_atomic)
          /\ IF status[f] = "WAITING_FOR_PRIM" /\ prim[f] = "atomic"
             THEN /\ status' = [status EXCEPT ![f] = "HANDLING_PRIM"]
                  /\ want_lw' = [want_lw EXCEPT ![f] = FALSE]
                  /\ rpc' = "rtatomic" /\ job' = f
             ELSE UNCHANGED <<status, want_lw, rpc, job>>
  /\ UNCHANGED <<queue, pending, suspended_lw, can_continue, prim, target, in_specific,
                 no_retval, touching, waiting_touch, waiting_lwc, alive, fsemaVars, workerVars,
                 sema, other, withheld, stack, bounds>>

\* ... with future_mutex unlocked.
AtomicDone ==
  /\ rpc = "rtatomic"
  /\ CompleteRtcall(<<job>>, status, sema)
  /\ rpc' = "atomic" /\ job' = NoFuture
  /\ UNCHANGED <<suspended_lw, prim, target, in_specific, no_retval, listVars, alive, fsemaVars,
                 workerVars, other, withheld, stack, bounds>>

\* A future that touches another one ...
CheckTouch ==
  /\ rpc = "touch"
  /\ IF waiting_touch = <<>>
     THEN rpc' = "lwc" /\ UNCHANGED <<waiting_touch, job, other>>
     ELSE LET f == Head(waiting_touch) IN
          /\ waiting_touch' = Tail(waiting_touch)
          /\ IF WaitsForTouch(f, target[f])
             THEN rpc' = "chain" /\ job' = f /\ other' = target[f]
             ELSE UNCHANGED <<rpc, job, other>>
  /\ UNCHANGED <<status, queue, pending, futVars, touching, waiting_atomic, waiting_lwc, alive,
                 fsemaVars, workerVars, sema, withheld, stack, bounds>>

\* ... is chained to it, unless that one has finished meanwhile.  The status of
\* the future is not looked at again: if it was on the chain already, by its own
\* touch, it has been told to go on, and is told a second time.  What follows
\* that ("twice": it is queued or made HANDLING_PRIM while it runs, waits or has
\* ended) is not modelled.  If it waits for another primitive by then, that call
\* gets the result of the touch.
Chain ==
  /\ rpc = "chain"
  /\ IF status[other] = "FINISHED"
     THEN /\ CompleteRtcall(<<job>>, [status EXCEPT ![job] = "HANDLING_PRIM"], sema)
          /\ rpc' = IF status[job] = "WAITING_FOR_PRIM" THEN "touch" ELSE "twice"
          /\ UNCHANGED touching
     ELSE /\ touching' = [touching EXCEPT ![other] = <<job>> \o @]
          /\ rpc' = "touch"
          /\ UNCHANGED <<status, queue, pending, want_lw, can_continue, sema>>
  /\ job' = NoFuture /\ other' = NoFuture
  /\ UNCHANGED <<suspended_lw, prim, target, in_specific, no_retval, waiting_atomic,
                 waiting_touch, waiting_lwc, alive, fsemaVars, workerVars, withheld, stack, bounds>>

\* Mutant: the semaphore of the future thread is not withheld.
BuggyCheckLwc ==
  /\ rpc = "lwc"
  /\ IF waiting_lwc = <<>>
     THEN rpc' = "run" /\ UNCHANGED <<waiting_lwc, job, withheld>>
     ELSE LET f == Head(waiting_lwc) IN
          /\ waiting_lwc' = Tail(waiting_lwc)
          /\ IF want_lw[f]
             THEN rpc' = "capture" /\ job' = f /\ withheld' = can_continue[f]
             ELSE rpc' = "run" /\ UNCHANGED <<job, withheld>>
  /\ UNCHANGED <<can_continue, status, queue, pending, suspended_lw, want_lw, prim, target,
                 in_specific, no_retval, touching, waiting_atomic, waiting_touch, alive, fsemaVars,
                 workerVars, sema, other, stack, bounds>>

\* A future whose continuation is to be captured: a touch may complete while
\* the runtime thread does so, so the semaphore is withheld ...  A future that no
\* longer wants to be captured ends the round.
CheckLwc ==
  /\ rpc = "lwc"
  /\ IF waiting_lwc = <<>>
     THEN rpc' = "run" /\ UNCHANGED <<waiting_lwc, can_continue, job, withheld>>
     ELSE LET f == Head(waiting_lwc) IN
          /\ waiting_lwc' = Tail(waiting_lwc)
          /\ IF want_lw[f]
             THEN /\ rpc' = "capture" /\ job' = f /\ withheld' = can_continue[f]
                  /\ can_continue' = [can_continue EXCEPT ![f] = NoWorker]
             ELSE rpc' = "run" /\ UNCHANGED <<job, withheld, can_continue>>
  /\ UNCHANGED <<status, queue, pending, suspended_lw, want_lw, prim, target, in_specific,
                 no_retval, touching, waiting_atomic, waiting_touch, alive, fsemaVars, workerVars,
                 sema, other, stack, bounds>>

\* Mutant: the continuation is used although f has been told to go on.
BuggyCapture ==
  /\ rpc = "capture"
  /\ want_lw' = [want_lw EXCEPT ![job] = FALSE]
  /\ suspended_lw' = [suspended_lw EXCEPT ![job] = TRUE]
  /\ cur' = [cur EXCEPT ![withheld] = NoFuture]
  /\ sema' = [sema EXCEPT ![withheld] = @ + 1]
  /\ rpc' = "lwc" /\ job' = NoFuture /\ withheld' = NoWorker
  /\ UNCHANGED <<status, queue, pending, can_continue, prim, target, in_specific, no_retval,
                 listVars, alive, fsemaVars, wpc, fsemaFt, other, stack, bounds>>

\* Mutant: the future thread is not told that its future is taken from it.
ForgetfulCapture ==
  /\ rpc = "capture"
  /\ want_lw' = [want_lw EXCEPT ![job] = FALSE]
  /\ suspended_lw' = [suspended_lw EXCEPT ![job] = want_lw[job]]
  /\ sema' = [sema EXCEPT ![withheld] = @ + 1]
  /\ rpc' = "lwc" /\ job' = NoFuture /\ withheld' = NoWorker
  /\ UNCHANGED <<status, queue, pending, can_continue, prim, target, in_specific, no_retval,
                 listVars, alive, fsemaVars, workerVars, other, stack, bounds>>

\* ... until capture_future_continuation has what it wants, or drops it.
Capture ==
  /\ rpc = "capture"
  /\ want_lw' = [want_lw EXCEPT ![job] = FALSE]
  /\ suspended_lw' = [suspended_lw EXCEPT ![job] = want_lw[job]]
  /\ cur' = IF want_lw[job] THEN [cur EXCEPT ![withheld] = NoFuture] ELSE cur
  /\ sema' = [sema EXCEPT ![withheld] = @ + 1]
  /\ rpc' = "lwc" /\ job' = NoFuture /\ withheld' = NoWorker
  /\ UNCHANGED <<status, queue, pending, can_continue, prim, target, in_specific, no_retval,
                 listVars, alive, fsemaVars, wpc, fsemaFt, other, stack, bounds>>

----------------------------------------------------------------------------
\* What a future thread does, and the future that it runs.
WorkerStep(w) ==
  \/ Take(w) \/ TouchCall(w) \/ Continue(w) \/ FutureCaptured(w) \/ FutureInLine(w)
  \/ \E f \in Future :
       \/ Return(w, f) \/ AtomicCall(w, f) \/ BlockingCall(w, f)
       \/ FuturePosts(w, f) \/ FutureWaits(w, f)
       \/ \E g \in Future : Touch(w, f, g) \/ FutureMakesFuture(w, f, g)

\* What the runtime thread does in any case: it touches, and runs its scheduler.
RuntimeStep ==
  \/ FsemaphoreReady \/ TakeReady \/ Unwind \/ Yield
  \/ CheckAtomic \/ AtomicDone \/ CheckTouch \/ Chain \/ CheckLwc \/ Capture
  \/ \E f \in Future : TouchTurn(f) \/ BodyReturns(f) \/ Raise(f) \/ DoInvokeRtcall(f)

\* What its program may do.
Program ==
  \/ Shutdown
  \/ \E f \in 0..N :
       \/ RuntimePosts(f) \/ RuntimeWaits(f)
       \/ \E g \in Future : RuntimeMakesFuture(f, g) \/ RuntimeTouches(f, g)

Next == RuntimeStep \/ Program \/ \E w \in Worker : WorkerStep(w)

Spec == Init /\ [][Next]_vars

\* The operating system runs every thread that can go on, and what a future
\* computes ends.
FairSpec == Spec /\ WF_vars(RuntimeStep) /\ \A w \in Worker : WF_vars(WorkerStep(w))

----------------------------------------------------------------------------
PendingQueue ==
  /\ \A i, j \in DOMAIN queue : i # j => queue[i] # queue[j]
  /\ \A f \in Future : status[f] = "PENDING" <=> Has(queue, f)
  /\ pending >= Len(queue)

\* The queue has the futures that are pending, each once, and future_pending_sema
\* has a post for each of them: no future is forgotten or taken twice, except by
\* the race of Chain (future.c:2676), which this property and the next three name.
QueueIsPending == Orderly => PendingQueue

\* Who runs the code of f: a future thread or the runtime thread.
Runners(f) == {w \in Worker : cur[w] = f /\ wpc[w] \in {"run", "touch"}}
Bodies(f) == {i \in DOMAIN stack : stack[i] = Frame("body", f)}

\* A future that is RUNNING is run by one thread, any other one by none.
OneRunner ==
  Orderly => \A f \in Future :
    Cardinality(Runners(f)) + Cardinality(Bodies(f)) = IF status[f] = "RUNNING" THEN 1 ELSE 0

\* A future thread that waits on its semaphore will be told: it has a post, or
\* somebody knows the semaphore, for the future that it waits with.  And a
\* future that is said to be handled is: the runtime thread is in its call, or
\* a future thread is about to go on with it.  The comment on want_lw (future.h):
\* a future thread is blocked on the future, the runtime thread does not work
\* for it, and it knows the semaphore or withholds it.
WaitersAreKnown == Orderly =>
  /\ \A w \in Worker :
       wpc[w] \in {"wait", "fwait"} /\ sema[w] = 0 =>
         \/ withheld = w /\ cur[w] = job
         \/ /\ cur[w] # NoFuture /\ can_continue[cur[w]] = w
            /\ \/ status[cur[w]] \in {"WAITING_FOR_PRIM", "HANDLING_PRIM"}
               \/ wpc[w] = "fwait" /\ want_lw[cur[w]] /\ Has(waiting_lwc, cur[w])
  /\ \A f \in Future :
       status[f] = "HANDLING_PRIM" =>
         \/ job = f
         \/ \E i \in DOMAIN stack : stack[i].f = f /\ stack[i].k \in {"prim", "touched"}
         \/ \E w \in Worker : cur[w] = f /\ wpc[w] = "wait" /\ sema[w] > 0
  /\ \A f \in Future :
       want_lw[f] =>
         /\ status[f] \in {"WAITING_FOR_PRIM", "WAITING_FOR_FSEMA"}
         /\ \E w \in Worker : /\ cur[w] = f /\ wpc[w] \in {"wait", "fwait"}
                              /\ can_continue[f] = w \/ (withheld = w /\ job = f)

\* A future in fsemaphore-wait is in line or on its way there, and nobody is in
\* line when the semaphore is ready.
NobodyLeftInLine == Orderly =>
  /\ ready > 0 => line = <<>>
  /\ \A f \in Future :
       status[f] = "WAITING_FOR_FSEMA" <=> Has(line, f) \/ \E w \in Worker : fsemaFt[w] = f

\* A touch by the program returns, however its futures are run, unless
\* something waits for a future semaphore for ever, or a touch is completed twice.
TouchReturns ==
  \/ []<>(stack = <<>>) \/ <>~Orderly
  \/ <>[](\/ \E f \in Future : status[f] = "WAITING_FOR_FSEMA"
          \/ stack # <<>> /\ stack[1].k = "fsema")

\* fsemaphore-count returns an exact nonnegative integer.
CountNotNegative == ready >= 0
=============================================================================
