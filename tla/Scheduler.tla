------------------------------ MODULE Scheduler -----------------------------
(***************************************************************************)
(* The scheduler of the green threads (racket/src/thread): the chain of a  *)
(* thread group with its cursor (thread-group.rkt), the threads that sleep *)
(* (thread.rkt, with the tree of tree.rkt), and the selection of the next  *)
(* thread, which lets the whole process sleep once every thread has polled *)
(* without progress (schedule.rkt).                                        *)
(*                                                                         *)
(* Threads models the same threads in the operations that block them, but  *)
(* not the order in which they run, nor time.  Here a blocking operation   *)
(* is one that any other thread may complete.                              *)
(***************************************************************************)
EXTENDS Integers, FiniteSets

CONSTANTS
  Thread, Main, \* the threads; root-thread
  None,         \* #f
  MaxTime       \* bound on the clock

ASSUME SchedulerAssumption ==
  /\ IsFiniteSet(Thread) /\ Main \in Thread /\ None \notin Thread
  /\ MaxTime \in Nat

Time == 0..MaxTime
Never == -1

VARIABLES
  g,             \* the thread group: its children linked by next and prev
                 \* from start to end, the next one to run (chain), and
                 \* num-threads-in-groups
  current,       \* (current-thread)
  engine,        \* "none", "ready", "running", "done"
  intr,          \* thread-interrupt-callback: "none", "void", "callback"
  suspended, needsRetry,
  op,            \* the operation that the thread blocks in or has to retry:
                 \* "none", "sleep", "wait"
  waiting,       \* the thread is in line for what it waits for
  until,         \* until-msecs of its sleep
  sleepUntil,    \* thread-sleep-until
  sleeping,      \* sleeping-threads: the hash table of each key
  pollDone,      \* poll-done-threads
  now,
  timeout,       \* the process sleeps until then (Never: it does not)
  status,        \* "up", "done" or "exit", "error" after an internal error
  odd            \* what has happened that the scheduler does not expect

threadVars == <<engine, intr, suspended, needsRetry, op, waiting, until>>
sleepVars == <<sleepUntil, sleeping>>
vars == <<g, current, threadVars, sleepVars, pollDone, now, timeout, status, odd>>

Distant == MaxTime + 1

\* struct thread-group, with num-threads-in-groups: the links next and prev are
\* fields of the threads.
Group ==
  [next : [Thread -> Thread \cup {None}], prev : [Thread -> Thread \cup {None}],
   start : Thread \cup {None}, chain : Thread \cup {None}, end : Thread \cup {None},
   num : 0..Cardinality(Thread)]

TypeOK ==
  /\ g \in Group
  /\ current \in Thread \cup {None}
  /\ engine \in [Thread -> {"none", "ready", "running", "done"}]
  /\ intr \in [Thread -> {"none", "void", "callback"}]
  /\ suspended \in [Thread -> BOOLEAN] /\ needsRetry \in [Thread -> BOOLEAN]
  /\ op \in [Thread -> {"none", "sleep", "wait"}]
  /\ waiting \subseteq Thread
  /\ until \in [Thread -> Time] /\ sleepUntil \in [Thread -> Time \cup {Never}]
  /\ sleeping \in [Time -> SUBSET Thread]
  /\ pollDone \subseteq Thread
  /\ now \in Time /\ timeout \in Time \cup {Never, Distant}
  /\ status \in {"up", "done", "exit", "error"}
  /\ odd \subseteq {"suspended sleeper", "same time", "overslept"}

----------------------------------------------------------------------------
(* thread-group.rkt                                                        *)

Empty == [next |-> [t \in Thread |-> None], prev |-> [t \in Thread |-> None],
          start |-> None, chain |-> None, end |-> None, num |-> 0]

\* thread-group-add!
Added(h, t) ==
  [h EXCEPT !.prev[t] = h.end,
            !.next = [u \in Thread |-> IF u = t THEN None
                                       ELSE IF u = h.end THEN t ELSE h.next[u]],
            !.start = IF h.end = None THEN t ELSE @,
            !.end = t,
            !.num = @ + 1]

\* Mutant: the cursor stays at a thread that leaves.
BuggyRemoved(h, t) ==
  LET n == h.next[t]
      p == h.prev[t]
  IN  [h EXCEPT !.prev = [u \in Thread |-> IF u = t THEN None ELSE IF u = n THEN p ELSE @[u]],
                !.end = IF n = None THEN p ELSE @,
                !.next = [u \in Thread |-> IF u = t THEN None ELSE IF u = p THEN n ELSE @[u]],
                !.start = IF p = None THEN n ELSE @,
                !.num = @ - 1]

\* Mutant: the cursor is given up when the thread at it leaves, and the round
\* begins again.
RestartRemoved(h, t) ==
  [BuggyRemoved(h, t) EXCEPT !.chain = IF @ = t THEN None ELSE @]

\* thread-group-remove!  The links of a thread that has left are not kept:
\* thread-group-add! sets both.
Removed(h, t) ==
  LET n == h.next[t]
      p == h.prev[t]
  IN  [h EXCEPT !.prev = [u \in Thread |-> IF u = t THEN None ELSE IF u = n THEN p ELSE @[u]],
                !.end = IF n = None THEN p ELSE @,
                !.next = [u \in Thread |-> IF u = t THEN None ELSE IF u = p THEN n ELSE @[u]],
                !.start = IF p = None THEN n ELSE @,
                !.chain = IF @ = t THEN n ELSE @,
                !.num = @ - 1]

\* Mutant: the round always begins with the first thread.
BuggyNextOf(h) == h.start

\* thread-group-next!: the cursor, or the first thread again after the last.
NextOf(h) == IF h.chain = None THEN h.start ELSE h.chain

Init ==
  /\ g = Added(Empty, Main)
  /\ current = None
  /\ engine = [t \in Thread |-> IF t = Main THEN "ready" ELSE "none"]
  /\ intr = [t \in Thread |-> "none"]
  /\ suspended = [t \in Thread |-> FALSE] /\ needsRetry = [t \in Thread |-> FALSE]
  /\ op = [t \in Thread |-> "none"] /\ waiting = {}
  /\ until = [t \in Thread |-> 0] /\ sleepUntil = [t \in Thread |-> Never]
  /\ sleeping = [m \in Time |-> {}]
  /\ pollDone = {} /\ now = 0 /\ timeout = Never /\ status = "up" /\ odd = {}

----------------------------------------------------------------------------
(* thread.rkt                                                              *)

\* add-to-sleeping-threads!.  The insert of tree.rkt leaves the value of a key
\* that the tree has.
AddToSleeping(t, m) ==
  /\ sleepUntil' = [sleepUntil EXCEPT ![t] = m]
  /\ sleeping' = [sleeping EXCEPT ![m] = IF @ = {} THEN {t} ELSE @]
  /\ odd' = IF sleeping[m] \subseteq {t} THEN odd ELSE odd \cup {"same time"}

\* The tree after remove-from-sleeping-threads!(t), which fails if the key has
\* gone, and which cannot change the value of a key either.
NotFound(t) == sleepUntil[t] # Never /\ sleeping[sleepUntil[t]] = {}
WithoutSleeper(t) ==
  IF sleepUntil[t] = Never THEN sleeping
  ELSE [sleeping EXCEPT ![sleepUntil[t]] = IF @ = {t} THEN {} ELSE @]

\* thread-internal-suspend! of the current thread, which then blocks.
Block(o) ==
  LET c == current IN
  /\ g' = Removed(g, c)
  /\ intr' = [intr EXCEPT ![c] = "callback"]
  /\ op' = [op EXCEPT ![c] = o]
  /\ needsRetry' = [needsRetry EXCEPT ![c] = FALSE]
  /\ engine' = [engine EXCEPT ![c] = "ready"]
  /\ pollDone' = {}
  /\ current' = None

\* t leaves the operation that it was blocked in.
Leave(t) ==
  /\ op' = [op EXCEPT ![t] = "none"]
  /\ until' = [until EXCEPT ![t] = 0]

\* thread-internal-resume!
InternalResume(t) ==
  /\ g' = Added(g, t)
  /\ intr' = [intr EXCEPT ![t] = "none"]
  /\ status' = IF NotFound(t) THEN "error" ELSE status
  /\ sleeping' = WithoutSleeper(t)
  /\ sleepUntil' = [sleepUntil EXCEPT ![t] = Never]

\* The interrupt callback of t is called: it leaves its line, and will retry.
Interrupt(t) ==
  /\ intr' = [intr EXCEPT ![t] = IF @ = "none" THEN "none" ELSE "void"]
  /\ needsRetry' = [needsRetry EXCEPT ![t] = @ \/ intr[t] = "callback"]
  /\ waiting' = waiting \ {t}

\* The program runs, and is not followed any further once something odd has
\* happened.
Up == status = "up" /\ odd = {}

\* The current thread is in its program, not about to retry.
Running(t) == Up /\ current = t /\ ~needsRetry[t]

MakeThread(t, u) ==
  /\ Running(t) /\ engine[u] = "none"
  /\ g' = Added(g, u)
  /\ engine' = [engine EXCEPT ![u] = "ready"]
  /\ UNCHANGED <<current, intr, suspended, needsRetry, op, waiting, until, sleepVars, pollDone,
                 now, timeout, status, odd>>

\* (sleep secs)
Sleep(t, m) ==
  /\ Running(t) /\ m >= now
  /\ Block("sleep")
  /\ until' = [until EXCEPT ![t] = m]
  /\ AddToSleeping(t, m)
  /\ UNCHANGED <<suspended, waiting, now, timeout, status>>

\* An operation that blocks without a timeout.
Wait(t) ==
  /\ Running(t)
  /\ Block("wait")
  /\ waiting' = waiting \cup {t}
  /\ UNCHANGED <<suspended, until, sleepVars, now, timeout, status, odd>>

\* t completes what u waits for: waiter-resume!
Resume(t, u) ==
  /\ Running(t) /\ u \in waiting
  /\ InternalResume(u)
  /\ waiting' = waiting \ {u}
  /\ Leave(u)
  /\ UNCHANGED <<current, engine, suspended, needsRetry, pollDone, now, timeout, odd>>

\* thread-suspend: a thread that does not block leaves the group, and the
\* current one stops at once.  (Threads has the suspension of a dead thread.)
ThreadSuspend(t, u) ==
  /\ Running(t) /\ engine[u] \in {"ready", "running"} /\ ~suspended[u]
  /\ suspended' = [suspended EXCEPT ![u] = TRUE]
  /\ IF intr[u] = "none"
     THEN /\ g' = Removed(g, u)
          /\ intr' = [intr EXCEPT ![u] = "callback"]
          /\ UNCHANGED <<needsRetry, waiting>>
     ELSE Interrupt(u) /\ UNCHANGED g
  /\ IF u = t
     THEN /\ engine' = [engine EXCEPT ![t] = "ready"]
          /\ current' = None
          /\ pollDone' = {}
     ELSE UNCHANGED <<engine, current, pollDone>>
  /\ UNCHANGED <<op, until, sleepVars, now, timeout, status, odd>>

ThreadResume(t, u) ==
  /\ Running(t) /\ engine[u] # "done" /\ suspended[u]
  /\ suspended' = [suspended EXCEPT ![u] = FALSE]
  /\ InternalResume(u)
  /\ UNCHANGED <<current, engine, needsRetry, op, waiting, until, pollDone, now, timeout, odd>>

\* Mutant: a thread that blocks is taken from the group as well.
BuggyThreadDead(u) ==
  /\ Leave(u)
  /\ engine' = [engine EXCEPT ![u] = "done"]
  /\ g' = Removed(g, u)
  /\ Interrupt(u)
  /\ sleeping' = WithoutSleeper(u)
  /\ sleepUntil' = [sleepUntil EXCEPT ![u] = Never]
  /\ status' = IF NotFound(u) THEN "error" ELSE IF u = Main THEN "exit" ELSE status

\* thread-dead!, of a thread that is killed or ends; the end of the root
\* thread is the end of the program.
ThreadDead(u) ==
  /\ Leave(u)
  /\ engine' = [engine EXCEPT ![u] = "done"]
  /\ IF intr[u] = "none"
     THEN g' = Removed(g, u) /\ UNCHANGED <<intr, needsRetry, waiting>>
     ELSE Interrupt(u) /\ UNCHANGED g
  /\ sleeping' = WithoutSleeper(u)
  /\ sleepUntil' = [sleepUntil EXCEPT ![u] = Never]
  /\ status' = IF NotFound(u) THEN "error" ELSE IF u = Main THEN "exit" ELSE status

\* kill-thread of another thread.  (Threads has the thread that kills itself.)
KillThread(t, u) ==
  /\ Running(t) /\ u # t /\ engine[u] = "ready"
  /\ ThreadDead(u)
  /\ UNCHANGED <<current, suspended, pollDone, now, timeout, odd>>

End(t) ==
  /\ Running(t)
  /\ ThreadDead(t)
  /\ current' = None
  /\ pollDone' = {}
  /\ UNCHANGED <<suspended, now, timeout, odd>>

\* thread-yield: t has polled its events, with progress or without.
Yield(t, didWork) ==
  /\ Running(t)
  /\ pollDone' = IF didWork THEN {} ELSE pollDone \cup {t}
  /\ current' = None
  /\ engine' = [engine EXCEPT ![t] = "ready"]
  /\ UNCHANGED <<g, intr, suspended, needsRetry, op, waiting, until, sleepVars, now, timeout,
                 status, odd>>

\* The engine of t is out of ticks.
Expire(t) ==
  /\ Up /\ current = t
  /\ current' = None
  /\ engine' = [engine EXCEPT ![t] = "ready"]
  /\ UNCHANGED <<g, intr, suspended, needsRetry, op, waiting, until, sleepVars, pollDone, now,
                 timeout, status, odd>>

\* check-for-retrying-break: the operation is done again.
Retry(t) ==
  /\ Up /\ current = t /\ needsRetry[t]
  /\ Block(op[t])
  /\ IF op[t] = "sleep"
     THEN AddToSleeping(t, until[t]) /\ UNCHANGED waiting
     ELSE waiting' = waiting \cup {t} /\ UNCHANGED <<sleepVars, odd>>
  /\ UNCHANGED <<suspended, until, now, timeout, status>>

----------------------------------------------------------------------------
(* schedule.rkt                                                            *)

Keys == {m \in Time : sleeping[m] # {}}
MinKey == CHOOSE m \in Keys : \A k \in Keys : m <= k

\* Threads that sleep until a time that has come.
Due == Keys # {} /\ MinKey <= now

\* swap-in-thread of the thread that the group h has next; maybe-done if it
\* has none.
SwapIn(h) ==
  LET n == NextOf(h) IN
  IF n = None
  THEN /\ status' = IF Keys = {} THEN "done" ELSE status
       /\ UNCHANGED <<g, current, engine>>
  ELSE /\ g' = [h EXCEPT !.chain = h.next[n]]
       /\ current' = n
       /\ engine' = [engine EXCEPT ![n] = "running"]
       /\ status' = IF engine[n] = "done" THEN "error" ELSE status

Selecting == Up /\ current = None /\ timeout = Never

\* select-thread!: check-timeouts wakes up the threads of one key, ...
SelectAfterTimeout ==
  /\ Selecting /\ Due
  /\ \E t \in sleeping[MinKey] :
       /\ SwapIn(Added(g, t))
       /\ Leave(t)
       /\ intr' = [intr EXCEPT ![t] = "none"]
       /\ sleeping' = WithoutSleeper(t)
       /\ sleepUntil' = [sleepUntil EXCEPT ![t] = Never]
       /\ odd' = IF suspended[t] THEN odd \cup {"suspended sleeper"} ELSE odd
  /\ pollDone' = {}
  /\ UNCHANGED <<suspended, needsRetry, waiting, now, timeout>>

\* all-threads-poll-done? and maybe-future-work?
Idle == Cardinality(pollDone) = g.num /\ (g.num > 0 \/ Keys # {})

\* ... process-sleep if every thread has polled in vain, ...
ProcessSleep ==
  /\ Selecting /\ ~Due /\ Idle
  /\ timeout' = IF Keys = {} THEN Distant ELSE MinKey
  /\ odd' = IF pollDone \subseteq {t \in Thread : engine[t] = "ready" /\ intr[t] = "none"}
            THEN odd ELSE odd \cup {"overslept"}
  /\ UNCHANGED <<g, current, threadVars, sleepVars, pollDone, now, status>>

\* ... which returns when the time has come, and the next thread.
WakeUp ==
  /\ Up /\ timeout # Never /\ now >= timeout
  /\ timeout' = Never
  /\ pollDone' = {}
  /\ SwapIn(g)
  /\ UNCHANGED <<intr, suspended, needsRetry, op, waiting, until, sleepVars, now, odd>>

Select ==
  /\ Selecting /\ ~Due /\ ~Idle
  /\ SwapIn(g)
  /\ UNCHANGED <<intr, suspended, needsRetry, op, waiting, until, sleepVars, pollDone, now,
                 timeout, odd>>

Tick ==
  /\ Up /\ now < MaxTime
  /\ now' = now + 1
  /\ UNCHANGED <<g, current, threadVars, sleepVars, pollDone, timeout, status, odd>>

----------------------------------------------------------------------------
\* What the program may do, in the thread t.
Program(t) ==
  \/ \E u \in Thread :
       \/ MakeThread(t, u) \/ Resume(t, u) \/ ThreadSuspend(t, u)
       \/ ThreadResume(t, u) \/ KillThread(t, u)
  \/ \E m \in Time : Sleep(t, m)
  \/ Wait(t) \/ End(t)
  \/ \E didWork \in BOOLEAN : Yield(t, didWork)

\* What the scheduler does, and the engine of a thread that runs.
Scheduling == SelectAfterTimeout \/ ProcessSleep \/ WakeUp \/ Select
Engine == \E t \in Thread : Expire(t) \/ Retry(t)

Next == Scheduling \/ Engine \/ Tick \/ \E t \in Thread : Program(t)

Spec == Init /\ [][Next]_vars

\* The scheduler goes on, time passes, and no thread runs for ever.
FairSpec == Spec /\ WF_vars(Scheduling) /\ WF_vars(Tick) /\ WF_vars(Engine)

----------------------------------------------------------------------------
\* The threads that can be scheduled.
Runnable == {t \in Thread : engine[t] \in {"ready", "running"} /\ intr[t] = "none"}

\* The links of the group h are the list s, of length n, of the threads R, each
\* once.
IsChain(h, R, n, s) ==
  /\ s \in [1..n -> R]
  /\ h.start = (IF n = 0 THEN None ELSE s[1])
  /\ \A i \in 1..n : /\ h.next[s[i]] = IF i = n THEN None ELSE s[i + 1]
                     /\ h.prev[s[i]] = IF i = 1 THEN None ELSE s[i - 1]
  /\ h.end = (IF n = 0 THEN None ELSE s[n])
  /\ \A i, j \in 1..n : s[i] = s[j] => i = j
  /\ \A t \in R : \E i \in 1..n : s[i] = t

\* The children of the group are a list of the threads that can be scheduled,
\* each once, and the cursor is one of them or at the end; nothing else runs,
\* and the program ends (maybe-done) only when no thread is left that could run
\* or wake up.  No internal error is met.  All of this ends with a sleeping
\* thread that is suspended, which wakes up although nobody resumes it and is
\* added once more when somebody does, and with a second thread that sleeps
\* until the same time.
ChainIsList ==
  odd = {} =>
    /\ status # "error"
    /\ status = "done" => Runnable = {} /\ \A t \in Thread : sleepUntil[t] = Never
    /\ status = "up" =>
         /\ \E s \in [1..g.num -> Runnable] : IsChain(g, Runnable, g.num, s)
         /\ g.num = Cardinality(Runnable)
         /\ g.chain \in Runnable \cup {None}
         /\ current # None => current \in Runnable /\ ~suspended[current]

\* k threads of the group h, which has the threads R, run before t: t stands k
\* places after the cursor.
InTurn(h, R, t, k) ==
  \E s \in [1..h.num -> R] :
    /\ IsChain(h, R, h.num, s)
    /\ \E i \in 1..h.num : s[i] = h.chain /\ i + k \in 1..h.num /\ s[i + k] = t

\* A step in which t, which stood k places after the cursor, is not overtaken:
\* it leaves the group, or it is selected, or it still comes after k threads at
\* most, and after fewer if another one is selected.
NotOvertaken(t, k) ==
  \/ t \notin Runnable'
  \/ current = None /\ current' = t
  \/ \E j \in 0..k : /\ InTurn(g', Runnable', t, j)
                     /\ current = None /\ current' # None => j < k

\* Round robin: a thread that the cursor has not passed is not overtaken.  While
\* it can be scheduled, no step puts another thread before it, whoever joins or
\* leaves the group, and each selection of a thread brings it closer to its own.
RoundRobin ==
  [][\A s \in [1..g.num -> Runnable] : \A i \in 1..g.num :
       s[i] = g.chain /\ IsChain(g, Runnable, g.num, s) =>
         \A k \in 0..(g.num - i) : NotOvertaken(s[i + k], k)]_vars

\* The cursor will come to t before it returns to the start, and t has not
\* polled in vain.
Ahead(t) ==
  LET after[i \in 0..g.num] ==
        IF i = 0 THEN g.chain
        ELSE IF after[i - 1] = None THEN None ELSE g.next[after[i - 1]]
  IN  t \in Runnable \ pollDone /\ \E i \in 0..g.num : after[i] = t

\* A thread that sleeps wakes up.  A thread that the cursor has not passed
\* runs, even if threads join the group for ever; one that the cursor has
\* passed runs if they do not: a thread that wakes up or is resumed is added at
\* the end of the chain, and if this happens again and again before the cursor
\* gets there, by sleepers or by threads that resume each other and wait, the
\* cursor does not return to the start.  Three more cases are excepted: the
\* suspended sleeper above, two threads that sleep until the same time, of
\* which the tree keeps one, and a process that sleeps because of threads that
\* have polled in vain and have left the group since.
EveryoneRuns ==
  \/ <>(odd # {} \/ status # "up")
  \/ /\ \A t \in Thread : sleepUntil[t] # Never ~> sleepUntil[t] = Never
     /\ \A t \in Thread : Ahead(t) ~> current = t \/ t \notin Runnable \ pollDone
     /\ \/ []<><<Runnable' \ Runnable # {}>>_vars
        \/ \A t \in Thread : t \in Runnable \ pollDone ~> current = t \/ t \notin Runnable \ pollDone
=============================================================================
