# The concurrency core of Racket, in TLA+

This directory specifies and verifies what runs concurrently in the repository,
and how it is scheduled:

  - the green-thread layer of Racket on Chez Scheme, `src/racket/src/thread`
    (with `src/racket/src/common/queue.rkt`): threads, breaks, suspension, the
    scheduler, semaphores, channels and mailboxes;
  - the OS threads of the C runtime, `src/racket/src/racket`: places (`place.c`)
    with the collection of their shared space (`gc2/places_gc.c`,
    `gc2/newgc.c`), and futures (`future.c`).

The rest of the repository (expander, compiler, I/O layer, numbers, strings,
ports, collects, packages) is sequential translation, memory management, system
calls or library code and is not modelled.

## Inventory

| part | state | operations | what makes it hard | correct when |
|---|---|---|---|---|
| threads (`thread.rkt`) | engine, interrupt callback, `suspended?`, `needs-retry?`, `pending-break?`, dead-sema, mailbox | `thread`, `kill-thread`, `thread-suspend`, `thread-resume`, `thread-wait`, `break-thread`, `break-enabled`, `sleep`, `thread-send`/`-receive` | a break, suspend or kill hits a thread anywhere between the atomic part of an operation and the end of its retry | no wakeup, break or message is lost; a suspended thread does not run; a dead one stays dead |
| scheduler (`schedule.rkt`) | `current-thread`, `sleeping-threads`, `poll-done-threads` | `select-thread!`, `swap-in-thread`, `check-timeouts`, `process-sleep` | preemption, timeouts, idle detection | every schedulable thread runs; it sleeps only when nothing can run |
| thread groups (`thread-group.rkt`) | linked chain, cursor, `num-threads-in-groups` | add, remove, next | add and remove do not check membership | chain and count agree; round robin starves nobody |
| semaphores (`semaphore.rkt`) | count, queue of waiters | wait, try-wait, post, post-all, poll | waiters leave the queue at any time | units conserved, first come first served |
| channels (`channel.rkt`) | queue of getters, queue of putters | get, put, polls | either partner may be interrupted and retry | each put meets exactly one get |
| wait queue (`common/queue.rkt`) | doubly linked nodes | add, add-front, remove, remove-node, remove-all | a node is removed by a callback long after it was added | the line keeps its order |
| sync (`sync.rkt`, `evt.rkt`) | list of syncers, selected, callbacks | poll loop, suspend, interrupt, retry, abandon, timeout | several events race to be selected while the thread is interrupted | exactly one event is selected, the others are left alone |
| sleeping tree (`tree.rkt`) | AVL tree | insert, remove, min | rotation, equal keys | a sorted map |
| places, collection of the master space (`gc2/places_gc.c`, `collect_now` of `gc2/newgc.c`) | `MASTERGCINFO`: handles of the places, `alive`, `ready`, two semaphores; `major_places_gc` | request, two rendezvous, collection by the last place, creation and destruction of a place | every place must arrive, while places start, sleep and end | the world is stopped; every request is served; nobody stays behind |
| place objects (`place.c`) | signal handle, `die`, `dead`, reference count | `dynamic-place`, `place-kill`, `place-wait`, end, check for interruption | parent, place and channels share an object whose lock the last of them destroys | freed exactly once; a kill takes effect |
| place channels (`place.c`) | ring of messages, places to wake up | put, get, registration | both sides release the lock in order to allocate | messages in order; no receiver sleeps on a message |
| futures (`future.c`, `future.h`) | queue, status, captured continuation, lists of requests to the runtime thread, pool of future threads | `future`, `touch`, runtime calls, capture, future semaphores, custodian shutdown | either side may capture a continuation while the other completes the call | one runner per future; whoever waits is told; a touch returns |
| nested threads, idle event, alarms, plumbers, custodians, engines, atomic mode | - | - | - | see `PROJECT.json` |

All green threads run in one OS thread. The engine's timer may swap the running thread
out between any two instructions, except in atomic mode: then the expire
callback continues the same engine (`schedule.rkt:61-68`). So an `atomically`
block is one indivisible step and the code between two of them is not.
Components interact by calls in atomic mode and by two callbacks that a blocked
thread leaves behind: the *interrupt* callback gets it out of the line it waits
in (run by `break-thread`, `thread-suspend` or `thread-dead!`), the *retry*
callback starts the operation again when the thread runs and no break escaped.

Places and futures are OS threads. There a step is a critical section of a lock,
an operation on a semaphore, or a read of shared state outside of any lock.
Places interact through the master's table and rendezvous, through channels and
through bytes in each other's `external_event_fd`; the runtime thread and the
future threads through lists under `future_mutex` and one semaphore per future
thread.

The hazards that matter most are listed with their lines in `PROJECT.json`,
"hazards"; further ones that no module reaches are at the end of this file.

## Modules

    WaitQueue                     queue.rkt as operators on sequences
      Threads                     thread.rkt, schedule.rkt, thread-group.rkt, waiter.rkt
        Semaphores                semaphore.rkt, thread-wait     MCSemaphores
          INSTANCE FairSemaphores   what semaphores promise
        Channels                  channel.rkt                    MCChannels
        Mailboxes                 thread-send, thread-receive    MCMailboxes
    ThreadsTheorems               lemmas on lines, and what the handlers of
                                  Threads keep (TLAPS)
    SemaphoresProofs, MailboxesProofs, ChannelsProofs,
    SchedulerProofs, PlacesGCProofs, PlaceChannelsProofs,
    FuturesProofs                 theorems about these modules (TLAPS)
    Scheduler                     schedule.rkt, thread-group.rkt,
                                  sleep of thread.rkt            MCScheduler
    PlacesGC                      places_gc.c, collect_now       MCPlacesGC
    Places                        place objects of place.c
      PlaceChannels               place channels of place.c      MCPlaceChannels
    Futures                       future.c                       MCFutures

**Threads** has what happens to a thread, whatever it blocks in. Its variables
are fields of the `thread` struct (named in the declarations) and `pc`, the
place of the thread's continuation:

    run --(atomic part of an operation blocks)--> block --engine-block--> woken
    woken --check-for-retrying-break--> run            (resumed normally)
                                    \-> check --> enter --> the operation again

`engine[t]` is "ready" (an engine is stored), "running" or "done"; `intr[t]` is
the interrupt callback: `#f`, `void`, the one of a blocking operation ("wait")
or the one of `thread-suspend` ("suspend"). The thread group is a set. Links or
counts that an unchecked add or remove corrupts are the status "group", and the
internal error "tried to resume a dead thread" is the status "resume-dead":
both end the behaviour, so that the invariant `NeverCorrupted` says that
neither is reached. A break that is raised either escapes from the operation
(`pc` back to "run") or its handler continues it. The parts of handlers
(`ThreadDead`, `InternalResume`, `DoBreakThread`, ...) are operators that the
actions of the client modules use, each conjoined with what the interrupt
callback does to the client's lines (`LineInterrupt`, `Interrupt`).

The program is any program: each running thread may call any operation at any
moment. Some uses of the API lead the code at this commit into the errors
above. They are excluded by default and allowed by elements of the constant
`Corners`:

| corner | use | consequence |
|---|---|---|
| `kill-self` | `(kill-thread (current-thread))` | the thread comes back to life (finding) |
| `suspend-dead` | `thread-suspend` of a terminated thread | removed twice from the group (finding) |
| `unchecked-break` | Ctl-C while the main thread runs, `(break-enabled #t)` | a break is not noticed (finding) |
| `break-dead` | `break-thread` of a thread killed while it waited | internal error |
| `wait-self` | `thread-wait` of the current thread, then killed | internal error |

**Semaphores** adds the counts and lines of the program's semaphores and of the
dead-semas (line `u` is the dead-sema of thread `u`; `open` are those with the
count `+inf.0`). `thread-wait` is two steps, as in the code: get the dead-sema,
then `semaphore-wait`. **FairSemaphores** is the promise: a post adds a unit and
hands it to the thread that has waited longest, and to no other; every unit is
used once, by a thread that finds it free or by the one it was handed to; a
thread joins only at the end of the line and only when no unit is free, and may
give up its place, but then without a unit. Units in the hands of a thread that
is resumed and has not run yet are not in `count` any more, so Semaphores has the
history variable `owed`: the units that were posted and are not used yet. The
refinement maps `owed` to `units`, `queue` to `line`, and `served` to the threads
that a post has taken out of a line and that are still in their wait (`Served`).

**Channels** gives each put a value of its own; `delivered` is a history
variable that counts how often a getter was given a value. The box of a
`channel-get` lives as long as the call.

**Mailboxes** sends each element of `Message` once; `sent` and `got` are history
variables. The program rewinds messages it received last, newest first, which is what
`thread-rewind-receive` is for. `thread-receive` calls itself again after every
wakeup (`DoYield`), unlike the other operations.

**Scheduler** has what the set `group` of Threads leaves out: the links of the
chain with its cursor (`Added`, `Removed`, `NextOf`), `num-threads-in-groups`,
the clock, `sleeping-threads` and `poll-done-threads`. One turn of
`select-thread!` is one of `SelectAfterTimeout`, `ProcessSleep` with `WakeUp`,
and `Select`. A blocking operation other than `sleep` is one that any running
thread may complete (`Wait`, `Resume`). `odd` records three things that the
code does not expect: a suspended thread that wakes up from `sleep` and runs,
two threads that sleep until the same time (the tree keeps only the first), and
a process that sleeps because of threads that have left the group since they
polled. A behaviour is not followed past any of them, and the properties except
them by name.

**PlacesGC** follows each place through `collect_now`: `pc` is its point in the
loop, in one of the two rendezvous, or in its creation and destruction. `cangc`
is held over several steps only by `collect_master`, which posts to the others
before it unlocks; every other part under the lock is one step. `readgo` is the
read of `alive` after the unlock. A failed consistency check, `abort()`, or a
signal to a mark instead of a handle sets `aborted`, which ends the behaviour.

**Places** has the fields that a parent and its place share; **PlaceChannels**
extends it with one channel. A sender that found the ring full (`grow`) and a
receiver that found no room in the wakeup vector (`tryalloc`, `pollalloc`) have
released the lock. Messages are numbered as they enter the ring. `stale`
remembers that a message was put into an empty ring by a sender that still had
the count of a full one: the finding `place_lost_wakeup`, which the safety
property excepts.

**Futures** has the pool of future threads (`wpc`, `cur`, `sema`) and the
runtime thread: `rpc` is its place in `scheme_check_future_work`, and `stack`
the nesting of what it is in, innermost first: a touch, the body of a future it
runs itself, a primitive it calls for a future (which may be a touch again), a
wait for a future semaphore. An exception unwinds the stack frame by frame.
Whether a continuation can be captured is a choice of the model, since it
depends on the native stack. Assumed: all future threads exist from the start;
one Racket thread uses futures; a future touches only futures made before it;
an allocation fails only in a future thread. `fsemaphore-try-wait?` is a wait on a
ready semaphore, and a `future` that a future thread cannot perform itself is one
of its runtime calls. That a captured continuation can be applied in the runtime
thread is not an assumption: `scheme_can_apply_lightweight_continuation(lw, 0)`
(`fun.c:8779`) always returns 1, so that the test at `future.c:2002` is always
true and, without `WAITING_FOR_OVERFLOW`, the branch at `future.c:2051` is never
taken.

`Chain` has a race of the code (`future.c:2676`, listed as a hazard).
`scheme_check_future_work` takes a future `f` that touches `g` from
`future_waiting_touch`, unlocks `future_mutex` to allocate the link of the chain,
and if `g` is finished then it completes the touch without a look at `f`'s status.
If `f` was in the list since an earlier touch and is on the chain of `g` as well,
`g` has completed the touch already, and `f` is told to go on twice: it enters the
queue while it is in it or runs, or is said to be handled while it runs. `rpc` is
then "twice" and the model stops there (`Orderly` says that this did not
happen). The safety properties except that one state by name and so does
`TouchReturns`. A future that has gone on and waits for another primitive by then
gets the result of the touch for it, which breaks none of these properties.

## Runs

| run | instance | shows |
|---|---|---|
| `semaphores` | 3 threads, 1 semaphore, count at most 1; 1 million states | no unit, wakeup or break is lost; whoever stands in a line can take what a post gives; nothing is corrupted; a dead thread stays dead; `FairSemaphores` is implemented |
| `channels` | 3 threads, 1 channel, 2 values; 0.8 million states | a put that returns was received exactly once, one that will retry was not; a get that returns has a value; a get and a put never wait for each other; only blocked threads stand in line |
| `mailboxes` | 3 threads, 2 messages; 0.8 million states | messages arrive once and in order; no receiver sleeps on a full mailbox; the flag that makes `thread-send` resume its target is never stale |
| `scheduler` | 4 threads, 2 instants; 61 thousand states | the chain is a list of exactly the threads that can run, whatever leaves while the cursor points at it; nobody overtakes a thread that the cursor has not passed; the program ends only when nobody can run or wake up; sleepers wake up, a thread that the cursor has not passed gets its turn, and so does every other one unless threads join the group for ever |
| `places_gc` | 3 places, 2 requests, table of 3 slots; 120 thousand states | the world is stopped during a collection of the master space; no surplus post is left for the next rendezvous; the table is consistent; every request is served and everybody leaves the rendezvous |
| `place_channels` | 3 places, 2 send, 2 receive, 4 messages; 387 thousand states | messages neither lost, doubled nor reordered while the ring wraps and grows; place objects freed exactly with their last reference; no receiver sleeps on a message (but see `place_lost_wakeup`); a killed place ends |
| `futures` | 3 futures, 2 future threads; 437 thousand states | queue, status and semaphore posts agree; one runner per future; whoever waits is known to somebody who will tell; nobody is left in line at a ready semaphore; a touch returns; all of this until a touch is completed twice (`Chain`), which the run reaches |
| `kill_self` | violation of `DeadForever` | the expire callback stores the engine of a thread that has just been marked done |
| `suspend_dead` | violation of `NeverCorrupted` | `thread-suspend` of a terminated thread unlinks a non-member and miscounts |
| `unchecked_break` | violation of `NoStuckBreak` | Ctl-C just before the main thread blocks is not noticed |
| `place_lost_wakeup` | violation of `MessageWakesReceiver` | a sender that grew the ring does not wake the receiver that emptied it meanwhile |
| `fsemaphore_count` | violation of `CountNotNegative` | the runtime thread takes a unit that a future has taken between its test and its lock |

Bounds. Three threads are the smallest number in which one waits, one gives and
one interferes (the main thread, whose end ends the program, is one of them).
One semaphore with at most one unit, one channel with two values and two
messages give every order of wait/post, get/put and send/receive around an
interruption. `MaxUnusual` bounds, in each state, the suspended threads, dead
threads, pending breaks and threads with breaks disabled, two of them together:
enough for a break that is pending while it is disabled, a suspend of a thread
with a pending break, a kill of a suspended thread. `MaxWaitedFor` and
`MaxReceivers` let one thread be waited for, or be sent messages, at a time.
The constraint only cuts off states with more at once; the proofs
need no bound. Threads other than the main one are symmetric, since no
definition distinguishes them; so are the values of `Channels`. The runs with
liveness use no symmetry.

`scheduler`: with three threads one is before the cursor, one at it and one is
added behind, and these three do whatever they can; a fourth one is made only
while none is dead, suspended or asleep (`FourAwake`), which is what it takes for
three threads that resume each other and wait to starve one before the cursor.
The instants 0 and 1 give sleeps that are over at once and sleeps until the same
time or different times. `places_gc`: the original place and two more, one of
which may be created, asleep or destroyed while the others collect; the second
request meets what the first left behind. `InitialSize` is 3, where the code has
4, so that three places do not fit without the table growing. `place_channels`:
the ring begins with one slot (the code: 8), so that it grows twice, and wraps
when it does; two receivers make
the wakeup vector. `futures`: two futures and two future threads are enough for
one to touch, make or wait for the other in every state; each future performs
one operation and the program posts or waits once (`MaxPosts`) and touches once
(`MaxTouch`), apart from what touches inside of touches do. `FewCalls` adds to
that, without future semaphores and shutdown: two futures of which the second
performs a second atomic operation, so that it is pushed onto
`future_waiting_atomic` while it is still in it and the rest of the list is cut
off (`PushAtomic`); and three futures of which the third performs two operations,
so that its touch is completed twice (`Chain`). TLC reaches the cut in 11 steps
and the second completion in 20.

`CHECK_DEADLOCK FALSE`: `select-thread!` returns, or the process sleeps, when no
thread can run, and a program may well leave all its threads waiting.

Fairness. The specifications of semaphores, channels and mailboxes state none
and claim no liveness. `PlacesGC`, `PlaceChannels` and `Futures` assume weak
fairness of each OS thread: the operating system runs a thread that can go on.
What a program *may* do (send, create, request, kill, shut down) is outside of
that; in `Futures` a future's computation and a primitive end, and the runtime
thread gets to its scheduler because its fuel runs out. `Scheduler` assumes weak
fairness of the scheduler, of time, and of the engine, whose timer expires; not
of single threads: that a thread runs is what `EveryoneRuns` shows. A sleeper
wakes up, and a thread that the cursor has not passed (`Ahead`) runs, whatever
the others do. A thread that the cursor has passed runs unless threads join the
group infinitely often: each is added at the end of the chain, and sleepers that
wake up, or threads that resume each other and wait, can so keep the cursor from
ever returning to the start. This is how the code behaves: without the exception,
or with an exception for sleepers alone, TLC shows the starvation (three threads
resume each other in turn and the main thread, first in the chain, never runs).
The three cases of `odd` are excepted as well.
`TouchReturns` excepts futures and programs that wait for a future semaphore
for ever, and a touch that is completed twice.

## Proofs

Every safety property and every action property of the runs is a theorem, for all
values of the constants that the assumptions of the modules allow, some under a
hypothesis that is explained below (`Corners = {}`, `Fits`). None of the
properties is inductive alone. Each proof module states an inductive invariant
`IInv`, checked with TLC on the instance of the run as well, shows that `Init`
implies it (`InitEstablishes`) and that every action keeps it, one lemma per
action or kind of action, and derives the properties from it.

### Threads, semaphores, channels, mailboxes

The theorems have the form `Corners = {} /\ Spec => []P`: they are about
programs that make no use of the corners of the API listed above, where the code
is known to go wrong. The constants are any
sets of threads, semaphores, channels, values and messages, with the main thread
among the threads, and `Op` the operations of the module.

`SemaphoresProofs`: type correctness, `NeverCorrupted`, `SuspendedStaysOut`,
`NoThreadLost`, `QueuedCanTake`, `NoIdleUnit`, `NoStuckBreak`, `DeadForever` and
the refinement `FairLines`. Whether a post may resume the head of a line depends
on why that thread is out of the group, which depends on its callback, which
depends on what interrupted it before. The inductive invariant says all of this
at once:

  - `SemaScheduling`: exactly the live threads without an interrupt callback are in
    the group; the running thread is the current one;
  - `SemaCallbacks`: the callback of a blocking operation means alive and not
    suspended, the callback `void` (or the one of `thread-suspend`) means
    suspended;
  - `Lines`: a thread stands in a line exactly when its callback is that line's;
  - `Units`: a line with a unit is empty; a dead-sema is open exactly when it
    was made and its thread is dead;
  - `Breaks`: a retry is pending only in the middle of an operation, and a
    thread that waits, or runs past its checks, has no break to raise.

The refinement proof shows for each semaphore that a step is one of the abstract
steps or leaves it alone. It needs `UnitsInOrder`: `owed` is `count` and one for
each thread that a post has resumed and that has not gone on yet, so that a
thread that finds the count positive finds a free unit, and one that joins the
line finds none. `ThreadsTheorems` has the facts on lines: what joins,
is served or leaves, and that order and absence of duplicates survive.

`ThreadsTheorems` also has the part of that argument that does not depend on what a
thread blocks in, as the invariant `ThreadInv` with one lemma per handler of
Threads; `MailboxesProofs` and `ChannelsProofs` add their own:

  - mailboxes: `Waiting`, `thread-waiting-mail?` is set exactly while the thread
    has the callback of `thread-receive`, and then its mailbox is empty. So
    `thread-send` resumes only a blocked thread. `MailInOrder` (what was received
    followed by the mailbox is what was sent) is kept by sends, receives and
    rewinds by facts on concatenation;
  - channels: `Lines` as for semaphores, with the value in the entry of a putter;
    `PutValues`, a put has given its value away exactly when it is over, and no
    two puts have the same; `GetValues`, the same for the box of a get. That a
    partner who is interrupted and retries is neither served twice nor forgotten
    is what these three say together. `NeverCorrupted` of Channels is proved like
    that of Mailboxes and has no run of its own.

### Scheduler

`SchedulerProofs`: `TypeOK`, `ChainIsList` and the action property `RoundRobin`,
from `Spec`, for any finite set of threads and any bound on the clock. That the
chain is a list is not stated by paths along the links, which would need an
induction, but by a witness: there is a function `s` on `1..num` that takes each
runnable thread once, and the links are the neighbours in `s` (`IsChain`).
`thread-group-add!` appends to `s`; `thread-group-remove!` drops the entry at a
position and shifts those behind it, with the cases of the first, the last and
the only thread; `thread-group-next!` leaves `s` alone. Who is in the list
depends on what blocks a thread, so that the inductive invariant also has

  - `Engines`: the running engine is the current thread's, and a thread not made
    yet has no state;
  - `Callbacks`: a suspended thread has a callback, and one with a callback that
    is not suspended blocks in an operation;
  - `Blocked`: threads in line and sleepers are blocked, so that a wakeup adds
    only a thread that is outside of the group;
  - `Sleepers`: the tree has exactly the threads that sleep, one under each key;
  - `Endings`: how the program ends.

All but the types is under `odd = {}`: the code keeps none of it afterwards.

`RoundRobin` is about a thread that stands `k` places after the cursor: as long
as it can run, no step makes `k` larger, and each selection of another thread
makes it smaller. Each step is shown to leave the group alone, or to add one
thread, remove one, or take the next (`GroupStep`); the three lemmas
`TurnAdded`, `TurnRemoved` and `TurnNext` follow a place in the list through
each. It is the measure behind `EveryoneRuns`: a thread at or after the cursor is
selected after at most `k` others. The threads before the cursor have no such
measure, since threads added at the end may keep the cursor from returning to
the start; this is the exception of `EveryoneRuns`.

### PlacesGC

`PlacesGCProofs`: `TypeOK`, `NeverAborts`, `StopTheWorld` and
`TokensAreForWaiters`, for any finite set of places, any initial table of more
than two slots and any number of requests. The marks of the table are not
handles. The invariant has the table (`Slots`: every member has a slot of its
own and there is room for one more; `Handles`: what the slot holds), the creation
of places (`Families`: one parent waits for one child), and `Phases`: the state is
in one of five phases of a collection, `Gathering`, `Going`, `Marking`,
`Mastering` and `Releasing`, each of which says where every place can be and
equates `ready` and the two semaphores with the number of places at a point. The
hard steps are those from one phase to the next, taken by the last place to
arrive: that it is the last follows from the counts, since a set of places as
large as another that includes it is the same set.

### PlaceChannels

`PlaceChannelsProofs`: `Ordered` proves `MessagesInOrder` from `Spec` alone, for
any number of places, any size of the ring and any number of messages. Its
invariant `RInv` gives the slot of each message by its distance from `out` (so
that no product or remainder appears in the induction) and counts the senders
that have left to allocate, which bounds the messages to come.

`TypeOK`, `ReferencesCounted` and `SleepsOnlyWithoutMessages` are proved from
`Spec /\ []Fits`. `Fits` says that a full vector of places to wake up does not
have one slot. Such a vector exists only after two registered places died before
a message arrived and a third one took the slot that is left; the next place to
register then makes the code write past the end of the vector (`place.c:3482`,
listed as a hazard), after which nothing can be promised. The invariant: a place
is registered at most once (`Distinct`), the count of an object is made of the
parent's, the place's and the channel's references (`Objects`), and a sleeping
receiver is registered (`Sleepers`), also after the dead were dropped and the
vector shrank: `Living` is shown to have the living places, each once, by
counting ranks.

### Futures

`FuturesProofs`: `TypeOK`, `QueueIsPending`, `OneRunner`, `WaitersAreKnown` and
`NobodyLeftInLine`, for any number of futures, any set of future threads and any
bounds, from `Spec` alone. The invariant `IInv` holds in every state but the one
in which a touch has just been completed twice (`Invariance`: the types always,
`IInv` as long as `Orderly`), and that only `Chain` leads there is part of the
proof (`OnlyChain`). The attempt to prove the step `Chain` is what showed the
race.

The invariant has a part for each future thread (`WorkerOK`: for each place in
its loop, what its future's status is and whether its semaphore is posted or
somebody has it), one for each future (`FutureOK`: for each status, who accounts
for it, a frame of the runtime thread, a future thread, or a place in line), and
parts for what is held once (`Unique`), for the frames of the runtime thread
(`Stacked`: a body or a primitive lies on the touch that began it, and no future
has two) and for its work in the scheduler (`Runtime`: whose semaphore is
withheld). Most steps are about one future and one future thread, and may complete
the calls of others: `Beside` says what such a step does to everybody else, and
`StepKeeps` that it keeps the invariant if it does so for the two. The facts
about the queue rest on `AtFacts`: the elements of a sequence at a set of
positions are these, in number and without duplicates, shown by counting ranks.

### Only model-checked

All liveness under fairness, which the prover does not reach: `EveryoneRuns`,
`RequestServed`, `EveryoneComesBack`, `KillTakesEffect` and `TouchReturns`.

## Not modelled, and the plan

In order:

1. *Sync*: the poll loop of `do-sync`, select waiters, `semaphore-wait/poll`,
   `channel-get/poll`, `channel-put/poll`, interrupt, retry, abandon and
   timeouts; "exactly one event is selected". At this commit the code has
   several defects that such a model must except one by one, see below.
2. *FutureGC*: the handshake with which a garbage collection stops the future
   threads (`wait_for_gc`, `gc_not_ok`), and `WAITING_FOR_OVERFLOW`.
3. *Queue* and *Tree*: the linked nodes of `queue.rkt` as a refinement of
   `WaitQueue`, `tree.rkt` (with its rotations) against a sorted map.
4. Nested threads (break forwarding), suspend and resume events, the system idle
   event; place messages (copying between spaces), `place-break` and pausing.

Seen in the code while modelling, and reached by no module:

  - `thread/thread.rkt:529`: a second `break-thread` while a break is pending
    applies the result of `unless`, an error in the calling thread;
  - `thread/channel.rkt:149`: `channel-put/poll` removes a waiting getter from
    the line and, when only polling, gives it no value;
  - `thread/sync.rkt:33`: `make-syncer` passes the wraps in the place of the
    interrupts;
  - `thread/sync.rkt:85`: the relative timeout is compared with the clock;
  - `thread/sync.rkt:349`: after a wakeup by its timer the callback of a
    syncing thread is still installed, so that a post before the thread runs
    resumes it a second time;
  - `thread/nested-thread.rkt:58`: a break between the end of a nested thread
    and the reset of `forward-break-to` goes to the dead nested thread;
  - `racket/gc2/places_gc.c:393`: during boot the original place may check for
    requests before its handle is in the table;
  - `racket/src/place.c:2522`: a break is overwritten when a pause is pending as
    well; `place.c:2556`: `parent_signal_handle` is read without the lock;
  - `racket/src/future.c:2132`: a touch in a future thread returns NULL for a
    future that was aborted.

Left out for good: the host's engines (their three callbacks are modelled),
custodians of the green-thread layer (stubs at this commit), plumbers, parameter
objects and contract checks (`check who ...`), which change no shared state.
The recursive functions of the tree are outside of TLAPS and stay with TLC.
