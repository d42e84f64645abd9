----------------------------- MODULE Channels ------------------------------
(***************************************************************************)
(* Rendezvous channels (racket/src/thread/channel.rkt): channel-get and    *)
(* channel-put over the threads of module Threads, which other threads     *)
(* break, suspend, resume and kill.  Nobody uses thread-wait here, so no   *)
(* thread stands in line for the end of another one.                       *)
(***************************************************************************)
EXTENDS Threads, WaitQueue

CONSTANTS
  Channel,
  Value,    \* what the program puts; it puts each value once
  NoValue   \* the #f of a box that nothing was put into

\* The blocking operations of this module.
GetOp(c) == [kind |-> "get", ch |-> c]
PutOp(c, v) == [kind |-> "put", ch |-> c, val |-> v]
ChannelOps == {GetOp(c) : c \in Channel} \cup {PutOp(c, v) : c \in Channel, v \in Value}

ASSUME ChannelsAssumption == Op = ChannelOps /\ NoValue \notin Value

VARIABLES
  getQueue,  \* channel-get-queue: threads, each with the box of its call
  putQueue,  \* channel-put-queue: pairs of a thread and its value
  box,       \* box[t]: the box of t's channel-get
  puts,      \* the values that were put or are being put
  delivered  \* delivered[v]: how often a getter was given v

channelVars == <<getQueue, putQueue, box, puts, delivered>>
vars == <<threadVars, channelVars>>

Pair(t, v) == [thr |-> t, val |-> v]
Pairs == {Pair(t, v) : t \in Thread, v \in Value}

TypeOK ==
  /\ ThreadTypeOK
  /\ getQueue \in [Channel -> Seq(Thread)]
  /\ putQueue \in [Channel -> Seq(Pairs)]
  /\ box \in [Thread -> Value \cup {NoValue}]
  /\ puts \subseteq Value
  /\ delivered \in [Value -> Nat]

Init ==
  /\ ThreadInit
  /\ getQueue = [c \in Channel |-> MakeQueue]
  /\ putQueue = [c \in Channel |-> MakeQueue]
  /\ box = [t \in Thread |-> NoValue]
  /\ puts = {}
  /\ delivered = [v \in Value |-> 0]

Getting(t) == op[t] # NoOp /\ op[t].kind = "get"
Putting(t) == op[t] # NoOp /\ op[t].kind = "put"

----------------------------------------------------------------------------
\* t enters operation o: a new call, or the retry after an interruption.
\* A new put has a value of its own.
Calls(t, o) ==
  \/ /\ Running(t, "run")
     /\ o.kind = "put" => o.val \notin puts
  \/ Running(t, "enter") /\ o = op[t]

\* (channel-get c) meets a waiting put: it takes the value and resumes the
\* putter.
GetNow(t, c) ==
  /\ Calls(t, GetOp(c)) /\ ~QueueEmpty(putQueue[c])
  /\ LET p == Head(putQueue[c])
     IN  /\ Proceed(t, {p.thr})
         /\ delivered' = [delivered EXCEPT ![p.val] = @ + 1]
  /\ putQueue' = [putQueue EXCEPT ![c] = QueueRemove(@)]
  /\ UNCHANGED <<getQueue, box, puts>>

\* (channel-get c) finds nobody and gets in line.
GetBlock(t, c) ==
  /\ Calls(t, GetOp(c)) /\ QueueEmpty(putQueue[c])
  /\ getQueue' = [getQueue EXCEPT ![c] = QueueAdd(@, t)]
  /\ Block(t, GetOp(c))
  /\ UNCHANGED <<putQueue, box, puts, delivered>>

\* Mutant: the box of the getter is left as it is.
BuggyPutNow(t, c, v) ==
  /\ Calls(t, PutOp(c, v)) /\ ~QueueEmpty(getQueue[c])
  /\ Proceed(t, {Head(getQueue[c])})
  /\ delivered' = [delivered EXCEPT ![v] = @ + 1]
  /\ puts' = puts \cup {v}
  /\ getQueue' = [getQueue EXCEPT ![c] = QueueRemove(@)]
  /\ UNCHANGED <<putQueue, box>>

\* (channel-put c v) meets a waiting get: it fills the getter's box.
PutNow(t, c, v) ==
  /\ Calls(t, PutOp(c, v)) /\ ~QueueEmpty(getQueue[c])
  /\ LET g == Head(getQueue[c])
     IN  /\ Proceed(t, {g})
         /\ box' = [box EXCEPT ![g] = v]
  /\ delivered' = [delivered EXCEPT ![v] = @ + 1]
  /\ puts' = puts \cup {v}
  /\ getQueue' = [getQueue EXCEPT ![c] = QueueRemove(@)]
  /\ UNCHANGED putQueue

\* Mutant: a put does not look for a waiting get.
BuggyPutBlock(t, c, v) ==
  /\ Calls(t, PutOp(c, v))
  /\ putQueue' = [putQueue EXCEPT ![c] = QueueAdd(@, Pair(t, v))]
  /\ puts' = puts \cup {v}
  /\ Block(t, PutOp(c, v))
  /\ UNCHANGED <<getQueue, box, delivered>>

\* Mutant: the thread gets in line without its value.
BarePutBlock(t, c, v) ==
  /\ Calls(t, PutOp(c, v)) /\ QueueEmpty(getQueue[c])
  /\ putQueue' = [putQueue EXCEPT ![c] = QueueAdd(@, t)]
  /\ puts' = puts \cup {v}
  /\ Block(t, PutOp(c, v))
  /\ UNCHANGED <<getQueue, box, delivered>>

\* (channel-put c v) finds nobody and gets in line.
PutBlock(t, c, v) ==
  /\ Calls(t, PutOp(c, v)) /\ QueueEmpty(getQueue[c])
  /\ putQueue' = [putQueue EXCEPT ![c] = QueueAdd(@, Pair(t, v))]
  /\ puts' = puts \cup {v}
  /\ Block(t, PutOp(c, v))
  /\ UNCHANGED <<getQueue, box, delivered>>

----------------------------------------------------------------------------
\* Mutant: the callback of channel-put is missing.
BuggyInterrupt(u) ==
  /\ getQueue' = IF intr[u] = "wait" /\ Getting(u)
                   THEN [getQueue EXCEPT ![op[u].ch] = GetOutOfLine(@, u)]
                   ELSE getQueue
  /\ UNCHANGED putQueue

\* The interrupt callback of u, if it is blocked in a get or a put.
Interrupt(u) ==
  /\ getQueue' = IF intr[u] = "wait" /\ Getting(u)
                   THEN [getQueue EXCEPT ![op[u].ch] = GetOutOfLine(@, u)]
                   ELSE getQueue
  /\ putQueue' = IF intr[u] = "wait" /\ Putting(u)
                   THEN [putQueue EXCEPT ![op[u].ch] =
                           GetOutOfLine(@, Pair(u, op[u].val))]
                   ELSE putQueue

\* The box of a call lives as long as the call.
DropBoxes == box' = [t \in Thread |-> IF op'[t] = NoOp THEN NoValue ELSE box[t]]

FinishThread(t) == Finish(t, {}) /\ UNCHANGED channelVars

Kill(t, u) ==
  KillThread(t, u, {}) /\ Interrupt(u) /\ DropBoxes /\ UNCHANGED <<puts, delivered>>

Suspend(t, u) ==
  ThreadSuspend(t, u) /\ Interrupt(u) /\ UNCHANGED <<box, puts, delivered>>

\* The lines after do-break-thread.
BreakLines(u) ==
  /\ IF suspended[u] THEN UNCHANGED <<getQueue, putQueue>> ELSE Interrupt(u)
  /\ UNCHANGED <<box, puts, delivered>>

Break(t, u) == BreakThread(t, u) /\ BreakLines(u)

CtlCBreak == CtlC /\ BreakLines(Main)

\* The steps of one thread that leave the lines alone; the end of a call, or
\* an escape from it, drops its box.
ThreadStep(t) ==
  \/ SwapIn(t) \/ Preempt(t) \/ EngineBlock(t)
  \/ CheckForRetryingBreak(t) \/ CheckBreak(t)
  \/ \E on \in BOOLEAN : SetBreakEnabled(t, on)
  \/ \E u \in Thread : MakeThread(t, u) \/ ThreadResume(t, u)

Next ==
  \/ \E t \in Thread :
       ThreadStep(t) /\ DropBoxes /\ UNCHANGED <<getQueue, putQueue, puts, delivered>>
  \/ \E t \in Thread : FinishThread(t)
  \/ \E t, u \in Thread : Kill(t, u) \/ Suspend(t, u) \/ Break(t, u)
  \/ \E t \in Thread, c \in Channel : GetNow(t, c) \/ GetBlock(t, c)
  \/ \E t \in Thread, c \in Channel, v \in Value : PutNow(t, c, v) \/ PutBlock(t, c, v)
  \/ CtlCBreak

Spec == Init /\ [][Next]_vars

----------------------------------------------------------------------------
(* Properties.                                                             *)

InLine(t) ==
  \/ \E c \in Channel : t \in ToSet(getQueue[c])
  \/ \E c \in Channel : \E p \in ToSet(putQueue[c]) : p.thr = t

\* t is inside of a get or a put, and its partner has come: it is out of the
\* line and will not retry.
Matched(t) == pc[t] \in {"block", "woken"} /\ ~InLine(t) /\ ~needsRetry[t]

\* channels.scrbl: a put and a get are a rendezvous.  A put that will return
\* has given its value to exactly one getter, and a put that is still in line,
\* or will retry after a break or a suspend, has given it to nobody.
PutExactlyOnce ==
  /\ \A v \in Value : delivered[v] <= 1
  /\ \A t \in Thread :
       Putting(t) /\ Live(t) =>
         delivered[op[t].val] = IF Matched(t) THEN 1 ELSE 0

\* A get that will return has a value, a get that will retry has none yet,
\* and no two getters have the same value.
GetHasValue ==
  /\ \A t \in Thread :
       Getting(t) /\ Live(t) => (box[t] # NoValue <=> Matched(t))
  /\ \A t, u \in Thread : t # u /\ box[t] # NoValue => box[t] # box[u]

\* A get and a put never wait for each other on the same channel.
NobodyMissesPartner ==
  \A c \in Channel : getQueue[c] = <<>> \/ putQueue[c] = <<>>

\* Only live threads that are blocked in a get or a put, and not suspended,
\* stand in a line; nobody else is kept out of the thread group.
LinesAreWaiters ==
  \A t \in Thread :
    InLine(t) <=> Live(t) /\ ~suspended[t] /\ t \notin group

\* No operation corrupts the thread group or resumes a dead thread.
NeverCorrupted == status \in {"up", "exit"}
=============================================================================
