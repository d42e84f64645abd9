-------------------------- MODULE ChannelsProofs ---------------------------
(***************************************************************************)
(* Proofs, for any sets of threads, channels and values, of the properties *)
(* of module Channels, for programs that make no use of the corners of the *)
(* API.  The facts about threads come from ThreadsTheorems.                *)
(***************************************************************************)
EXTENDS Channels, ThreadsTheorems

----------------------------------------------------------------------------
(* The inductive invariant.                                                *)

\* A thread stands in a line of a channel if and only if its callback is that
\* of a get or a put on this channel.
Lines ==
  \A c \in Channel :
    /\ NoDuplicates(getQueue[c]) /\ NoDuplicates(putQueue[c])
    /\ \A t \in Thread :
         t \in ToSet(getQueue[c]) <=> intr[t] = "wait" /\ op[t] = GetOp(c)
    /\ \A t \in Thread, v \in Value :
         Pair(t, v) \in ToSet(putQueue[c]) <=> intr[t] = "wait" /\ op[t] = PutOp(c, v)

\* A put has given its value away if and only if it is over, and its value is
\* its own.
PutValues ==
  /\ \A v \in Value : delivered[v] \in {0, 1} /\ (v \notin puts => delivered[v] = 0)
  /\ \A t \in Thread :
       Putting(t) => /\ op[t].val \in puts
                     /\ delivered[op[t].val] = IF Over(t) THEN 1 ELSE 0
  /\ \A t, u \in Thread : t # u /\ Putting(t) /\ Putting(u) => op[t].val # op[u].val

\* A get has a value if and only if it is over, and its value is its own.
GetValues ==
  /\ \A t \in Thread : box[t] # NoValue => Getting(t) /\ delivered[box[t]] = 1
  /\ \A t \in Thread : Getting(t) => (box[t] # NoValue <=> Over(t))
  /\ \A t, u \in Thread : t # u /\ box[t] # NoValue => box[t] # box[u]

IInv ==
  TypeOK /\ ThreadInv /\ Lines /\ NobodyMissesPartner /\ PutValues /\ GetValues

----------------------------------------------------------------------------
(* Facts about operations and lines.                                       *)

\* An operation is a get or a put, never both.
LEMMA OpKinds ==
  /\ \A c \in Channel : /\ GetOp(c) \in Op /\ GetOp(c) # NoOp
                        /\ GetOp(c).kind = "get" /\ GetOp(c).ch = c
  /\ \A c \in Channel, v \in Value :
       /\ PutOp(c, v) \in Op /\ PutOp(c, v) # NoOp
       /\ PutOp(c, v).kind = "put" /\ PutOp(c, v).ch = c /\ PutOp(c, v).val = v
  /\ \A o \in Op :
       \/ /\ o.kind = "get" /\ o.ch \in Channel /\ o = GetOp(o.ch)
       \/ /\ o.kind = "put" /\ o.ch \in Channel /\ o.val \in Value
          /\ o = PutOp(o.ch, o.val)
<1>1. \A c \in Channel : GetOp(c) \in ChannelOps
  BY DEF ChannelOps
<1>2. \A c \in Channel, v \in Value : PutOp(c, v) \in ChannelOps
  BY DEF ChannelOps
<1>3. \A o \in ChannelOps : \/ \E c \in Channel : o = GetOp(c)
                            \/ \E c \in Channel, v \in Value : o = PutOp(c, v)
  BY DEF ChannelOps
<1>4. \A c \in Channel : GetOp(c).kind = "get" /\ GetOp(c).ch = c
  BY DEF GetOp
<1>5. \A c \in Channel, v \in Value :
        PutOp(c, v).kind = "put" /\ PutOp(c, v).ch = c /\ PutOp(c, v).val = v
  BY DEF PutOp
<1> QED
  BY <1>1, <1>2, <1>3, <1>4, <1>5, ThreadsAssumption, ChannelsAssumption

\* A pair holds its thread and its value.
LEMMA PairFacts ==
  /\ \A t \in Thread, v \in Value :
       Pair(t, v) \in Pairs /\ Pair(t, v).thr = t /\ Pair(t, v).val = v
  /\ \A p \in Pairs : p.thr \in Thread /\ p.val \in Value /\ p = Pair(p.thr, p.val)
  BY DEF Pair, Pairs

\* What the type invariant says of the operation of a thread.
LEMMA OpOfThread ==
  ASSUME ThreadTypeOK, NEW t \in Thread
  PROVE  /\ Getting(t) => op[t].ch \in Channel /\ op[t] = GetOp(op[t].ch)
         /\ Putting(t) => /\ op[t].ch \in Channel /\ op[t].val \in Value
                          /\ op[t] = PutOp(op[t].ch, op[t].val)
         /\ ~(Getting(t) /\ Putting(t))
         /\ op[t] \in Op => Getting(t) \/ Putting(t)
<1>1. op[t] \in Op \/ op[t] = NoOp
  BY DEF ThreadTypeOK
<1> QED
  BY <1>1, OpKinds, ThreadsAssumption DEF Getting, Putting

\* The initial state satisfies the invariant.
LEMMA InitEstablishes ==
  Init => IInv
<1> SUFFICES ASSUME Init PROVE IInv
  OBVIOUS
<1>1. ThreadInv
  BY ThreadInitEstablishes DEF Init
<1>2. TypeOK
  BY <1>1 DEF Init, TypeOK, ThreadInv, MakeQueue
<1>3. Lines
  BY EmptyLine, PairFacts DEF Init, ThreadInit, Lines
<1>4. NobodyMissesPartner
  BY DEF Init, NobodyMissesPartner, MakeQueue
<1>5. PutValues /\ GetValues
  BY DEF Init, ThreadInit, PutValues, GetValues, Getting, Putting
<1> QED
  BY <1>1, <1>2, <1>3, <1>4, <1>5 DEF IInv

\* The interrupt callback of u takes u out of its line, and nobody else out
\* of any.
LEMMA InterruptLines ==
  ASSUME IInv, NEW u \in Thread, Interrupt(u)
  PROVE  /\ getQueue' \in [Channel -> Seq(Thread)]
         /\ putQueue' \in [Channel -> Seq(Pairs)]
         /\ \A c \in Channel :
              /\ NoDuplicates(getQueue'[c]) /\ NoDuplicates(putQueue'[c])
              /\ ToSet(getQueue'[c]) = ToSet(getQueue[c]) \ {u}
              /\ ToSet(putQueue'[c]) \subseteq ToSet(putQueue[c])
              /\ \A t \in Thread, v \in Value :
                   Pair(t, v) \in ToSet(putQueue'[c]) <=>
                     Pair(t, v) \in ToSet(putQueue[c]) /\ t # u
<1>0. /\ getQueue \in [Channel -> Seq(Thread)] /\ putQueue \in [Channel -> Seq(Pairs)]
      /\ ThreadTypeOK
  BY DEF IInv, TypeOK
<1>1. CASE intr[u] = "wait" /\ Getting(u)
  <2> DEFINE d == op[u].ch
  <2>1. d \in Channel /\ op[u] = GetOp(d) /\ ~Putting(u)
    BY <1>0, <1>1, OpOfThread
  <2> HIDE DEF d
  <2>2. u \in ToSet(getQueue[d]) /\ NoDuplicates(getQueue[d])
    BY <1>1, <2>1 DEF IInv, Lines
  <2>3. /\ GetOutOfLine(getQueue[d], u) \in Seq(Thread)
        /\ ToSet(GetOutOfLine(getQueue[d], u)) = ToSet(getQueue[d]) \ {u}
        /\ NoDuplicates(GetOutOfLine(getQueue[d], u))
    BY <1>0, <2>1, <2>2, LeaveLine
  <2>4. /\ getQueue' = [getQueue EXCEPT ![d] = GetOutOfLine(getQueue[d], u)]
        /\ putQueue' = putQueue
    BY <1>1, <2>1 DEF Interrupt, d
  <2>5. \A c \in Channel : c # d => u \notin ToSet(getQueue[c])
    BY <2>1, OpKinds DEF IInv, Lines
  <2>6. \A c \in Channel, v \in Value : Pair(u, v) \notin ToSet(putQueue[c])
    BY <2>1, OpKinds DEF IInv, Lines
  <2> QED
    BY <1>0, <2>1, <2>3, <2>4, <2>5, <2>6 DEF IInv, Lines
<1>2. CASE intr[u] = "wait" /\ Putting(u)
  <2> DEFINE d == op[u].ch
             p == Pair(u, op[u].val)
  <2>1. /\ d \in Channel /\ op[u].val \in Value /\ op[u] = PutOp(d, op[u].val)
        /\ ~Getting(u)
    BY <1>0, <1>2, OpOfThread
  <2>2. p \in ToSet(putQueue[d]) /\ NoDuplicates(putQueue[d])
    BY <1>2, <2>1 DEF IInv, Lines
  <2> HIDE DEF d
  <2>3. /\ GetOutOfLine(putQueue[d], p) \in Seq(Pairs)
        /\ ToSet(GetOutOfLine(putQueue[d], p)) = ToSet(putQueue[d]) \ {p}
        /\ NoDuplicates(GetOutOfLine(putQueue[d], p))
    BY <1>0, <2>1, <2>2, LeaveLine
  <2>4. /\ putQueue' = [putQueue EXCEPT ![d] = GetOutOfLine(putQueue[d], p)]
        /\ getQueue' = getQueue
    BY <1>2, <2>1 DEF Interrupt, d
  <2>5. \A c \in Channel : u \notin ToSet(getQueue[c])
    BY <2>1, OpKinds DEF IInv, Lines
  <2>6. \A c \in Channel, v \in Value :
          Pair(u, v) \in ToSet(putQueue[c]) => c = d /\ Pair(u, v) = p
    BY <2>1, OpKinds DEF IInv, Lines
  <2>7. \A t \in Thread, v \in Value : Pair(t, v) = p => t = u
    BY <2>1, PairFacts
  <2> HIDE DEF p
  <2>8. ASSUME NEW c \in Channel
        PROVE  /\ NoDuplicates(putQueue'[c])
               /\ ToSet(putQueue'[c]) = ToSet(putQueue[c]) \ (IF c = d THEN {p} ELSE {})
    BY <1>0, <2>3, <2>4 DEF IInv, Lines
  <2>9. ASSUME NEW c \in Channel, NEW t \in Thread, NEW v \in Value
        PROVE  Pair(t, v) \in ToSet(putQueue'[c]) <=>
                 Pair(t, v) \in ToSet(putQueue[c]) /\ t # u
    BY <2>6, <2>7, <2>8
  <2>10. getQueue' \in [Channel -> Seq(Thread)] /\ putQueue' \in [Channel -> Seq(Pairs)]
    BY <1>0, <2>3, <2>4
  <2> QED
    BY <2>4, <2>5, <2>8, <2>9, <2>10 DEF IInv, Lines
<1>3. CASE intr[u] # "wait"
  <2>1. getQueue' = getQueue /\ putQueue' = putQueue
    BY <1>3 DEF Interrupt
  <2>2. \A c \in Channel : /\ u \notin ToSet(getQueue[c])
                           /\ \A v \in Value : Pair(u, v) \notin ToSet(putQueue[c])
    BY <1>3 DEF IInv, Lines
  <2> QED
    BY <1>0, <2>1, <2>2 DEF IInv, Lines
<1>4. intr[u] = "wait" => Getting(u) \/ Putting(u)
  BY <1>0, OpOfThread DEF IInv, ThreadInv, Callbacks
<1> QED
  BY <1>1, <1>2, <1>3, <1>4

----------------------------------------------------------------------------
(* The steps.                                                              *)

\* A step that takes the threads of I out of their lines, and drops the boxes
\* of the calls that end.
LEMMA InterruptKeeps ==
  ASSUME IInv, ThreadInv', NEW I, Interrupts(I), UNCHANGED <<puts, delivered>>,
         \A t \in Thread : box'[t] = IF op'[t] = NoOp THEN NoValue ELSE box[t],
         box' \in [Thread -> Value \cup {NoValue}],
         getQueue' \in [Channel -> Seq(Thread)],
         putQueue' \in [Channel -> Seq(Pairs)],
         \A c \in Channel :
           /\ NoDuplicates(getQueue'[c]) /\ NoDuplicates(putQueue'[c])
           /\ ToSet(getQueue'[c]) = ToSet(getQueue[c]) \ I
           /\ ToSet(putQueue'[c]) \subseteq ToSet(putQueue[c])
           /\ \A t \in Thread, v \in Value :
                Pair(t, v) \in ToSet(putQueue'[c]) <=>
                  Pair(t, v) \in ToSet(putQueue[c]) /\ t \notin I
  PROVE  IInv'
<1>0. /\ getQueue \in [Channel -> Seq(Thread)] /\ putQueue \in [Channel -> Seq(Pairs)]
      /\ ThreadTypeOK /\ ThreadTypeOK'
  BY DEF IInv, TypeOK, ThreadInv
<1>a. \A t \in Thread :
        /\ intr'[t] = "wait" <=> intr[t] = "wait" /\ t \notin I
        /\ \/ op'[t] = op[t] /\ (op[t] # NoOp => (Over(t)' <=> Over(t)))
           \/ op'[t] = NoOp
  BY DEF Interrupts
<1>b. \A t \in Thread : intr'[t] = "wait" => op'[t] = op[t] /\ op[t] # NoOp
  BY <1>a, ThreadsAssumption DEF ThreadInv, Callbacks
<1>1. TypeOK'
  BY <1>0 DEF IInv, TypeOK
<1>2. Lines'
  <2> SUFFICES ASSUME NEW c \in Channel
               PROVE  /\ \A t \in Thread :
                           t \in ToSet(getQueue'[c]) <=> intr'[t] = "wait" /\ op'[t] = GetOp(c)
                      /\ \A t \in Thread, v \in Value :
                           Pair(t, v) \in ToSet(putQueue'[c]) <=>
                             intr'[t] = "wait" /\ op'[t] = PutOp(c, v)
    BY DEF Lines
  <2>0. /\ ToSet(getQueue'[c]) = ToSet(getQueue[c]) \ I
        /\ \A t \in Thread : t \in ToSet(getQueue[c]) <=> intr[t] = "wait" /\ op[t] = GetOp(c)
    BY DEF IInv, Lines
  <2>1. \A t \in Thread : intr[t] = "wait" /\ t \notin I => op'[t] = op[t]
    BY <1>a, <1>b
  <2>2. ASSUME NEW t \in Thread
        PROVE  t \in ToSet(getQueue'[c]) <=> intr'[t] = "wait" /\ op'[t] = GetOp(c)
    BY <1>a, <1>b, <2>0, <2>1
  <2>3. ASSUME NEW t \in Thread, NEW v \in Value
        PROVE  Pair(t, v) \in ToSet(putQueue'[c]) <=>
                 intr'[t] = "wait" /\ op'[t] = PutOp(c, v)
    BY <1>a, <1>b, <2>1 DEF IInv, Lines
  <2> QED
    BY <2>2, <2>3
<1>3. NobodyMissesPartner'
  <2> SUFFICES ASSUME NEW c \in Channel PROVE getQueue'[c] = <<>> \/ putQueue'[c] = <<>>
    BY DEF NobodyMissesPartner
  <2>1. CASE getQueue[c] = <<>>
    BY <1>0, <2>1, EmptyLineSet
  <2>2. CASE putQueue[c] = <<>>
    BY <1>0, <2>2, EmptyLineSet
  <2> QED
    BY <2>1, <2>2 DEF IInv, NobodyMissesPartner
<1>c. \A t \in Thread : /\ Putting(t)' => Putting(t) /\ op'[t] = op[t] /\ (Over(t)' <=> Over(t))
                        /\ Getting(t)' => Getting(t) /\ op'[t] = op[t] /\ (Over(t)' <=> Over(t))
                        /\ Getting(t) => Getting(t)' \/ op'[t] = NoOp
  BY <1>a DEF Getting, Putting
<1>4. PutValues'
  BY <1>c DEF IInv, PutValues
<1>5. GetValues'
  <2>1. \A t \in Thread : box'[t] # NoValue => Getting(t)' /\ box'[t] = box[t]
    BY <1>c DEF IInv, GetValues
  <2>2. \A t \in Thread : Getting(t)' => box'[t] = box[t]
    BY DEF Getting
  <2>3. \A t \in Thread : box'[t] # NoValue => Getting(t)' /\ delivered'[box'[t]] = 1
    BY <2>1 DEF IInv, GetValues
  <2>4. \A t \in Thread : Getting(t)' => (box'[t] # NoValue <=> Over(t)')
    BY <1>c, <2>2 DEF IInv, GetValues
  <2>5. \A t, v \in Thread : t # v /\ box'[t] # NoValue => box'[t] # box'[v]
    BY <2>1 DEF IInv, GetValues
  <2> QED
    BY <2>3, <2>4, <2>5 DEF GetValues
<1> QED
  BY <1>1, <1>2, <1>3, <1>4, <1>5 DEF IInv

\* The interrupt callback of u in a step that ends no call.
LEMMA CallbackKeeps ==
  ASSUME IInv, ThreadInv', NEW u \in Thread, Interrupts({u}), Interrupt(u),
         UNCHANGED <<box, puts, delivered, op>>
  PROVE  IInv'
<1>1. /\ \A t \in Thread : box'[t] = IF op'[t] = NoOp THEN NoValue ELSE box[t]
      /\ box' \in [Thread -> Value \cup {NoValue}]
  BY DEF IInv, TypeOK, GetValues, Getting
<1> QED
  BY <1>1, InterruptLines, InterruptKeeps

\* A step that leaves the lines alone.
LEMMA QuietKeeps ==
  ASSUME IInv, ThreadInv', Interrupts({}), UNCHANGED <<getQueue, putQueue, puts, delivered>>,
         \A t \in Thread : box'[t] = IF op'[t] = NoOp THEN NoValue ELSE box[t],
         box' \in [Thread -> Value \cup {NoValue}]
  PROVE  IInv'
<1>1. getQueue \in [Channel -> Seq(Thread)] /\ putQueue \in [Channel -> Seq(Pairs)]
  BY DEF IInv, TypeOK
<1>2. \A c \in Channel : NoDuplicates(getQueue[c]) /\ NoDuplicates(putQueue[c])
  BY DEF IInv, Lines
<1> QED
  BY <1>1, <1>2, InterruptKeeps

\* The steps of the scheduler and of thread.rkt that leave the lines alone.
LEMMA ThreadStepKeeps ==
  ASSUME Corners = {}, IInv, NEW t \in Thread, ThreadStep(t), DropBoxes,
         UNCHANGED <<getQueue, putQueue, puts, delivered>>
  PROVE  IInv'
<1>0. ThreadInv
  BY DEF IInv
<1>1. ThreadInv' /\ Interrupts({})
  <2>1. CASE SwapIn(t) \/ Preempt(t) \/ EngineBlock(t) \/ CheckBreak(t) \/ CheckForRetryingBreak(t)
    BY <1>0, <2>1, SwapInKeeps, PreemptKeeps, EngineBlockKeeps, CheckBreakKeeps,
       CheckForRetryingBreakKeeps
  <2>2. ASSUME NEW on \in BOOLEAN, SetBreakEnabled(t, on)
        PROVE  ThreadInv' /\ Interrupts({})
    BY <1>0, <2>2, SetBreakEnabledKeeps
  <2>3. ASSUME NEW u \in Thread, MakeThread(t, u) \/ ThreadResume(t, u)
        PROVE  ThreadInv' /\ Interrupts({})
    BY <1>0, <2>3, MakeThreadKeeps, ThreadResumeKeeps
  <2> QED
    BY <2>1, <2>2, <2>3 DEF ThreadStep
<1>2. /\ \A v \in Thread : box'[v] = IF op'[v] = NoOp THEN NoValue ELSE box[v]
      /\ box' \in [Thread -> Value \cup {NoValue}]
  BY DEF DropBoxes, IInv, TypeOK
<1> QED
  BY <1>1, <1>2, QuietKeeps

\* kill-thread: the call of u ends.
LEMMA KillKeeps ==
  ASSUME Corners = {}, IInv, NEW t \in Thread, NEW u \in Thread, Kill(t, u)
  PROVE  IInv'
<1>1. ThreadInv' /\ Interrupts({u})
  BY KillThreadKeeps DEF Kill, IInv
<1>2. /\ \A v \in Thread : box'[v] = IF op'[v] = NoOp THEN NoValue ELSE box[v]
      /\ box' \in [Thread -> Value \cup {NoValue}]
  BY DEF Kill, DropBoxes, IInv, TypeOK
<1> QED
  BY <1>1, <1>2, InterruptLines, InterruptKeeps DEF Kill

\* do-break-thread and its effect on the lines.
LEMMA BreakLinesKeeps ==
  ASSUME IInv, ThreadInv', NEW u \in Thread, Interrupts({u}), BreakLines(u), op' = op
  PROVE  IInv'
<1>1. CASE suspended[u]
  <2>1. Interrupts({})
    BY <1>1 DEF Interrupts, IInv, ThreadInv, Callbacks
  <2>2. /\ \A t \in Thread : box'[t] = IF op'[t] = NoOp THEN NoValue ELSE box[t]
        /\ box' \in [Thread -> Value \cup {NoValue}]
    BY DEF BreakLines, IInv, TypeOK, GetValues, Getting
  <2> QED
    BY <1>1, <2>1, <2>2, QuietKeeps DEF BreakLines
<1>2. CASE ~suspended[u]
  BY <1>2, CallbackKeeps DEF BreakLines
<1> QED
  BY <1>1, <1>2

\* A thread that enters a call has no value yet.
LEMMA CallerHasNoBox ==
  ASSUME IInv, NEW t \in Thread, Running(t, "run") \/ Running(t, "enter")
  PROVE  box[t] = NoValue /\ ~Over(t) /\ intr[t] = "none"
<1>1. ~Over(t)
  BY DEF Running, Over
<1>2. intr[t] = "none"
  BY DEF Running, IInv, ThreadInv, Scheduling
<1> QED
  BY <1>1, <1>2 DEF IInv, GetValues

\* The value of a put that is entered is given to nobody yet, and is no other
\* put's.
LEMMA CallersValue ==
  ASSUME IInv, NEW t \in Thread, NEW c \in Channel, NEW v \in Value,
         Calls(t, PutOp(c, v))
  PROVE  /\ Running(t, "run") \/ Running(t, "enter")
         /\ delivered[v] = 0
         /\ \A u \in Thread : u # t /\ Putting(u) => op[u].val # v
         /\ \A u \in Thread : box[u] # v
<1>1. Running(t, "run") \/ Running(t, "enter")
  BY DEF Calls
<1>2. CASE Running(t, "run")
  <2>1. v \notin puts
    BY <1>2, OpKinds DEF Calls, Running
  <2> QED
    BY <1>1, <2>1, ChannelsAssumption DEF IInv, PutValues, GetValues
<1>3. CASE Running(t, "enter")
  <2>1. op[t] = PutOp(c, v) /\ Putting(t) /\ op[t].val = v
    BY <1>3, OpKinds DEF Calls, Running, Putting
  <2>2. ~Over(t)
    BY <1>1, CallerHasNoBox
  <2>3. delivered[v] = 0
    BY <2>1, <2>2 DEF IInv, PutValues
  <2> QED
    BY <1>1, <2>1, <2>3, ChannelsAssumption DEF IInv, PutValues, GetValues
<1> QED
  BY <1>1, <1>2, <1>3

\* channel-get that meets a waiting put.
LEMMA GetNowKeeps ==
  ASSUME IInv, NEW t \in Thread, NEW c \in Channel, GetNow(t, c)
  PROVE  IInv'
<1> DEFINE p == Head(putQueue[c])
           r == QueueRemove(putQueue[c])
<1>0. /\ getQueue \in [Channel -> Seq(Thread)] /\ putQueue \in [Channel -> Seq(Pairs)]
      /\ op \in [Thread -> Op \cup {NoOp}] /\ delivered \in [Value -> Nat]
      /\ putQueue[c] # <<>> /\ NoDuplicates(putQueue[c])
  BY DEF IInv, TypeOK, ThreadTypeOK, GetNow, QueueEmpty, Lines
<1>a. /\ r \in Seq(Pairs) /\ p \in ToSet(putQueue[c])
      /\ ToSet(r) = ToSet(putQueue[c]) \ {p} /\ NoDuplicates(r)
  BY <1>0, RemoveFromLine
<1>b. PICK w \in Thread, x \in Value : p = Pair(w, x) /\ p.thr = w /\ p.val = x
  <2>1. p \in Pairs
    BY <1>0, <1>a, EmptyLineSet
  <2> QED
    BY <2>1, PairFacts
<1>c. /\ Proceed(t, {w})
      /\ delivered' = [delivered EXCEPT ![x] = @ + 1]
      /\ putQueue' = [putQueue EXCEPT ![c] = r]
      /\ UNCHANGED <<getQueue, box, puts>>
  BY <1>b DEF GetNow
<1>d. Running(t, "run") \/ Running(t, "enter")
  BY DEF GetNow, Calls
<1> HIDE DEF p, r
<1>e. intr[w] = "wait" /\ op[w] = PutOp(c, x)
  BY <1>a, <1>b DEF IInv, Lines
<1>f. /\ ThreadInv'
      /\ t # w /\ intr[t] = "none"
      /\ \A v \in Thread : intr'[v] = "wait" <=> intr[v] = "wait" /\ v # w
      /\ op' = [op EXCEPT ![t] = NoOp]
      /\ Over(w)'
      /\ \A v \in Thread : v # w /\ v # t => (Over(v)' <=> Over(v))
  <2> DEFINE W == {w}
  <2>1. W \in SUBSET Thread /\ \A v \in W : intr[v] = "wait"
    BY <1>b, <1>e
  <2>2. ThreadInv /\ Proceed(t, W)
    BY <1>c DEF IInv
  <2>3. \A v : v \in W <=> v = w
    OBVIOUS
  <2> HIDE DEF W
  <2>4. /\ ThreadInv' /\ t \notin W /\ intr[t] = "none"
        /\ \A v \in Thread : intr'[v] = "wait" <=> intr[v] = "wait" /\ v \notin W
        /\ op' = [op EXCEPT ![t] = NoOp]
        /\ \A v \in W : Over(v)'
        /\ \A v \in Thread \ W : v # t => (Over(v)' <=> Over(v))
    BY <1>d, <2>1, <2>2, ProceedKeeps
  <2> QED
    BY <2>3, <2>4
<1>g. /\ \A v \in Thread : v # t => op'[v] = op[v]
      /\ op'[t] = NoOp
  BY <1>0, <1>f
<1>h. /\ Putting(w) /\ ~Getting(w) /\ op[w].val = x /\ ~Over(w) /\ delivered[x] = 0
  <2>1. Putting(w) /\ ~Getting(w) /\ op[w].val = x
    BY <1>b, <1>e, OpKinds DEF Putting, Getting
  <2>2. ~Over(w)
    BY <1>e DEF Over
  <2> QED
    BY <1>b, <2>1, <2>2 DEF IInv, PutValues
<1>i. /\ delivered'[x] = 1 /\ \A v \in Value : v # x => delivered'[v] = delivered[v]
      /\ delivered' \in [Value -> Nat]
  BY <1>0, <1>b, <1>c, <1>h
<1>j. \A v \in Thread : /\ Putting(v)' <=> Putting(v) /\ v # t
                        /\ Getting(v)' <=> Getting(v) /\ v # t
  BY <1>g DEF Putting, Getting
<1>1. TypeOK'
  <2>1. putQueue' \in [Channel -> Seq(Pairs)]
    BY <1>0, <1>a, <1>c
  <2> QED
    BY <1>c, <1>f, <1>i, <2>1 DEF IInv, TypeOK, ThreadInv
<1>2. Lines'
  <2> SUFFICES ASSUME NEW d \in Channel
               PROVE  /\ NoDuplicates(getQueue'[d]) /\ NoDuplicates(putQueue'[d])
                      /\ \A v \in Thread :
                           v \in ToSet(getQueue'[d]) <=> intr'[v] = "wait" /\ op'[v] = GetOp(d)
                      /\ \A v \in Thread, y \in Value :
                           Pair(v, y) \in ToSet(putQueue'[d]) <=>
                             intr'[v] = "wait" /\ op'[v] = PutOp(d, y)
    BY DEF Lines
  <2>1. \A v \in Thread : v \in ToSet(getQueue'[d]) <=> intr'[v] = "wait" /\ op'[v] = GetOp(d)
    BY <1>b, <1>c, <1>e, <1>f, <1>g, OpKinds DEF IInv, Lines
  <2>2. /\ putQueue'[d] = IF d = c THEN r ELSE putQueue[d]
        /\ NoDuplicates(putQueue'[d])
    BY <1>0, <1>a, <1>c DEF IInv, Lines
  <2>3. ASSUME NEW v \in Thread, NEW y \in Value
        PROVE  Pair(v, y) \in ToSet(putQueue'[d]) <=> Pair(v, y) \in ToSet(putQueue[d]) /\ v # w
    <3>1. Pair(v, y) \in ToSet(putQueue[d]) /\ v = w => d = c /\ y = x
      BY <1>b, <1>e, OpKinds DEF IInv, Lines
    <3>2. Pair(v, y) = p <=> v = w /\ y = x
      BY <1>b, PairFacts
    <3> QED
      BY <1>a, <2>2, <3>1, <3>2
  <2>4. ASSUME NEW v \in Thread, NEW y \in Value
        PROVE  Pair(v, y) \in ToSet(putQueue'[d]) <=> intr'[v] = "wait" /\ op'[v] = PutOp(d, y)
    <3>1. Pair(v, y) \in ToSet(putQueue[d]) <=> intr[v] = "wait" /\ op[v] = PutOp(d, y)
      BY DEF IInv, Lines
    <3> QED
      BY <1>f, <1>g, <2>3, <3>1
  <2> QED
    BY <1>c, <2>1, <2>2, <2>4 DEF IInv, Lines
<1>3. NobodyMissesPartner'
  BY <1>0, <1>c DEF IInv, NobodyMissesPartner
<1>4. PutValues'
  <2>1. \A v \in Value : delivered'[v] \in {0, 1} /\ (v \notin puts' => delivered'[v] = 0)
    BY <1>b, <1>c, <1>h, <1>i DEF IInv, PutValues
  <2>2. ASSUME NEW v \in Thread, Putting(v)'
        PROVE  op'[v].val \in puts' /\ delivered'[op'[v].val] = IF Over(v)' THEN 1 ELSE 0
    <3>1. Putting(v) /\ op'[v] = op[v] /\ v # t
      BY <1>g, <1>j, <2>2
    <3>2. op[v].val \in Value
      BY <3>1, OpOfThread DEF IInv, ThreadInv
    <3>3. CASE v = w
      <4>1. op'[v].val = x /\ Over(v)' /\ x \in puts
        BY <1>f, <1>h, <3>1, <3>3 DEF IInv, PutValues
      <4> QED
        BY <1>c, <1>i, <4>1
    <3>4. CASE v # w
      BY <1>b, <1>c, <1>f, <1>h, <1>i, <3>1, <3>2, <3>4 DEF IInv, PutValues
    <3> QED
      BY <3>3, <3>4
  <2>3. \A v, u \in Thread : v # u /\ Putting(v)' /\ Putting(u)' => op'[v].val # op'[u].val
    BY <1>g, <1>j DEF IInv, PutValues
  <2> QED
    BY <2>1, <2>2, <2>3 DEF PutValues
<1>5. GetValues'
  <2>1. box[t] = NoValue
    BY <1>d, CallerHasNoBox
  <2>2. \A v \in Thread : box[v] # x
    BY <1>b, <1>h, ChannelsAssumption DEF IInv, GetValues
  <2>3. \A v \in Thread : box[v] \in Value \cup {NoValue}
    BY DEF IInv, TypeOK
  <2>4. \A v \in Thread : Getting(v)' => v # w
    BY <1>h, <1>j
  <2> QED
    BY <1>c, <1>f, <1>i, <1>j, <2>1, <2>2, <2>3, <2>4 DEF IInv, GetValues
<1> QED
  BY <1>f, <1>1, <1>2, <1>3, <1>4, <1>5 DEF IInv

\* channel-put that meets a waiting get.
LEMMA PutNowKeeps ==
  ASSUME IInv, NEW t \in Thread, NEW c \in Channel, NEW x \in Value, PutNow(t, c, x)
  PROVE  IInv'
<1> DEFINE r == QueueRemove(getQueue[c])
<1>0. /\ getQueue \in [Channel -> Seq(Thread)] /\ putQueue \in [Channel -> Seq(Pairs)]
      /\ op \in [Thread -> Op \cup {NoOp}] /\ delivered \in [Value -> Nat]
      /\ box \in [Thread -> Value \cup {NoValue}]
      /\ getQueue[c] # <<>> /\ NoDuplicates(getQueue[c]) /\ x # NoValue
  BY ChannelsAssumption DEF IInv, TypeOK, ThreadTypeOK, PutNow, QueueEmpty, Lines
<1>a. /\ r \in Seq(Thread) /\ Head(getQueue[c]) \in ToSet(getQueue[c])
      /\ ToSet(r) = ToSet(getQueue[c]) \ {Head(getQueue[c])} /\ NoDuplicates(r)
  BY <1>0, RemoveFromLine
<1>b. PICK g \in Thread : g = Head(getQueue[c])
  BY <1>0, <1>a, EmptyLineSet
<1>c. /\ Proceed(t, {g}) /\ Calls(t, PutOp(c, x))
      /\ box' = [box EXCEPT ![g] = x]
      /\ delivered' = [delivered EXCEPT ![x] = @ + 1]
      /\ puts' = puts \cup {x}
      /\ getQueue' = [getQueue EXCEPT ![c] = r] /\ putQueue' = putQueue
  BY <1>b DEF PutNow
<1>d. /\ Running(t, "run") \/ Running(t, "enter")
      /\ delivered[x] = 0
      /\ \A v \in Thread : v # t /\ Putting(v) => op[v].val # x
      /\ \A v \in Thread : box[v] # x
  BY <1>c, CallersValue
<1> HIDE DEF r
<1>e. intr[g] = "wait" /\ op[g] = GetOp(c)
  BY <1>a, <1>b DEF IInv, Lines
<1>f. /\ ThreadInv'
      /\ t # g /\ intr[t] = "none"
      /\ \A v \in Thread : intr'[v] = "wait" <=> intr[v] = "wait" /\ v # g
      /\ op' = [op EXCEPT ![t] = NoOp]
      /\ Over(g)'
      /\ \A v \in Thread : v # g /\ v # t => (Over(v)' <=> Over(v))
  <2> DEFINE W == {g}
  <2>1. W \in SUBSET Thread /\ \A v \in W : intr[v] = "wait"
    BY <1>b, <1>e
  <2>2. ThreadInv /\ Proceed(t, W)
    BY <1>c DEF IInv
  <2>3. \A v : v \in W <=> v = g
    OBVIOUS
  <2> HIDE DEF W
  <2>4. /\ ThreadInv' /\ t \notin W /\ intr[t] = "none"
        /\ \A v \in Thread : intr'[v] = "wait" <=> intr[v] = "wait" /\ v \notin W
        /\ op' = [op EXCEPT ![t] = NoOp]
        /\ \A v \in W : Over(v)'
        /\ \A v \in Thread \ W : v # t => (Over(v)' <=> Over(v))
    BY <1>d, <2>1, <2>2, ProceedKeeps
  <2> QED
    BY <2>3, <2>4
<1>g. /\ \A v \in Thread : v # t => op'[v] = op[v]
      /\ op'[t] = NoOp
  BY <1>0, <1>f
<1>h. Getting(g) /\ ~Putting(g)
  BY <1>e, OpKinds DEF Putting, Getting
<1>i. /\ delivered'[x] = 1 /\ \A v \in Value : v # x => delivered'[v] = delivered[v]
      /\ delivered' \in [Value -> Nat]
  BY <1>0, <1>c, <1>d
<1>j. \A v \in Thread : /\ Putting(v)' <=> Putting(v) /\ v # t
                        /\ Getting(v)' <=> Getting(v) /\ v # t
  BY <1>g DEF Putting, Getting
<1>1. TypeOK'
  <2>1. /\ getQueue' \in [Channel -> Seq(Thread)]
        /\ box' \in [Thread -> Value \cup {NoValue}]
    BY <1>0, <1>a, <1>c
  <2> QED
    BY <1>c, <1>f, <1>i, <2>1 DEF IInv, TypeOK, ThreadInv
<1>2. Lines'
  <2> SUFFICES ASSUME NEW d \in Channel
               PROVE  /\ NoDuplicates(getQueue'[d]) /\ NoDuplicates(putQueue'[d])
                      /\ \A v \in Thread :
                           v \in ToSet(getQueue'[d]) <=> intr'[v] = "wait" /\ op'[v] = GetOp(d)
                      /\ \A v \in Thread, y \in Value :
                           Pair(v, y) \in ToSet(putQueue'[d]) <=>
                             intr'[v] = "wait" /\ op'[v] = PutOp(d, y)
    BY DEF Lines
  <2>1. \A v \in Thread, y \in Value :
          Pair(v, y) \in ToSet(putQueue'[d]) <=> intr'[v] = "wait" /\ op'[v] = PutOp(d, y)
    BY <1>c, <1>e, <1>f, <1>g, OpKinds DEF IInv, Lines
  <2>2. /\ getQueue'[d] = IF d = c THEN r ELSE getQueue[d]
        /\ NoDuplicates(getQueue'[d])
    BY <1>0, <1>a, <1>c DEF IInv, Lines
  <2>3. ASSUME NEW v \in Thread
        PROVE  v \in ToSet(getQueue'[d]) <=> intr'[v] = "wait" /\ op'[v] = GetOp(d)
    <3>1. v \in ToSet(getQueue[d]) <=> intr[v] = "wait" /\ op[v] = GetOp(d)
      BY DEF IInv, Lines
    <3>2. v = g /\ d # c => v \notin ToSet(getQueue[d])
      BY <1>e, <3>1, OpKinds
    <3> QED
      BY <1>a, <1>b, <1>f, <1>g, <2>2, <3>1, <3>2
  <2> QED
    BY <1>c, <2>1, <2>2, <2>3 DEF IInv, Lines
<1>3. NobodyMissesPartner'
  BY <1>0, <1>c DEF IInv, NobodyMissesPartner
<1>4. PutValues'
  <2>1. \A v \in Value : delivered'[v] \in {0, 1} /\ (v \notin puts' => delivered'[v] = 0)
    BY <1>c, <1>i DEF IInv, PutValues
  <2>2. ASSUME NEW v \in Thread, Putting(v)'
        PROVE  op'[v].val \in puts' /\ delivered'[op'[v].val] = IF Over(v)' THEN 1 ELSE 0
    <3>1. Putting(v) /\ op'[v] = op[v] /\ v # t /\ v # g
      BY <1>g, <1>h, <1>j, <2>2
    <3>2. op[v].val \in Value /\ op[v].val # x
      BY <1>d, <3>1, OpOfThread DEF IInv, ThreadInv
    <3> QED
      BY <1>c, <1>f, <1>i, <3>1, <3>2 DEF IInv, PutValues
  <2>3. \A v, u \in Thread : v # u /\ Putting(v)' /\ Putting(u)' => op'[v].val # op'[u].val
    BY <1>g, <1>j DEF IInv, PutValues
  <2> QED
    BY <2>1, <2>2, <2>3 DEF PutValues
<1>5. GetValues'
  <2>1. box[t] = NoValue
    BY <1>d, CallerHasNoBox
  <2>2. box'[g] = x /\ \A v \in Thread : v # g => box'[v] = box[v]
    BY <1>0, <1>c
  <2>3. ASSUME NEW v \in Thread, box'[v] # NoValue
        PROVE  Getting(v)' /\ delivered'[box'[v]] = 1
    <3>1. CASE v = g
      BY <1>f, <1>h, <1>i, <1>j, <2>2, <3>1
    <3>2. CASE v # g
      BY <1>0, <1>d, <1>i, <1>j, <2>1, <2>2, <2>3, <3>2 DEF IInv, GetValues
    <3> QED
      BY <3>1, <3>2
  <2>4. ASSUME NEW v \in Thread, Getting(v)'
        PROVE  box'[v] # NoValue <=> Over(v)'
    BY <1>0, <1>f, <1>j, <2>2, <2>4 DEF IInv, GetValues
  <2>5. \A v, u \in Thread : v # u /\ box'[v] # NoValue => box'[v] # box'[u]
    BY <1>d, <2>2 DEF IInv, GetValues
  <2> QED
    BY <2>3, <2>4, <2>5 DEF GetValues
<1> QED
  BY <1>f, <1>1, <1>2, <1>3, <1>4, <1>5 DEF IInv

\* channel-get that finds nobody.
LEMMA GetBlockKeeps ==
  ASSUME IInv, NEW t \in Thread, NEW c \in Channel, GetBlock(t, c)
  PROVE  IInv'
<1> DEFINE r == QueueAdd(getQueue[c], t)
<1>0. /\ getQueue \in [Channel -> Seq(Thread)] /\ putQueue \in [Channel -> Seq(Pairs)]
      /\ op \in [Thread -> Op \cup {NoOp}] /\ intr \in [Thread -> {"none", "void", "wait", "suspend"}]
      /\ putQueue[c] = <<>> /\ NoDuplicates(getQueue[c])
  BY DEF IInv, TypeOK, ThreadTypeOK, GetBlock, QueueEmpty, Lines
<1>a. /\ Running(t, "run") \/ Running(t, "enter")
      /\ Block(t, GetOp(c)) /\ GetOp(c) \in Op
      /\ getQueue' = [getQueue EXCEPT ![c] = r]
      /\ UNCHANGED <<putQueue, box, puts, delivered>>
  BY OpKinds DEF GetBlock, Calls
<1>b. /\ ThreadInv' /\ intr[t] = "none"
      /\ intr' = [intr EXCEPT ![t] = "wait"] /\ op' = [op EXCEPT ![t] = GetOp(c)]
      /\ \A v \in Thread : v # t => (Over(v)' <=> Over(v))
  BY <1>a, BlockKeeps DEF IInv
<1>c. /\ intr'[t] = "wait" /\ op'[t] = GetOp(c)
      /\ \A v \in Thread : v # t => intr'[v] = intr[v] /\ op'[v] = op[v]
  BY <1>0, <1>b
<1>d. box[t] = NoValue
  BY <1>a, CallerHasNoBox
<1>e. t \notin ToSet(getQueue[c])
  BY <1>b DEF IInv, Lines
<1>f. r \in Seq(Thread) /\ ToSet(r) = ToSet(getQueue[c]) \cup {t} /\ NoDuplicates(r)
  BY <1>0, <1>e, AddToLine
<1> HIDE DEF r
<1>g. /\ Getting(t)' /\ ~Putting(t)' /\ ~Over(t)'
      /\ \A v \in Thread : v # t => (Getting(v)' <=> Getting(v)) /\ (Putting(v)' <=> Putting(v))
  BY <1>c, OpKinds DEF Getting, Putting, Over
<1>1. TypeOK'
  BY <1>0, <1>a, <1>b, <1>f DEF IInv, TypeOK, ThreadInv
<1>2. Lines'
  <2> SUFFICES ASSUME NEW d \in Channel
               PROVE  /\ NoDuplicates(getQueue'[d]) /\ NoDuplicates(putQueue'[d])
                      /\ \A v \in Thread :
                           v \in ToSet(getQueue'[d]) <=> intr'[v] = "wait" /\ op'[v] = GetOp(d)
                      /\ \A v \in Thread, y \in Value :
                           Pair(v, y) \in ToSet(putQueue'[d]) <=>
                             intr'[v] = "wait" /\ op'[v] = PutOp(d, y)
    BY DEF Lines
  <2>1. /\ getQueue'[d] = IF d = c THEN r ELSE getQueue[d]
        /\ NoDuplicates(getQueue'[d])
    BY <1>0, <1>a, <1>f DEF IInv, Lines
  <2>2. ASSUME NEW v \in Thread
        PROVE  v \in ToSet(getQueue'[d]) <=> intr'[v] = "wait" /\ op'[v] = GetOp(d)
    <3>1. v \in ToSet(getQueue[d]) <=> intr[v] = "wait" /\ op[v] = GetOp(d)
      BY DEF IInv, Lines
    <3> QED
      BY <1>b, <1>c, <1>f, <2>1, <3>1, OpKinds
  <2>3. ASSUME NEW v \in Thread, NEW y \in Value
        PROVE  Pair(v, y) \in ToSet(putQueue'[d]) <=> intr'[v] = "wait" /\ op'[v] = PutOp(d, y)
    <3>1. Pair(v, y) \in ToSet(putQueue[d]) <=> intr[v] = "wait" /\ op[v] = PutOp(d, y)
      BY DEF IInv, Lines
    <3> QED
      BY <1>a, <1>b, <1>c, <3>1, OpKinds
  <2> QED
    BY <1>a, <2>1, <2>2, <2>3 DEF IInv, Lines
<1>3. NobodyMissesPartner'
  BY <1>0, <1>a DEF IInv, NobodyMissesPartner
<1>4. PutValues'
  <2>1. \A v \in Thread : Putting(v)' => v # t /\ Putting(v) /\ op'[v] = op[v]
    BY <1>c, <1>g
  <2> QED
    BY <1>a, <1>b, <2>1 DEF IInv, PutValues
<1>5. GetValues'
  BY <1>a, <1>b, <1>d, <1>g DEF IInv, GetValues
<1> QED
  BY <1>b, <1>1, <1>2, <1>3, <1>4, <1>5 DEF IInv

\* channel-put that finds nobody.
LEMMA PutBlockKeeps ==
  ASSUME IInv, NEW t \in Thread, NEW c \in Channel, NEW x \in Value, PutBlock(t, c, x)
  PROVE  IInv'
<1> DEFINE r == QueueAdd(putQueue[c], Pair(t, x))
<1>0. /\ getQueue \in [Channel -> Seq(Thread)] /\ putQueue \in [Channel -> Seq(Pairs)]
      /\ op \in [Thread -> Op \cup {NoOp}] /\ intr \in [Thread -> {"none", "void", "wait", "suspend"}]
      /\ getQueue[c] = <<>> /\ NoDuplicates(putQueue[c])
  BY DEF IInv, TypeOK, ThreadTypeOK, PutBlock, QueueEmpty, Lines
<1>a. /\ Calls(t, PutOp(c, x))
      /\ Block(t, PutOp(c, x)) /\ PutOp(c, x) \in Op
      /\ putQueue' = [putQueue EXCEPT ![c] = r] /\ puts' = puts \cup {x}
      /\ UNCHANGED <<getQueue, box, delivered>>
  BY OpKinds DEF PutBlock
<1>b. /\ Running(t, "run") \/ Running(t, "enter")
      /\ delivered[x] = 0
      /\ \A v \in Thread : v # t /\ Putting(v) => op[v].val # x
  BY <1>a, CallersValue
<1>c. /\ ThreadInv' /\ intr[t] = "none"
      /\ intr' = [intr EXCEPT ![t] = "wait"] /\ op' = [op EXCEPT ![t] = PutOp(c, x)]
      /\ \A v \in Thread : v # t => (Over(v)' <=> Over(v))
  BY <1>a, <1>b, BlockKeeps DEF IInv
<1>d. /\ intr'[t] = "wait" /\ op'[t] = PutOp(c, x)
      /\ \A v \in Thread : v # t => intr'[v] = intr[v] /\ op'[v] = op[v]
  BY <1>0, <1>c
<1>e. box[t] = NoValue
  BY <1>b, CallerHasNoBox
<1>f. Pair(t, x) \notin ToSet(putQueue[c]) /\ Pair(t, x) \in Pairs
  BY <1>c, PairFacts DEF IInv, Lines
<1>g. r \in Seq(Pairs) /\ ToSet(r) = ToSet(putQueue[c]) \cup {Pair(t, x)} /\ NoDuplicates(r)
  BY <1>0, <1>f, AddToLine
<1> HIDE DEF r
<1>h. /\ Putting(t)' /\ ~Getting(t)' /\ ~Over(t)' /\ op'[t].val = x
      /\ \A v \in Thread : v # t => (Getting(v)' <=> Getting(v)) /\ (Putting(v)' <=> Putting(v))
  BY <1>d, OpKinds DEF Getting, Putting, Over
<1>1. TypeOK'
  BY <1>0, <1>a, <1>c, <1>g DEF IInv, TypeOK, ThreadInv
<1>2. Lines'
  <2> SUFFICES ASSUME NEW d \in Channel
               PROVE  /\ NoDuplicates(getQueue'[d]) /\ NoDuplicates(putQueue'[d])
                      /\ \A v \in Thread :
                           v \in ToSet(getQueue'[d]) <=> intr'[v] = "wait" /\ op'[v] = GetOp(d)
                      /\ \A v \in Thread, y \in Value :
                           Pair(v, y) \in ToSet(putQueue'[d]) <=>
                             intr'[v] = "wait" /\ op'[v] = PutOp(d, y)
    BY DEF Lines
  <2>1. /\ putQueue'[d] = IF d = c THEN r ELSE putQueue[d]
        /\ NoDuplicates(putQueue'[d])
    BY <1>0, <1>a, <1>g DEF IInv, Lines
  <2>2. ASSUME NEW v \in Thread
        PROVE  v \in ToSet(getQueue'[d]) <=> intr'[v] = "wait" /\ op'[v] = GetOp(d)
    <3>1. v \in ToSet(getQueue[d]) <=> intr[v] = "wait" /\ op[v] = GetOp(d)
      BY DEF IInv, Lines
    <3> QED
      BY <1>a, <1>c, <1>d, <3>1, OpKinds
  <2>3. ASSUME NEW v \in Thread, NEW y \in Value
        PROVE  Pair(v, y) \in ToSet(putQueue'[d]) <=> intr'[v] = "wait" /\ op'[v] = PutOp(d, y)
    <3>1. Pair(v, y) \in ToSet(putQueue[d]) <=> intr[v] = "wait" /\ op[v] = PutOp(d, y)
      BY DEF IInv, Lines
    <3>2. Pair(v, y) = Pair(t, x) <=> v = t /\ y = x
      BY PairFacts
    <3>3. PutOp(c, x) = PutOp(d, y) <=> c = d /\ x = y
      BY OpKinds
    <3> QED
      BY <1>c, <1>d, <1>g, <2>1, <3>1, <3>2, <3>3
  <2> QED
    BY <1>a, <2>1, <2>2, <2>3 DEF IInv, Lines
<1>3. NobodyMissesPartner'
  BY <1>0, <1>a DEF IInv, NobodyMissesPartner
<1>4. PutValues'
  <2>1. \A v \in Value : delivered'[v] \in {0, 1} /\ (v \notin puts' => delivered'[v] = 0)
    BY <1>a DEF IInv, PutValues
  <2>2. \A v \in Thread : v # t /\ Putting(v)' => Putting(v) /\ op'[v] = op[v] /\ op[v].val # x
    BY <1>b, <1>d, <1>h
  <2>3. ASSUME NEW v \in Thread, Putting(v)'
        PROVE  op'[v].val \in puts' /\ delivered'[op'[v].val] = IF Over(v)' THEN 1 ELSE 0
    <3>1. CASE v = t
      BY <1>a, <1>b, <1>h, <3>1
    <3>2. CASE v # t
      BY <1>a, <1>c, <2>2, <2>3, <3>2 DEF IInv, PutValues
    <3> QED
      BY <3>1, <3>2
  <2>4. \A v, u \in Thread : v # u /\ Putting(v)' /\ Putting(u)' => op'[v].val # op'[u].val
    BY <1>h, <2>2 DEF IInv, PutValues
  <2> QED
    BY <2>1, <2>3, <2>4 DEF PutValues
<1>5. GetValues'
  BY <1>a, <1>c, <1>e, <1>h DEF IInv, GetValues
<1> QED
  BY <1>c, <1>1, <1>2, <1>3, <1>4, <1>5 DEF IInv

----------------------------------------------------------------------------
(* The theorems.                                                           *)

\* No step of a program without corners leaves the invariant.
LEMMA NextKeeps ==
  ASSUME Corners = {}, IInv, [Next]_vars
  PROVE  IInv'
<1>0. ThreadInv
  BY DEF IInv
<1>1. ASSUME NEW t \in Thread, ThreadStep(t), DropBoxes,
             UNCHANGED <<getQueue, putQueue, puts, delivered>>
      PROVE  IInv'
  BY <1>1, ThreadStepKeeps
<1>2. CASE \/ \E t \in Thread : FinishThread(t)
           \/ UNCHANGED vars
  <2>1. ThreadInv' /\ Interrupts({}) /\ op' = op /\ UNCHANGED channelVars
    <3>1. CASE UNCHANGED vars
      BY <1>0, <3>1, ThreadStutterKeeps DEF vars, threadVars
    <3>2. CASE \E t \in Thread : FinishThread(t)
      BY <1>0, <3>2, FinishKeeps DEF FinishThread
    <3> QED
      BY <1>2, <3>1, <3>2
  <2>2. /\ \A t \in Thread : box'[t] = IF op'[t] = NoOp THEN NoValue ELSE box[t]
        /\ box' \in [Thread -> Value \cup {NoValue}]
    BY <2>1 DEF channelVars, IInv, TypeOK, GetValues, Getting
  <2> QED
    BY <2>1, <2>2, QuietKeeps DEF channelVars
<1>3. ASSUME NEW t \in Thread, NEW u \in Thread, Kill(t, u)
      PROVE  IInv'
  BY <1>3, KillKeeps
<1>4. ASSUME NEW t \in Thread, NEW u \in Thread, Suspend(t, u)
      PROVE  IInv'
  <2>1. ThreadInv' /\ Interrupts({u})
    BY <1>0, <1>4, ThreadSuspendKeeps DEF Suspend
  <2>2. Interrupt(u) /\ UNCHANGED <<box, puts, delivered, op>>
    BY <1>4 DEF Suspend, ThreadSuspend
  <2> QED
    BY <2>1, <2>2, CallbackKeeps
<1>5. ASSUME NEW t \in Thread, NEW u \in Thread, Break(t, u)
      PROVE  IInv'
  <2>1. ThreadInv' /\ Interrupts({u})
    BY <1>0, <1>5, BreakThreadKeeps DEF Break
  <2>2. BreakLines(u) /\ op' = op
    BY <1>5 DEF Break, BreakThread
  <2> QED
    BY <2>1, <2>2, BreakLinesKeeps
<1>6. CASE CtlCBreak
  <2>1. ThreadInv' /\ Interrupts({Main})
    BY <1>0, <1>6, CtlCKeeps DEF CtlCBreak
  <2>2. BreakLines(Main) /\ op' = op
    BY <1>6 DEF CtlCBreak, CtlC
  <2> QED
    BY <2>1, <2>2, BreakLinesKeeps, ThreadsAssumption
<1>7. ASSUME NEW t \in Thread, NEW c \in Channel, GetNow(t, c) \/ GetBlock(t, c)
      PROVE  IInv'
  BY <1>7, GetNowKeeps, GetBlockKeeps
<1>8. ASSUME NEW t \in Thread, NEW c \in Channel, NEW v \in Value,
             PutNow(t, c, v) \/ PutBlock(t, c, v)
      PROVE  IInv'
  BY <1>8, PutNowKeeps, PutBlockKeeps
<1> QED
  BY <1>1, <1>2, <1>3, <1>4, <1>5, <1>6, <1>7, <1>8 DEF Next

\* The invariant holds for ever, whatever the threads do to each other.
THEOREM Invariance ==
  Corners = {} /\ Spec => []IInv
<1> SUFFICES ASSUME Corners = {} PROVE Spec => []IInv
  OBVIOUS
<1>1. IInv /\ [Next]_vars => IInv'
  BY NextKeeps
<1> QED
  BY InitEstablishes, <1>1, PTL DEF Spec

\* The state stays type correct.
THEOREM TypeCorrect ==
  Corners = {} /\ Spec => []TypeOK
<1>1. IInv => TypeOK
  BY DEF IInv
<1> QED
  BY Invariance, <1>1, PTL

\* No thread-group list is corrupted and no dead thread is resumed by a
\* rendezvous.
THEOREM NotCorrupted ==
  Corners = {} /\ Spec => []NeverCorrupted
<1>1. IInv => NeverCorrupted
  BY DEF IInv, ThreadInv, Scheduling, NeverCorrupted
<1> QED
  BY Invariance, <1>1, PTL

\* A thread stands in a line exactly while it waits.
LEMMA InLineIsWaiting ==
  ASSUME IInv, NEW t \in Thread
  PROVE  InLine(t) <=> intr[t] = "wait"
<1>0. /\ getQueue \in [Channel -> Seq(Thread)] /\ putQueue \in [Channel -> Seq(Pairs)]
      /\ ThreadTypeOK
  BY DEF IInv, TypeOK
<1>1. ASSUME intr[t] = "wait" PROVE InLine(t)
  <2>1. Getting(t) \/ Putting(t)
    BY <1>0, <1>1, OpOfThread DEF IInv, ThreadInv, Callbacks
  <2>2. CASE Getting(t)
    <3>1. op[t].ch \in Channel /\ t \in ToSet(getQueue[op[t].ch])
      BY <1>0, <1>1, <2>2, OpOfThread DEF IInv, Lines
    <3> QED
      BY <3>1 DEF InLine
  <2>3. CASE Putting(t)
    <3>1. /\ op[t].ch \in Channel /\ op[t].val \in Value
          /\ Pair(t, op[t].val) \in ToSet(putQueue[op[t].ch])
      BY <1>0, <1>1, <2>3, OpOfThread DEF IInv, Lines
    <3>2. Pair(t, op[t].val).thr = t
      BY <3>1, PairFacts
    <3> QED
      BY <3>1, <3>2 DEF InLine
  <2> QED
    BY <2>1, <2>2, <2>3
<1>2. ASSUME InLine(t) PROVE intr[t] = "wait"
  <2>1. ASSUME NEW c \in Channel, t \in ToSet(getQueue[c]) PROVE intr[t] = "wait"
    BY <2>1 DEF IInv, Lines
  <2>2. ASSUME NEW c \in Channel, NEW p \in ToSet(putQueue[c]), p.thr = t
        PROVE  intr[t] = "wait"
    <3>1. p \in Pairs
      BY <1>0, EmptyLineSet
    <3>2. p.val \in Value /\ p = Pair(t, p.val)
      BY <2>2, <3>1, PairFacts
    <3> QED
      BY <3>2 DEF IInv, Lines
  <2> QED
    BY <1>2, <2>1, <2>2 DEF InLine
<1> QED
  BY <1>1, <1>2

\* A put that will return has given its value to exactly one getter; one that
\* waits or will retry has given it to nobody.
THEOREM PutOnce ==
  Corners = {} /\ Spec => []PutExactlyOnce
<1>1. ASSUME IInv PROVE PutExactlyOnce
  <2>1. \A v \in Value : delivered[v] <= 1
    BY <1>1 DEF IInv, PutValues
  <2>2. \A t \in Thread : Matched(t) <=> Over(t)
    BY <1>1, InLineIsWaiting DEF Matched, Over
  <2> QED
    BY <1>1, <2>1, <2>2 DEF IInv, PutValues, PutExactlyOnce
<1> QED
  BY Invariance, <1>1, PTL

\* A get that will return has a value, which no other get has.
THEOREM GetOnce ==
  Corners = {} /\ Spec => []GetHasValue
<1>1. ASSUME IInv PROVE GetHasValue
  <2>1. \A t \in Thread : Matched(t) <=> Over(t)
    BY <1>1, InLineIsWaiting DEF Matched, Over
  <2> QED
    BY <1>1, <2>1 DEF IInv, GetValues, GetHasValue
<1> QED
  BY Invariance, <1>1, PTL

\* A get and a put never wait for each other.
THEOREM PartnersMeet ==
  Corners = {} /\ Spec => []NobodyMissesPartner
<1>1. IInv => NobodyMissesPartner
  BY DEF IInv
<1> QED
  BY Invariance, <1>1, PTL

\* Exactly the live, not suspended threads outside of the group are in line.
THEOREM WaitersInLine ==
  Corners = {} /\ Spec => []LinesAreWaiters
<1>1. ASSUME IInv PROVE LinesAreWaiters
  <2> SUFFICES ASSUME NEW t \in Thread
               PROVE  InLine(t) <=> Live(t) /\ ~suspended[t] /\ t \notin group
    BY DEF LinesAreWaiters
  <2>1. InLine(t) <=> intr[t] = "wait"
    BY <1>1, InLineIsWaiting
  <2> QED
    BY <1>1, <2>1 DEF IInv, ThreadInv, ThreadTypeOK, Scheduling, Callbacks
<1> QED
  BY Invariance, <1>1, PTL
=============================================================================
