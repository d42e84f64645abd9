---------------------------- MODULE PlaceChannels ---------------------------
(***************************************************************************)
(* An asynchronous place channel (place_async_send, place_async_receive    *)
(* and lock_and_register_place_object_with_channel of place.c): a ring of  *)
(* messages that grows, and the places to wake up when the first message   *)
(* arrives.  A channel has a lock; both the sender that finds the ring     *)
(* full and the receiver that finds no room to register release it while   *)
(* they allocate.                                                          *)
(*                                                                         *)
(* Messages are numbered in the order in which they enter the ring.        *)
(***************************************************************************)
EXTENDS Places, Sequences, FiniteSetsExt

CONSTANTS
  Sender, Receiver,  \* the places that put, the places that get
  InitialSize,       \* the first size of the ring
  MaxSends           \* bound on the messages sent

ASSUME PlaceChannelsAssumption ==
  /\ Sender \subseteq Place /\ Receiver \subseteq Place \ {Main}
  /\ InitialSize \in Nat \ {0}
  /\ MaxSends \in Nat

VARIABLES
  msgs,      \* ch->msgs: the ring, 0 for an empty slot
  in, out, count,
  wakeup,    \* ch->wakeup_signal: the places, NoPlace for an empty slot
  many,      \* ch->wakeup_signal is a vector
  cnt, sz,   \* of a sender that allocates: the count it saw, the size it saw
  avail,     \* of a receiver that allocates: the size of avail_vector
  began,     \* how many sends have begun
  received,  \* how many messages were received
  stale      \* a sender that had found the ring full put a message into an
             \* empty one

ringVars == <<msgs, in, out, count>>
localVars == <<cnt, sz, avail>>
histVars == <<began, received, stale>>
vars == <<pc, objVars, inPipe, ringVars, wakeup, many, localVars, histVars>>

size == Cardinality(DOMAIN msgs)

TypeOK ==
  /\ PlaceTypeOK({"grow", "try", "tryalloc", "poll", "pollalloc"})
  /\ DOMAIN msgs = 0..(size - 1)
  /\ \A i \in 0..(size - 1) : msgs[i] \in 0..MaxSends
  /\ in \in 0..(size - 1) /\ out \in 0..(size - 1) /\ count \in 0..size
  /\ wakeup \in Seq(Place \cup {NoPlace})
  /\ many \in BOOLEAN
  /\ ~many => Len(wakeup) <= 1
  /\ cnt \in [Place -> Nat] /\ sz \in [Place -> Nat] /\ avail \in [Place -> Nat]
  /\ began \in 0..MaxSends /\ received \in 0..MaxSends
  /\ stale \in BOOLEAN

Init ==
  /\ PlaceInit
  /\ msgs = [i \in 0..(InitialSize - 1) |-> 0]
  /\ in = 0 /\ out = 0 /\ count = 0
  /\ wakeup = <<>> /\ many = FALSE
  /\ cnt = [p \in Place |-> 0] /\ sz = [p \in Place |-> 0] /\ avail = [p \in Place |-> 0]
  /\ began = 0 /\ received = 0 /\ stale = FALSE

Registered == {p \in Place : \E i \in DOMAIN wakeup : wakeup[i] = p}

----------------------------------------------------------------------------
\* Mutant: the second part of a ring that wraps is lost.
BuggyGrown ==
  [i \in 0..(2 * size - 1) |-> IF i < size - out THEN msgs[out + i] ELSE 0]

\* GROW QUEUE: the ring from its first message on, and as much room again.
Grown ==
  LET s1 == size - out IN
  [i \in 0..(2 * size - 1) |->
     IF out < in
     THEN IF i < in - out THEN msgs[out + i] ELSE 0
     ELSE CASE i < s1 -> msgs[out + i]
            [] i >= s1 /\ i < s1 + in -> msgs[i - s1]
            [] OTHER -> 0]

\* The slots of the places that are not dead, and the place of one among them.
LivingSlots == {i \in DOMAIN wakeup : wakeup[i] # NoPlace /\ signal_handle[wakeup[i]]}
Rank(i) == Cardinality({j \in LivingSlots : j <= i})

\* The places that a vector still has, in order, when the dead ones are dropped.
Living ==
  [n \in 1..Cardinality(LivingSlots) |-> wakeup[CHOOSE i \in LivingSlots : Rank(i) = n]]

\* The vector that GC_master_make_vector(n) makes, filled with s.
Vector(s, n) == [i \in 1..n |-> IF i <= Len(s) THEN s[i] ELSE NoPlace]

\* Mutant: a single receiver is not woken up.
BuggyWakeReceivers ==
  /\ inPipe' = IF many THEN inPipe \cup {Living[i] : i \in DOMAIN Living} ELSE inPipe
  /\ UNCHANGED <<wakeup, many, refcount, destroyed>>

\* The end of place_async_send: wake everyone, forget the dead and shrink the
\* vector when more than half of it is unused.
WakeReceivers ==
  /\ inPipe' = inPipe \cup {p \in Registered : signal_handle[p]}
  /\ IF many
     THEN LET gone == {p \in Registered : ~signal_handle[p]}
              alive == Len(Living)
              n == Len(wakeup)
          IN  /\ refcount' = [p \in Place |-> IF p \in gone THEN refcount[p] - 1 ELSE refcount[p]]
              /\ destroyed' = destroyed \cup Unreferenced(refcount')
              /\ many' = ~(alive < n \div 2 /\ alive = 1)
              /\ wakeup' = CASE alive < n \div 2 /\ alive = 1 -> Living
                             [] alive < n \div 2 /\ alive # 1 -> Vector(Living, n \div 2)
                             [] OTHER -> [i \in 1..n |-> IF wakeup[i] \in gone THEN NoPlace ELSE wakeup[i]]
     ELSE UNCHANGED <<wakeup, many, refcount, destroyed>>

\* A message enters the ring (ring, at), and whoever waits is woken up if the
\* sender saw an empty ring.
Enqueue(ring, at, first, saw) ==
  /\ msgs' = [ring EXCEPT ![at] = received + count + 1]
  /\ count' = count + 1
  /\ in' = (at + 1) % Cardinality(DOMAIN ring)
  /\ out' = first
  /\ stale' = (stale \/ (count = 0 /\ saw # 0))
  /\ IF saw = 0 /\ wakeup # <<>>
     THEN WakeReceivers
     ELSE UNCHANGED <<inPipe, wakeup, many, refcount, destroyed>>

\* p begins place-channel-put.  If the ring is full, p unlocks and allocates.
Send(p) ==
  /\ p \in Sender /\ pc[p] = "run" /\ began < MaxSends
  /\ began' = began + 1
  /\ IF count = size
     THEN /\ pc' = [pc EXCEPT ![p] = "grow"]
          /\ cnt' = [cnt EXCEPT ![p] = count]
          /\ sz' = [sz EXCEPT ![p] = size]
          /\ UNCHANGED <<ringVars, stale, inPipe, wakeup, many, refcount, destroyed>>
     ELSE Enqueue(msgs, in, out, count) /\ UNCHANGED <<pc, cnt, sz>>
  /\ UNCHANGED <<signal_handle, die, dead, held, avail, received>>

\* p has allocated a larger ring and locks again: others may have taken
\* messages, or made the ring larger, or both.
Grow(p) ==
  /\ pc[p] = "grow"
  /\ IF count = size /\ sz[p] # size
     THEN /\ sz' = [sz EXCEPT ![p] = size]
          /\ UNCHANGED <<pc, ringVars, cnt, stale, inPipe, wakeup, many, refcount, destroyed>>
     ELSE /\ IF count = size THEN Enqueue(Grown, size, 0, cnt[p])
                             ELSE Enqueue(msgs, in, out, cnt[p])
          /\ pc' = [pc EXCEPT ![p] = "run"]
          /\ cnt' = [cnt EXCEPT ![p] = 0]
          /\ sz' = [sz EXCEPT ![p] = 0]
  /\ UNCHANGED <<signal_handle, die, dead, held, avail, began, received>>

----------------------------------------------------------------------------
\* The free slots of the vector: empty, or of a place that is dead.
Free == {i \in DOMAIN wakeup : wakeup[i] = NoPlace \/ ~signal_handle[wakeup[i]]}

\* How large a vector p needs before it can register, or 0.
NeedsVector(p) ==
  IF p \in Registered \/ Free # {} \/ wakeup = <<>> THEN 0 ELSE 2 * Len(wakeup)

\* p takes slot i and drops the reference to the dead place that had it.
TakeSlot(p, i) ==
  /\ wakeup' = [wakeup EXCEPT ![i] = p]
  /\ refcount' = [q \in Place |-> refcount[q] + (IF q = p THEN 1 ELSE 0)
                                              - (IF q = wakeup[i] THEN 1 ELSE 0)]
  /\ UNCHANGED many

\* lock_and_register_place_object_with_channel, once it has what it needs.
\* The slot for p in a larger vector is one after the first new one (the code
\* would write past the end of a vector that grows from one slot to two).
Register(p) ==
  CASE p \in Registered -> UNCHANGED <<wakeup, many, refcount>>
    [] p \notin Registered /\ wakeup = <<>> ->
         /\ wakeup' = <<p>>
         /\ refcount' = [refcount EXCEPT ![p] = @ + 1]
         /\ UNCHANGED many
    [] p \notin Registered /\ Free # {} -> TakeSlot(p, Min(Free))
    [] OTHER ->
         /\ wakeup' = IF many
                      THEN [Vector(wakeup, 2 * Len(wakeup)) EXCEPT ![Len(wakeup) + 2] = p]
                      ELSE <<wakeup[1], p>>
         /\ many' = TRUE
         /\ refcount' = [refcount EXCEPT ![p] = @ + 1]

\* The locked part of a receive or a poll of p: p registers, unless it has just
\* begun and there are messages, or goes off to allocate, at pc alloc.
LockAndRegister(p, alloc, body) ==
  IF pc[p] # alloc /\ count > 0
  THEN body /\ UNCHANGED <<wakeup, many, refcount, destroyed, avail>>
  ELSE IF NeedsVector(p) # 0 /\ avail[p] # NeedsVector(p)
       THEN /\ pc' = [pc EXCEPT ![p] = alloc]
            /\ avail' = [avail EXCEPT ![p] = NeedsVector(p)]
            /\ UNCHANGED <<ringVars, wakeup, many, refcount, destroyed, received>>
       ELSE /\ Register(p)
            /\ destroyed' = destroyed \cup Unreferenced(refcount')
            /\ avail' = [avail EXCEPT ![p] = 0]
            /\ body

\* Mutant: the index of the first message does not wrap.
BuggyGetMessage(p) ==
  IF count > 0
  THEN /\ msgs' = [msgs EXCEPT ![out] = 0]
       /\ count' = count - 1
       /\ out' = out + 1
       /\ received' = received + 1
       /\ pc' = [pc EXCEPT ![p] = "run"]
       /\ UNCHANGED in
  ELSE pc' = [pc EXCEPT ![p] = "poll"] /\ UNCHANGED <<ringVars, received>>

\* place_async_try_receive_raw.
GetMessage(p) ==
  IF count > 0
  THEN /\ msgs' = [msgs EXCEPT ![out] = 0]
       /\ count' = count - 1
       /\ out' = (out + 1) % size
       /\ received' = received + 1
       /\ pc' = [pc EXCEPT ![p] = "run"]
       /\ UNCHANGED in
  ELSE pc' = [pc EXCEPT ![p] = "poll"] /\ UNCHANGED <<ringVars, received>>

\* p tries to get a message.
GetOrPoll(p) ==
  /\ LockAndRegister(p, "tryalloc", GetMessage(p))
  /\ UNCHANGED <<signal_handle, die, dead, held, inPipe, cnt, sz, began, stale>>

\* p begins place-channel-get.
Receive(p) == p \in Receiver /\ pc[p] = "run" /\ GetOrPoll(p)

\* p has allocated, or was told that there is a message.
TryReceive(p) == pc[p] \in {"try", "tryalloc"} /\ GetOrPoll(p)

\* scheme_place_async_ch_ready: p looks once more and goes to sleep.
ChannelReady(p) ==
  /\ pc[p] \in {"poll", "pollalloc"}
  /\ LockAndRegister(p, "pollalloc",
       /\ pc' = [pc EXCEPT ![p] = IF count > 0 THEN "try" ELSE "asleep"]
       /\ UNCHANGED <<ringVars, received>>)
  /\ UNCHANGED <<signal_handle, die, dead, held, inPipe, cnt, sz, began, stale>>

----------------------------------------------------------------------------
\* The place p gets to the scheduler: while it runs, or after it slept.
Interruption(p) ==
  \/ p # Main /\ pc[p] = "run" /\ CheckForInterruption(p, "run")
  \/ pc[p] = "check" /\ CheckForInterruption(p, "poll")

\* What the OS thread of p does in any case.
Step(p) ==
  \/ Grow(p) \/ TryReceive(p) \/ ChannelReady(p)
  \/ /\ Wake(p) \/ Interruption(p) \/ PlaceSetResult(p) \/ DropReference(p)
     /\ UNCHANGED <<ringVars, wakeup, many, localVars, histVars>>

\* What its program may do.
Program(p) ==
  \/ Send(p) \/ Receive(p)
  \/ /\ Exit(p) \/ CreatePlace(p) \/ PlaceKill(p) \/ PlaceWait(p)
     /\ UNCHANGED <<ringVars, wakeup, many, localVars, histVars>>

Next == \E p \in Place : Step(p) \/ Program(p)

Spec == Init /\ [][Next]_vars

\* The operating system runs every place that can go on.
FairSpec == Spec /\ \A p \in Place : WF_vars(Step(p))

----------------------------------------------------------------------------
\* The ring has the messages that entered it and were not received, in order:
\* none is lost, doubled or overtaken when the ring wraps or grows.
MessagesInOrder ==
  \A i \in 0..(size - 1) :
    msgs[(out + i) % size] = IF i < count THEN received + i + 1 ELSE 0

\* The references to a place object are the parent's, the place's own and the
\* channel's, and the lock is destroyed with the last one: nobody can lock a
\* destroyed lock, and none is left behind.
ReferencesCounted ==
  \A p \in Place :
    pc[p] # "none" =>
      /\ refcount[p] = (IF held[p] THEN 1 ELSE 0)
                       + (IF pc[p] # "gone" THEN 1 ELSE 0)
                       + Cardinality({i \in DOMAIN wakeup : wakeup[i] = p})
      /\ p \in destroyed <=> refcount[p] = 0

\* A receiver sleeps on a channel with messages only if a signal is on its
\* way, or if a sender relied on a count from before it released the lock.
SleepsOnlyWithoutMessages ==
  ~stale => \A p \in Receiver : pc[p] = "asleep" /\ count > 0 => p \in inPipe

\* A place that is killed ends, also when it is asleep or about to sleep.
KillTakesEffect == \A p \in Place \ {Main} : die[p] = "asked" ~> pc[p] = "gone"

\* place-channel-get blocks only until a message is available.
MessageWakesReceiver ==
  \A p \in Receiver : pc[p] = "asleep" /\ count > 0 ~> pc[p] # "asleep" \/ count = 0
=============================================================================
