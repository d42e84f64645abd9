-------------------------- MODULE MailboxesProofs --------------------------
(***************************************************************************)
(* Proofs, for any set of threads and of messages, of the properties of    *)
(* module Mailboxes, for programs that make no use of the corners of the   *)
(* API.  The facts about threads come from ThreadsTheorems.                *)
(***************************************************************************)
EXTENDS Mailboxes, ThreadsTheorems

----------------------------------------------------------------------------
(* The inductive invariant.                                                *)

\* thread-waiting-mail? is set exactly while the thread is blocked in
\* thread-receive, and then its mailbox is empty.
Waiting ==
  \A u \in Thread :
    /\ waitingMail[u] <=> intr[u] = "wait"
    /\ waitingMail[u] => mailbox[u] = <<>>

IInv == TypeOK /\ ThreadInv /\ Waiting /\ MailInOrder

----------------------------------------------------------------------------
(* What the operations on a mailbox do to the sequence of all messages.    *)

\* A message that is sent comes last.
LEMMA SendIsLast ==
  ASSUME NEW g \in Seq(Message), NEW q \in Seq(Message), NEW msg \in Message
  PROVE  g \o Append(q, msg) = Append(g \o q, msg)
<1>1. g \o q \in Seq(Message)
  BY ConcatProperties
<1>2. <<msg>> \in Seq(Message)
  OBVIOUS
<1> QED
  BY <1>1, <1>2, AppendIsConcat, ConcatAssociative

\* The message that is received is the next one.
LEMMA ReceiveIsNext ==
  ASSUME NEW g \in Seq(Message), NEW q \in Seq(Message), q # <<>>
  PROVE  /\ Append(g, Head(q)) \in Seq(Message) /\ Tail(q) \in Seq(Message)
         /\ Append(g, Head(q)) \o Tail(q) = g \o q
<1>1. Head(q) \in Message /\ Tail(q) \in Seq(Message)
  BY HeadTailProperties
<1>2. q = <<Head(q)>> \o Tail(q) /\ <<Head(q)>> \in Seq(Message)
  <2>1. Len(q) \in Nat \ {0} /\ Head(q) = q[1] /\ 1 \in 1..Len(q)
    BY EmptySeq
  <2>2. SubSeq(q, 1, Len(q)) = <<q[1]>> \o SubSeq(q, 1 + 1, Len(q))
    BY <2>1, SubSeqRecursiveFirst
  <2>3. SubSeq(q, 1, Len(q)) = q /\ SubSeq(q, 2, Len(q)) = Tail(q)
    BY SubSeqFull, TailIsSubSeq
  <2> QED
    BY <1>1, <2>1, <2>2, <2>3
<1>3. Append(g, Head(q)) = g \o <<Head(q)>> /\ Append(g, Head(q)) \in Seq(Message)
  BY <1>1, AppendIsConcat
<1> QED
  BY <1>1, <1>2, <1>3, ConcatAssociative

\* The messages that are rewound come before the others again.
LEMMA RewindIsFirst ==
  ASSUME NEW g \in Seq(Message), NEW q \in Seq(Message), NEW k \in 0..Len(g)
  PROVE  /\ SubSeq(g, 1, k) \in Seq(Message)
         /\ SubSeq(g, k + 1, Len(g)) \o q \in Seq(Message)
         /\ SubSeq(g, 1, k) \o (SubSeq(g, k + 1, Len(g)) \o q) = g \o q
<1>1. Len(g) \in Nat /\ k \in Nat /\ k <= Len(g)
  BY LenProperties
<1>2. SubSeq(g, 1, k) \in Seq(Message)
  BY <1>1, PartOfLine
<1>3. SubSeq(g, k + 1, Len(g)) \in Seq(Message)
  BY <1>1, PartOfLine
<1>4. SubSeq(g, 1, k) \o SubSeq(g, k + 1, Len(g)) = g
  <2>1. 1 \in 1..Len(g) + 1 /\ k \in 1 - 1..Len(g) /\ Len(g) \in k..Len(g)
    BY <1>1
  <2>2. SubSeq(g, 1, k) \o SubSeq(g, k + 1, Len(g)) = SubSeq(g, 1, Len(g))
    BY <2>1, ConcatAdjacentSubSeq
  <2> QED
    BY <2>2, SubSeqFull
<1> DEFINE front == SubSeq(g, 1, k)
           back == SubSeq(g, k + 1, Len(g))
<1> HIDE DEF front, back
<1>5. front \in Seq(Message) /\ back \in Seq(Message) /\ front \o back = g
  BY <1>2, <1>3, <1>4 DEF front, back
<1>6. back \o q \in Seq(Message) /\ front \o (back \o q) = g \o q
  <2>1. back \o q \in Seq(Message)
    BY <1>5, ConcatProperties
  <2>2. \A a, b, c \in Seq(Message) : (a \o b) \o c = a \o (b \o c)
    BY ConcatAssociative
  <2>3. (front \o back) \o q = front \o (back \o q)
    BY <1>5, <2>2
  <2> QED
    BY <1>5, <2>1, <2>3
<1> QED
  BY <1>5, <1>6 DEF front, back

----------------------------------------------------------------------------
(* The steps.                                                              *)

\* The initial state satisfies the invariant.
LEMMA InitEstablishes ==
  Init => IInv
<1> SUFFICES ASSUME Init PROVE IInv
  OBVIOUS
<1>1. ThreadInv
  BY ThreadInitEstablishes DEF Init
<1>2. TypeOK
  BY <1>1 DEF Init, TypeOK, ThreadInv, MakeQueue
<1>3. Waiting
  BY DEF Init, ThreadInit, Waiting
<1>4. MailInOrder
  BY DEF Init, MailInOrder, MakeQueue
<1> QED
  BY <1>1, <1>2, <1>3, <1>4 DEF IInv

\* A step that interrupts the threads of I and leaves the mailboxes alone,
\* except for the flags of I.
LEMMA InterruptKeeps ==
  ASSUME IInv, ThreadInv', NEW I, Interrupts(I), UNCHANGED <<mailbox, sent, got>>,
         waitingMail' \in [Thread -> BOOLEAN],
         \A v \in Thread : waitingMail'[v] <=> waitingMail[v] /\ v \notin I
  PROVE  IInv'
<1>1. TypeOK'
  BY DEF IInv, TypeOK, ThreadInv
<1>2. Waiting'
  BY DEF IInv, Waiting, Interrupts
<1>3. MailInOrder'
  BY DEF IInv, MailInOrder
<1> QED
  BY <1>1, <1>2, <1>3 DEF IInv

\* The flags after the interrupt callback of u.
LEMMA InterruptFlags ==
  ASSUME IInv, NEW u \in Thread, Interrupt(u)
  PROVE  /\ waitingMail' \in [Thread -> BOOLEAN]
         /\ \A v \in Thread : waitingMail'[v] <=> waitingMail[v] /\ v \notin {u}
  BY DEF IInv, TypeOK, Waiting, Interrupt

\* The flags after do-break-thread of u.
LEMMA BreakFlags ==
  ASSUME IInv, NEW u \in Thread, BreakMail(u)
  PROVE  /\ waitingMail' \in [Thread -> BOOLEAN]
         /\ \A v \in Thread : waitingMail'[v] <=> waitingMail[v] /\ v \notin {u}
<1>1. CASE suspended[u]
  BY <1>1 DEF IInv, TypeOK, ThreadInv, Callbacks, Waiting, BreakMail
<1>2. CASE ~suspended[u]
  BY <1>2, InterruptFlags DEF BreakMail
<1> QED
  BY <1>1, <1>2

\* The steps of the scheduler and of thread.rkt that leave the mailboxes alone.
LEMMA ThreadStepKeeps ==
  ASSUME Corners = {}, IInv, NEW t \in Thread, ThreadStep(t), UNCHANGED mailVars
  PROVE  IInv'
<1> USE DEF IInv
<1>1. ThreadInv' /\ Interrupts({})
  <2>1. CASE SwapIn(t) \/ Preempt(t) \/ EngineBlock(t) \/ CheckBreak(t) \/ CheckForRetryingBreak(t)
    BY <2>1, SwapInKeeps, PreemptKeeps, EngineBlockKeeps, CheckBreakKeeps,
       CheckForRetryingBreakKeeps
  <2>2. ASSUME NEW on \in BOOLEAN, SetBreakEnabled(t, on)
        PROVE  ThreadInv' /\ Interrupts({})
    BY <2>2, SetBreakEnabledKeeps
  <2>3. ASSUME NEW u \in Thread, MakeThread(t, u) \/ ThreadResume(t, u)
        PROVE  ThreadInv' /\ Interrupts({})
    BY <2>3, MakeThreadKeeps, ThreadResumeKeeps
  <2> QED
    BY <2>1, <2>2, <2>3 DEF ThreadStep
<1>2. waitingMail \in [Thread -> BOOLEAN]
  BY DEF TypeOK
<1> QED
  BY <1>1, <1>2, InterruptKeeps DEF mailVars

\* thread-send.
LEMMA ThreadSendKeeps ==
  ASSUME IInv, NEW t \in Thread, NEW u \in Thread, NEW msg \in Message,
         ThreadSend(t, u, msg)
  PROVE  IInv'
<1> USE DEF IInv
<1> DEFINE W == IF waitingMail[u] THEN {u} ELSE {}
<1>a. W \in SUBSET Thread /\ \A w \in W : intr[w] = "wait"
  BY DEF Waiting
<1>b. /\ Proceed(t, W) /\ Running(t, "run") /\ got' = got
      /\ mailbox' = [mailbox EXCEPT ![u] = Append(@, msg)]
      /\ sent' = [sent EXCEPT ![u] = Append(@, msg)]
      /\ waitingMail' = [waitingMail EXCEPT ![u] = FALSE]
  BY DEF ThreadSend, EnqueueMail, QueueAdd
<1>c. \A v \in Thread : v \in W <=> waitingMail[v] /\ v = u
  OBVIOUS
<1> HIDE DEF W
<1>d. /\ ThreadInv'
      /\ \A v \in Thread : intr'[v] = "wait" <=> intr[v] = "wait" /\ v \notin W
  BY <1>a, <1>b, ProceedKeeps
<1>e. /\ mailbox \in [Thread -> Seq(Message)] /\ sent \in [Thread -> Seq(Message)]
      /\ got \in [Thread -> Seq(Message)] /\ waitingMail \in [Thread -> BOOLEAN]
  BY DEF TypeOK
<1>1. TypeOK'
  BY <1>b, <1>d, <1>e DEF TypeOK, ThreadInv
<1>2. Waiting'
  BY <1>b, <1>c, <1>d, <1>e DEF Waiting
<1>3. MailInOrder'
  <2> SUFFICES ASSUME NEW v \in Thread PROVE got'[v] \o mailbox'[v] = sent'[v]
    BY DEF MailInOrder
  <2>1. CASE v # u
    BY <1>b, <1>e, <2>1 DEF MailInOrder
  <2>2. CASE v = u
    <3>1. got[u] \o Append(mailbox[u], msg) = Append(got[u] \o mailbox[u], msg)
      BY <1>e, SendIsLast
    <3> QED
      BY <1>b, <1>e, <2>2, <3>1 DEF MailInOrder
  <2> QED
    BY <2>1, <2>2
<1> QED
  BY <1>1, <1>2, <1>3, <1>d

\* The mailbox and the messages of t after dequeue-mail!.
LEMMA DequeueMailFacts ==
  ASSUME IInv, NEW t \in Thread, IsMail(t), DequeueMail(t), UNCHANGED sent
  PROVE  /\ mailbox' \in [Thread -> Seq(Message)] /\ got' \in [Thread -> Seq(Message)]
         /\ \A v \in Thread : v # t => mailbox'[v] = mailbox[v]
         /\ MailInOrder'
<1>1. /\ mailbox \in [Thread -> Seq(Message)] /\ got \in [Thread -> Seq(Message)]
      /\ mailbox[t] # <<>>
  BY DEF IInv, TypeOK, IsMail, QueueEmpty
<1>2. /\ mailbox' = [mailbox EXCEPT ![t] = Tail(mailbox[t])]
      /\ got' = [got EXCEPT ![t] = Append(got[t], Head(mailbox[t]))]
  BY <1>1 DEF DequeueMail, QueueRemove, QueueEmpty
<1>3. /\ Append(got[t], Head(mailbox[t])) \in Seq(Message)
      /\ Tail(mailbox[t]) \in Seq(Message)
      /\ Append(got[t], Head(mailbox[t])) \o Tail(mailbox[t]) = got[t] \o mailbox[t]
  BY <1>1, ReceiveIsNext
<1>4. MailInOrder'
  <2> SUFFICES ASSUME NEW v \in Thread PROVE got'[v] \o mailbox'[v] = sent[v]
    BY DEF MailInOrder
  <2>1. got'[v] \o mailbox'[v] = got[v] \o mailbox[v]
    BY <1>1, <1>2, <1>3
  <2> QED
    BY <2>1 DEF IInv, MailInOrder
<1> QED
  BY <1>1, <1>2, <1>3, <1>4

\* thread-receive that finds a message.
LEMMA ReceiveNowKeeps ==
  ASSUME IInv, NEW t \in Thread, ReceiveNow(t)
  PROVE  IInv'
<1>1. /\ IsMail(t) /\ DequeueMail(t) /\ Proceed(t, {})
      /\ Running(t, "run") \/ Running(t, "enter")
      /\ UNCHANGED <<waitingMail, sent>>
  BY DEF ReceiveNow, Receives
<1>2. /\ ThreadInv' /\ intr[t] = "none"
      /\ \A v \in Thread : intr'[v] = "wait" <=> intr[v] = "wait"
  BY <1>1, ProceedKeeps DEF IInv
<1>3. /\ mailbox' \in [Thread -> Seq(Message)] /\ got' \in [Thread -> Seq(Message)]
      /\ \A v \in Thread : v # t => mailbox'[v] = mailbox[v]
      /\ MailInOrder'
  BY <1>1, DequeueMailFacts
<1>4. TypeOK'
  BY <1>1, <1>2, <1>3 DEF IInv, TypeOK, ThreadInv
<1>5. Waiting'
  BY <1>1, <1>2, <1>3 DEF IInv, Waiting
<1> QED
  BY <1>2, <1>3, <1>4, <1>5 DEF IInv

\* thread-try-receive that finds a message.
LEMMA TryReceiveKeeps ==
  ASSUME IInv, NEW t \in Thread, TryReceive(t)
  PROVE  IInv'
<1>1. /\ IsMail(t) /\ DequeueMail(t) /\ Running(t, "run")
      /\ UNCHANGED threadVars /\ UNCHANGED <<waitingMail, sent>>
  BY DEF TryReceive
<1>2. ThreadInv' /\ intr' = intr /\ intr[t] = "none"
  BY <1>1, ThreadStutterKeeps DEF IInv, ThreadInv, Scheduling, Running, threadVars
<1>3. /\ mailbox' \in [Thread -> Seq(Message)] /\ got' \in [Thread -> Seq(Message)]
      /\ \A v \in Thread : v # t => mailbox'[v] = mailbox[v]
      /\ MailInOrder'
  BY <1>1, DequeueMailFacts
<1>4. TypeOK'
  BY <1>1, <1>2, <1>3 DEF IInv, TypeOK, ThreadInv
<1>5. Waiting'
  BY <1>1, <1>2, <1>3 DEF IInv, Waiting
<1> QED
  BY <1>2, <1>3, <1>4, <1>5 DEF IInv

\* thread-receive that finds no message.
LEMMA ReceiveBlockKeeps ==
  ASSUME IInv, NEW t \in Thread, ReceiveBlock(t)
  PROVE  IInv'
<1>1. /\ mailbox[t] = <<>> /\ Block(t, Receive) /\ Receive \in Op
      /\ Running(t, "run") \/ Running(t, "enter")
      /\ waitingMail' = [waitingMail EXCEPT ![t] = TRUE]
      /\ UNCHANGED <<mailbox, sent, got>>
  BY MailboxesAssumption DEF ReceiveBlock, Receives, IsMail, QueueEmpty
<1>2. ThreadInv' /\ intr' = [intr EXCEPT ![t] = "wait"]
  BY <1>1, BlockKeeps DEF IInv
<1>3. TypeOK'
  BY <1>1, <1>2 DEF IInv, TypeOK, ThreadInv
<1>4. Waiting'
  BY <1>1, <1>2 DEF IInv, Waiting, TypeOK, ThreadTypeOK
<1>5. MailInOrder'
  BY <1>1 DEF IInv, MailInOrder
<1> QED
  BY <1>2, <1>3, <1>4, <1>5 DEF IInv

\* thread-rewind-receive.
LEMMA ThreadRewindReceiveKeeps ==
  ASSUME IInv, NEW t \in Thread, NEW n \in 1..Len(got[t]),
         ThreadRewindReceive(t, n)
  PROVE  IInv'
<1> DEFINE kept == Len(got[t]) - n
           back == SubSeq(got[t], kept + 1, Len(got[t])) \o mailbox[t]
           front == SubSeq(got[t], 1, kept)
<1>1. /\ mailbox \in [Thread -> Seq(Message)] /\ got \in [Thread -> Seq(Message)]
      /\ kept \in 0..Len(got[t])
  BY DEF IInv, TypeOK
<1>2. /\ mailbox' = [mailbox EXCEPT ![t] = back]
      /\ got' = [got EXCEPT ![t] = front] /\ Running(t, "run")
      /\ UNCHANGED threadVars /\ UNCHANGED <<waitingMail, sent>>
  BY DEF ThreadRewindReceive
<1>3. /\ front \in Seq(Message) /\ back \in Seq(Message)
      /\ front \o back = got[t] \o mailbox[t]
  BY <1>1, RewindIsFirst
<1> HIDE DEF front, back
<1>4. ThreadInv' /\ intr' = intr /\ intr[t] = "none"
  BY <1>2, ThreadStutterKeeps DEF IInv, ThreadInv, Scheduling, Running, threadVars
<1>5. TypeOK'
  BY <1>1, <1>2, <1>3, <1>4 DEF IInv, TypeOK, ThreadInv
<1>6. Waiting'
  BY <1>1, <1>2, <1>4 DEF IInv, Waiting
<1>7. MailInOrder'
  <2> SUFFICES ASSUME NEW v \in Thread PROVE got'[v] \o mailbox'[v] = sent[v]
    BY <1>2 DEF MailInOrder
  <2>1. got'[v] \o mailbox'[v] = got[v] \o mailbox[v]
    BY <1>1, <1>2, <1>3
  <2> QED
    BY <2>1 DEF IInv, MailInOrder
<1> QED
  BY <1>4, <1>5, <1>6, <1>7 DEF IInv

\* The end of do-yield.
LEMMA DoYieldKeeps ==
  ASSUME IInv, NEW t \in Thread, DoYield(t)
  PROVE  IInv'
<1> USE ThreadsAssumption, MailboxesAssumption DEF DoYield, Running, mailVars, IInv, ThreadInv
<1>0. intr[t] = "none" /\ op[t] # NoOp
  BY DEF Scheduling
<1>1. ThreadTypeOK'
  BY DEF ThreadTypeOK
<1>2. Scheduling'
  BY DEF ThreadTypeOK, Scheduling, Live, Made, Dead
<1>3. Callbacks'
  BY DEF ThreadTypeOK, Callbacks, Live, Made, Dead
<1>4. Continuations'
  BY <1>0 DEF ThreadTypeOK, Continuations, Live, Made, Dead
<1>5. TypeOK'
  BY <1>1 DEF TypeOK
<1>6. Waiting' /\ MailInOrder'
  BY DEF Waiting, MailInOrder
<1> QED
  BY <1>1, <1>2, <1>3, <1>4, <1>5, <1>6

----------------------------------------------------------------------------
(* The theorems.                                                           *)

\* No step of a program without corners leaves the invariant.
LEMMA NextKeeps ==
  ASSUME Corners = {}, IInv, [Next]_vars
  PROVE  IInv'
<1>0. waitingMail \in [Thread -> BOOLEAN] /\ ThreadInv
  BY DEF IInv, TypeOK
<1>1. ASSUME NEW t \in Thread, ThreadStep(t), UNCHANGED mailVars
      PROVE  IInv'
  BY <1>1, ThreadStepKeeps
<1>2. ASSUME NEW t \in Thread, FinishThread(t)
      PROVE  IInv'
  BY <1>0, <1>2, FinishKeeps, InterruptKeeps DEF FinishThread, mailVars
<1>3. ASSUME NEW t \in Thread, NEW u \in Thread, Kill(t, u)
      PROVE  IInv'
  BY <1>0, <1>3, KillThreadKeeps, InterruptFlags, InterruptKeeps DEF Kill
<1>4. ASSUME NEW t \in Thread, NEW u \in Thread, Suspend(t, u)
      PROVE  IInv'
  BY <1>0, <1>4, ThreadSuspendKeeps, InterruptFlags, InterruptKeeps DEF Suspend
<1>5. ASSUME NEW t \in Thread, NEW u \in Thread, Break(t, u)
      PROVE  IInv'
  <2>1. ThreadInv' /\ Interrupts({u}) /\ BreakMail(u)
    BY <1>0, <1>5, BreakThreadKeeps DEF Break
  <2> QED
    BY <2>1, BreakFlags, InterruptKeeps DEF BreakMail
<1>6. CASE CtlCBreak
  <2>1. ThreadInv' /\ Interrupts({Main}) /\ BreakMail(Main)
    BY <1>0, <1>6, CtlCKeeps DEF CtlCBreak
  <2> QED
    BY <2>1, ThreadsAssumption, BreakFlags, InterruptKeeps DEF BreakMail
<1>7. ASSUME NEW t \in Thread, DoYield(t) \/ ReceiveNow(t) \/ ReceiveBlock(t) \/ TryReceive(t)
      PROVE  IInv'
  BY <1>7, DoYieldKeeps, ReceiveNowKeeps, ReceiveBlockKeeps, TryReceiveKeeps
<1>8. ASSUME NEW t \in Thread, NEW u \in Thread, NEW msg \in Message, ThreadSend(t, u, msg)
      PROVE  IInv'
  BY <1>8, ThreadSendKeeps
<1>9. ASSUME NEW t \in Thread, NEW n \in 1..Len(got[t]), ThreadRewindReceive(t, n)
      PROVE  IInv'
  BY <1>9, ThreadRewindReceiveKeeps
<1>10. CASE UNCHANGED vars
  BY <1>0, <1>10, ThreadStutterKeeps, InterruptKeeps DEF vars, mailVars
<1> QED
  BY <1>1, <1>2, <1>3, <1>4, <1>5, <1>6, <1>7, <1>8, <1>9, <1>10 DEF Next

\* The invariant holds for ever, whatever the threads do to each other.
THEOREM Invariance ==
  Corners = {} /\ Spec => []IInv
<1> SUFFICES ASSUME Corners = {} PROVE Spec => []IInv
  OBVIOUS
<1>1. IInv /\ [Next]_vars => IInv'
  BY NextKeeps
<1> QED
  BY InitEstablishes, <1>1, PTL DEF Spec

\* The state stays type correct.
THEOREM TypeCorrect ==
  Corners = {} /\ Spec => []TypeOK
<1>1. IInv => TypeOK
  BY DEF IInv
<1> QED
  BY Invariance, <1>1, PTL

\* No thread-group list is corrupted and no dead thread is resumed by a send.
THEOREM NotCorrupted ==
  Corners = {} /\ Spec => []NeverCorrupted
<1>1. IInv => NeverCorrupted
  BY DEF IInv, ThreadInv, Scheduling, NeverCorrupted
<1> QED
  BY Invariance, <1>1, PTL

\* Every message is received or still in the mailbox, once and in the order
\* of the sends.
THEOREM MailStaysInOrder ==
  Corners = {} /\ Spec => []MailInOrder
<1>1. IInv => MailInOrder
  BY DEF IInv
<1> QED
  BY Invariance, <1>1, PTL

\* No wakeup is lost: who waits for mail has none.
THEOREM NoMailMissed ==
  Corners = {} /\ Spec => []WaitsOnlyWithoutMail
<1>1. ASSUME IInv PROVE WaitsOnlyWithoutMail
  <2> SUFFICES ASSUME NEW u \in Thread, Live(u), ~suspended[u], u \notin group
               PROVE  waitingMail[u] /\ ~IsMail(u)
    BY DEF WaitsOnlyWithoutMail
  <2>1. intr[u] = "wait"
    BY <1>1 DEF IInv, ThreadInv, ThreadTypeOK, Scheduling, Callbacks
  <2> QED
    BY <1>1, <2>1 DEF IInv, Waiting, IsMail, QueueEmpty
<1> QED
  BY Invariance, <1>1, PTL

\* The flag of a thread is set only while thread-send may resume it.
THEOREM FlagIsBlocked ==
  Corners = {} /\ Spec => []FlagMeansBlocked
<1>1. IInv => FlagMeansBlocked
  BY DEF IInv, ThreadInv, Scheduling, Callbacks, Waiting, FlagMeansBlocked
<1> QED
  BY Invariance, <1>1, PTL
=============================================================================
