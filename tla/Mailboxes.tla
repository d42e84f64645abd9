----------------------------- MODULE Mailboxes -----------------------------
(***************************************************************************)
(* The mailbox of every thread (the last part of thread.rkt): thread-send, *)
(* thread-receive, thread-try-receive and thread-rewind-receive over the   *)
(* threads of module Threads.  The history variables sent and got record   *)
(* what the program handed over and what it was given.                     *)
(***************************************************************************)
EXTENDS Threads, WaitQueue

CONSTANTS
  Receive,   \* the one blocking operation of this module
  Message    \* what the program sends; it sends each message once

ASSUME MailboxesAssumption == Op = {Receive}

VARIABLES
  mailbox,      \* thread-mailbox
  waitingMail,  \* thread-waiting-mail?
  sent,         \* sent[u]: the messages thread-send accepted for u, in order
  got           \* got[u]: the messages u received and did not rewind

mailVars == <<mailbox, waitingMail, sent, got>>
vars == <<threadVars, mailVars>>

TypeOK ==
  /\ ThreadTypeOK
  /\ mailbox \in [Thread -> Seq(Message)]
  /\ waitingMail \in [Thread -> BOOLEAN]
  /\ sent \in [Thread -> Seq(Message)]
  /\ got \in [Thread -> Seq(Message)]

Init ==
  /\ ThreadInit
  /\ mailbox = [t \in Thread |-> MakeQueue]
  /\ waitingMail = [t \in Thread |-> FALSE]
  /\ sent = [t \in Thread |-> <<>>]
  /\ got = [t \in Thread |-> <<>>]

----------------------------------------------------------------------------
\* (is-mail? t)
IsMail(t) == ~QueueEmpty(mailbox[t])

\* Mutant: the target is queued in place of the message.
BuggyEnqueueMail(u, msg) == mailbox' = [mailbox EXCEPT ![u] = QueueAdd(@, u)]

\* Mutant: the message goes to the front of the mailbox.
UnorderedEnqueueMail(u, msg) == mailbox' = [mailbox EXCEPT ![u] = QueueAddFront(@, msg)]

\* (enqueue-mail! u msg)
EnqueueMail(u, msg) == mailbox' = [mailbox EXCEPT ![u] = QueueAdd(@, msg)]

\* (dequeue-mail! t), whose result t is given.
DequeueMail(t) ==
  /\ mailbox' = [mailbox EXCEPT ![t] = QueueRemove(@)]
  /\ got' = [got EXCEPT ![t] = Append(@, Head(mailbox[t]))]

\* The program has not sent msg yet.
Unsent(msg) == \A u \in Thread : msg \notin ToSet(sent[u])

\* Mutant: the receiver is not woken up.
BuggyThreadSend(t, u, msg) ==
  /\ Running(t, "run") /\ Live(u) /\ Unsent(msg)
  /\ EnqueueMail(u, msg)
  /\ sent' = [sent EXCEPT ![u] = Append(@, msg)]
  /\ UNCHANGED <<threadVars, waitingMail, got>>

\* (thread-send u msg); a dead thread is sent nothing.
ThreadSend(t, u, msg) ==
  /\ Running(t, "run") /\ Live(u) /\ Unsent(msg)
  /\ EnqueueMail(u, msg)
  /\ sent' = [sent EXCEPT ![u] = Append(@, msg)]
  /\ waitingMail' = [waitingMail EXCEPT ![u] = FALSE]
  /\ Proceed(t, IF waitingMail[u] THEN {u} ELSE {})
  /\ UNCHANGED got

\* t calls (thread-receive), or calls it again after its do-yield.
Receives(t) == Running(t, "run") \/ Running(t, "enter")

\* (thread-receive) finds a message.
ReceiveNow(t) ==
  /\ Receives(t) /\ IsMail(t)
  /\ DequeueMail(t)
  /\ Proceed(t, {})
  /\ UNCHANGED <<waitingMail, sent>>

\* (thread-receive) finds no message.
ReceiveBlock(t) ==
  /\ Receives(t) /\ ~IsMail(t)
  /\ waitingMail' = [waitingMail EXCEPT ![t] = TRUE]
  /\ Block(t, Receive)
  /\ UNCHANGED <<mailbox, sent, got>>

\* (thread-try-receive) when there is a message.
TryReceive(t) ==
  /\ Running(t, "run") /\ IsMail(t)
  /\ DequeueMail(t)
  /\ UNCHANGED <<threadVars, waitingMail, sent>>

\* (thread-rewind-receive lst), where lst holds the n messages t received
\* last, the newest one first: each is pushed on the front in turn, so that
\* the oldest of them ends up at the front.
ThreadRewindReceive(t, n) ==
  /\ Running(t, "run")
  /\ LET kept == Len(got[t]) - n
     IN  /\ mailbox' = [mailbox EXCEPT ![t] =
                          SubSeq(got[t], kept + 1, Len(got[t])) \o @]
         /\ got' = [got EXCEPT ![t] = SubSeq(@, 1, kept)]
  /\ UNCHANGED <<threadVars, waitingMail, sent>>

\* The end of do-yield: check-for-retrying-break with the retry callback
\* void, after which thread-receive is called again in either case.
DoYield(t) ==
  /\ Running(t, "woken") /\ op[t] = Receive
  /\ needsRetry' = [needsRetry EXCEPT ![t] = FALSE]
  /\ pc' = [pc EXCEPT ![t] = IF needsRetry[t] THEN "check" ELSE "enter"]
  /\ UNCHANGED <<current, engine, group, intr, suspended, pendingBreak,
                 breakEnabled, op, status, mailVars>>

----------------------------------------------------------------------------
\* Mutant: an interrupted thread still waits for mail.
BuggyInterrupt(u) == UNCHANGED waitingMail

\* The interrupt callback of thread-receive, if u is blocked in it.
Interrupt(u) ==
  waitingMail' = [waitingMail EXCEPT ![u] = @ /\ intr[u] # "wait"]

FinishThread(t) == Finish(t, {}) /\ UNCHANGED mailVars

Kill(t, u) ==
  KillThread(t, u, {}) /\ Interrupt(u) /\ UNCHANGED <<mailbox, sent, got>>

Suspend(t, u) ==
  ThreadSuspend(t, u) /\ Interrupt(u) /\ UNCHANGED <<mailbox, sent, got>>

\* The mailboxes after do-break-thread.
BreakMail(u) ==
  /\ IF suspended[u] THEN UNCHANGED waitingMail ELSE Interrupt(u)
  /\ UNCHANGED <<mailbox, sent, got>>

Break(t, u) == BreakThread(t, u) /\ BreakMail(u)

CtlCBreak == CtlC /\ BreakMail(Main)

\* The steps of one thread that leave every mailbox alone.
ThreadStep(t) ==
  \/ SwapIn(t) \/ Preempt(t) \/ EngineBlock(t) \/ CheckBreak(t)
  \/ CheckForRetryingBreak(t) /\ op[t] = NoOp
  \/ \E on \in BOOLEAN : SetBreakEnabled(t, on)
  \/ \E u \in Thread : MakeThread(t, u) \/ ThreadResume(t, u)

Next ==
  \/ \E t \in Thread : ThreadStep(t) /\ UNCHANGED mailVars
  \/ \E t \in Thread : FinishThread(t) \/ DoYield(t)
  \/ \E t, u \in Thread : Kill(t, u) \/ Suspend(t, u) \/ Break(t, u)
  \/ \E t, u \in Thread, msg \in Message : ThreadSend(t, u, msg)
  \/ \E t \in Thread : ReceiveNow(t) \/ ReceiveBlock(t) \/ TryReceive(t)
  \/ \E t \in Thread : \E n \in 1..Len(got[t]) : ThreadRewindReceive(t, n)
  \/ CtlCBreak

Spec == Init /\ [][Next]_vars

----------------------------------------------------------------------------
(* Properties.                                                             *)

\* threads.scrbl: the mailbox is a queue.  Whatever interrupts the receiver,
\* each message it was sent is received or still in the mailbox, once and in
\* the order of the sends.
MailInOrder == \A u \in Thread : got[u] \o mailbox[u] = sent[u]

\* No wakeup is lost: a live thread that is neither suspended nor schedulable
\* waits for mail, and has none.
WaitsOnlyWithoutMail ==
  \A u \in Thread :
    Live(u) /\ ~suspended[u] /\ u \notin group => waitingMail[u] /\ ~IsMail(u)

\* The flag that makes thread-send resume its target is up only while the
\* target is blocked in thread-receive, so that the target of a break, a
\* suspend or a kill that came first is not resumed once more.
FlagMeansBlocked ==
  \A u \in Thread :
    waitingMail[u] =>
      Live(u) /\ ~suspended[u] /\ u \notin group /\ intr[u] = "wait"

\* No operation corrupts the thread group or resumes a dead thread.
NeverCorrupted == status \in {"up", "exit"}
=============================================================================
