----------------------------- MODULE WaitQueue -----------------------------
(***************************************************************************)
(* The mutable queue of racket/src/common/queue.rkt, as the sequence of    *)
(* the elements of its nodes from queue-start to queue-end.  The clients   *)
(* (semaphores, channels, mailboxes) call it only in atomic mode, so one   *)
(* operation is one operator from the old contents to the new ones.  A     *)
(* node is named by its position in the line.                              *)
(***************************************************************************)
EXTENDS Integers, Sequences, SequencesExt

\* (make-queue)
MakeQueue == <<>>

\* (queue-empty? q)
QueueEmpty(q) == q = <<>>

\* (queue-add! q w): the new node goes to the end of the line.
QueueAdd(q, w) == Append(q, w)

\* (queue-add-front! q w)
QueueAddFront(q, w) == <<w>> \o q

\* (queue-remove! q): its result, for a queue that is not empty, is Head(q).
QueueRemove(q) == IF QueueEmpty(q) THEN q ELSE Tail(q)

\* (queue-remove-node! q n), for the node n at position i.
QueueRemoveNode(q, i) == RemoveAt(q, i)

\* The node that a waiter w added to the line: the interrupt callbacks of
\* semaphore-wait, channel-get and channel-put keep it in `n`.
NodeOf(q, w) == CHOOSE i \in DOMAIN q : q[i] = w

\* The line after w gets out of it, wherever it stands.
GetOutOfLine(q, w) == QueueRemoveNode(q, NodeOf(q, w))

\* No element stands in the line twice.
NoDuplicates(q) == \A i, j \in DOMAIN q : q[i] = q[j] => i = j
=============================================================================
