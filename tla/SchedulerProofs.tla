-------------------------- MODULE SchedulerProofs --------------------------
(***************************************************************************)
(* Proofs, for any finite set of threads and any bound on the clock, of    *)
(* type correctness and of the safety of the thread group: its links are a *)
(* list of the threads that can be scheduled, and a thread that the cursor *)
(* has not passed is not overtaken.                                        *)
(***************************************************************************)
EXTENDS Scheduler, FiniteSetTheorems, WellFoundedInduction, TLAPS

----------------------------------------------------------------------------
(* The inductive invariant.                                                *)

\* The group h has the threads R, and its cursor is at one of them or at the
\* end.
Members(h, R) ==
  /\ \E s \in [1..h.num -> R] : IsChain(h, R, h.num, s)
  /\ h.num = Cardinality(R)
  /\ h.chain \in R \cup {None}

\* The running engine is the current thread's, which is in the group; while
\* the process sleeps, none is; and a thread that is not made yet is blank.
Engines ==
  /\ \A t \in Thread : engine[t] = "running" <=> current = t
  /\ \A t \in Thread : current = t => intr[t] = "none"
  /\ timeout # Never => current = None
  /\ \A t \in Thread : engine[t] = "none" =>
       intr[t] = "none" /\ ~suspended[t] /\ ~needsRetry[t]

Live(t) == engine[t] \in {"ready", "running"}

\* What the interrupt callback of a thread says of it: a suspended thread is
\* outside of the group; one that is not suspended and has a callback blocks,
\* and has nothing to retry; what is to be retried blocks.
Callbacks ==
  \A t \in Thread : Live(t) =>
    /\ suspended[t] => intr[t] # "none"
    /\ intr[t] # "none" /\ ~suspended[t] => ~needsRetry[t] /\ op[t] # "none"
    /\ needsRetry[t] => op[t] # "none"

\* Threads in line, and threads that sleep, are blocked.
Blocked ==
  \A t \in Thread :
    /\ t \in waiting => Live(t) /\ intr[t] # "none" /\ ~suspended[t] /\ op[t] = "wait"
    /\ sleepUntil[t] # Never => Live(t) /\ intr[t] # "none" /\ op[t] = "sleep"

\* The tree has exactly the threads that sleep, each under a key of its own.
Sleepers ==
  /\ \A t \in Thread : \A m \in Time : t \in sleeping[m] <=> sleepUntil[t] = m
  /\ \A t, u \in Thread : sleepUntil[t] = sleepUntil[u] /\ t # u => sleepUntil[t] = Never

\* The program ends only when no thread could run or wake up, and never with
\* an internal error.
Endings ==
  /\ status # "error"
  /\ status = "done" => Runnable = {} /\ \A t \in Thread : sleepUntil[t] = Never

Core ==
  Members(g, Runnable) /\ Engines /\ Callbacks /\ Blocked /\ Sleepers /\ Endings

IInv == TypeOK /\ (odd = {} => Core)

\* What a step does to the group: a thread joins or leaves it, or the next one
\* is taken from it, perhaps after one has joined.
Stays == UNCHANGED g /\ Runnable' = Runnable /\ current' \in {current, None}

Joins(h, R, u) == u \in Thread \ Runnable /\ h = Added(g, u) /\ R = Runnable \cup {u}

Leaves(u) ==
  /\ u \in Runnable /\ g' = Removed(g, u) /\ Runnable' = Runnable \ {u}
  /\ current' \in {current, None}

Swaps(h) ==
  /\ current = None /\ h \in Group /\ Members(h, Runnable')
  /\ \/ h = g /\ Runnable' = Runnable
     \/ \E u \in Thread : Joins(h, Runnable', u)
  /\ NextOf(h) # None
  /\ g' = [h EXCEPT !.chain = h.next[NextOf(h)]] /\ current' = NextOf(h)

GroupStep ==
  \/ Stays
  \/ \E u \in Thread : Joins(g', Runnable', u) /\ current' \in {current, None}
  \/ \E u \in Thread : Leaves(u)
  \/ \E h \in Group : Swaps(h)

----------------------------------------------------------------------------
(* The thread group.                                                       *)

\* The list r has the elements of the list s of length n, then perhaps others.
Extends(r, s, n) == \A i \in 1..n : r[i] = s[i]

\* The list r is the list s, of length n, without the element at p.
Skips(r, s, n, p) == \A i \in 1..(n - 1) : r[i] = IF i < p THEN s[i] ELSE s[i + 1]

\* thread-group-add! sets the fields one by one.
LEMMA AddedFields ==
  ASSUME NEW h \in Group, NEW t \in Thread
  PROVE  /\ Added(h, t).prev = [h.prev EXCEPT ![t] = h.end]
         /\ Added(h, t).next = [u \in Thread |-> IF u = t THEN None
                                       ELSE IF u = h.end THEN t ELSE h.next[u]]
         /\ Added(h, t).start = IF h.end = None THEN t ELSE h.start
         /\ Added(h, t).end = t
         /\ Added(h, t).chain = h.chain
         /\ Added(h, t).num = h.num + 1
  BY DEF Added, Group

\* A group with another thread is a group, if there is room for one.
LEMMA AddedGroup ==
  ASSUME NEW h \in Group, NEW t \in Thread, h.num + 1 \in 0..Cardinality(Thread)
  PROVE  Added(h, t) \in Group
  BY SchedulerAssumption DEF Added, Group

\* thread-group-remove! sets the links one by one.
LEMMA RemovedFields ==
  ASSUME NEW h \in Group, NEW t \in Thread
  PROVE  /\ Removed(h, t).prev = [u \in Thread |->
              IF u = t THEN None ELSE IF u = h.next[t] THEN h.prev[t] ELSE h.prev[u]]
         /\ Removed(h, t).next = [u \in Thread |->
              IF u = t THEN None ELSE IF u = h.prev[t] THEN h.next[t] ELSE h.next[u]]
         /\ Removed(h, t).start = IF h.prev[t] = None THEN h.next[t] ELSE h.start
         /\ Removed(h, t).end = IF h.next[t] = None THEN h.prev[t] ELSE h.end
  BY DEF Removed, Group

\* A cursor at the thread that leaves moves on.
LEMMA RemovedCursor ==
  ASSUME NEW h \in Group, NEW t \in Thread
  PROVE  /\ Removed(h, t).chain = IF h.chain = t THEN h.next[t] ELSE h.chain
         /\ Removed(h, t).num = h.num - 1
  BY DEF Removed, Group

\* A group without one of its threads is a group.
LEMMA RemovedGroup ==
  ASSUME NEW h \in Group, NEW t \in Thread, h.num - 1 \in 0..Cardinality(Thread)
  PROVE  Removed(h, t) \in Group
  BY SchedulerAssumption DEF Removed, Group

\* A thread that joins is the last one of the list.
LEMMA AddedListed ==
  ASSUME NEW h \in Group, NEW R \in SUBSET Thread, NEW n \in Nat,
         NEW s, IsChain(h, R, n, s),
         NEW t \in Thread, t \notin R
  PROVE  \E r \in [1..(n + 1) -> R \cup {t}] :
           IsChain(Added(h, t), R \cup {t}, n + 1, r) /\ Extends(r, s, n)
<1>1. PICK r : r = [i \in 1..(n + 1) |-> IF i = n + 1 THEN t ELSE s[i]]
  OBVIOUS
<1>2. s \in [1..n -> R]
  BY DEF IsChain
<1>3. r \in [1..(n + 1) -> R \cup {t}] /\ r[n + 1] = t /\ \A i \in 1..n : r[i] = s[i]
  BY <1>1, <1>2
<1>4. \A u \in R \cup {t} : \E i \in 1..(n + 1) : r[i] = u
  BY <1>3 DEF IsChain
<1>5. ASSUME NEW i \in 1..(n + 1), NEW j \in 1..(n + 1), r[i] = r[j] PROVE i = j
  <2>1. \A a, b \in 1..n : s[a] = s[b] => a = b
    BY DEF IsChain
  <2>2. \A a \in 1..n : r[a] = s[a] /\ s[a] # t
    BY <1>2, <1>3
  <2>3. CASE i = n + 1 \/ j = n + 1
    BY <1>3, <1>5, <2>2, <2>3
  <2>4. CASE i # n + 1 /\ j # n + 1
    <3>1. i \in 1..n /\ j \in 1..n
      BY <2>4
    <3> QED
      BY <1>5, <2>1, <2>2, <3>1
  <2> QED
    BY <2>3, <2>4
<1>6. PICK k : k = Added(h, t)
  OBVIOUS
<1>7. /\ k.prev = [h.prev EXCEPT ![t] = h.end]
      /\ k.next = [u \in Thread |-> IF u = t THEN None
                                    ELSE IF u = h.end THEN t ELSE h.next[u]]
      /\ k.start = IF h.end = None THEN t ELSE h.start
      /\ k.end = t
  BY <1>6, AddedFields
<1>8. h.prev \in [Thread -> Thread \cup {None}]
  BY DEF Group
<1>9. h.start = (IF n = 0 THEN None ELSE s[1]) /\ h.end = (IF n = 0 THEN None ELSE s[n])
  BY DEF IsChain
<1>10. k.start = r[1] /\ k.end = r[n + 1]
  BY <1>2, <1>3, <1>7, <1>9, SchedulerAssumption
<1>11. ASSUME NEW i \in 1..(n + 1)
       PROVE  /\ k.next[r[i]] = IF i = n + 1 THEN None ELSE r[i + 1]
              /\ k.prev[r[i]] = IF i = 1 THEN None ELSE r[i - 1]
  <2>1. CASE i = n + 1
    BY <2>1, <1>2, <1>3, <1>7, <1>8, <1>9
  <2>2. CASE i # n + 1
    <3>1. i \in 1..n /\ r[i] = s[i] /\ s[i] \in R /\ s[i] # t
      BY <2>2, <1>2, <1>3
    <3>2. /\ h.next[s[i]] = IF i = n THEN None ELSE s[i + 1]
          /\ h.prev[s[i]] = IF i = 1 THEN None ELSE s[i - 1]
      BY <3>1 DEF IsChain
    <3>3. k.prev[r[i]] = IF i = 1 THEN None ELSE r[i - 1]
      BY <3>1, <3>2, <1>3, <1>7, <1>8
    <3>4. CASE i = n
      BY <3>1, <3>4, <3>3, <1>3, <1>7, <1>9
    <3>5. CASE i # n
      <4>1. s[i] # s[n] /\ n # 0
        BY <3>1, <3>5 DEF IsChain
      <4>2. k.next[r[i]] = s[i + 1] /\ r[i + 1] = s[i + 1]
        BY <3>1, <3>2, <3>5, <4>1, <1>3, <1>7, <1>9
      <4> QED
        BY <4>2, <2>2, <3>3
    <3> QED
      BY <3>4, <3>5
  <2> QED
    BY <2>1, <2>2
<1>12. IsChain(k, R \cup {t}, n + 1, r)
  BY <1>3, <1>4, <1>5, <1>10, <1>11 DEF IsChain
<1> QED
  BY <1>3, <1>6, <1>12 DEF Extends

\* A thread that leaves takes its place out of the list.
LEMMA RemovedListed ==
  ASSUME NEW h \in Group, NEW R \in SUBSET Thread, NEW n \in Nat,
         NEW s, IsChain(h, R, n, s),
         NEW t \in R, NEW p \in 1..n, s[p] = t
  PROVE  /\ n - 1 \in Nat
         /\ h.next[t] \in (R \ {t}) \cup {None}
         /\ \E r \in [1..(n - 1) -> R \ {t}] :
              IsChain(Removed(h, t), R \ {t}, n - 1, r) /\ Skips(r, s, n, p)
<1>1. s \in [1..n -> R]
  BY DEF IsChain
<1>2. p \in 1..n /\ s[p] = t
  OBVIOUS
<1>3. n - 1 \in Nat
  BY <1>2
<1>4. \A i, j \in 1..n : s[i] = s[j] => i = j
  BY DEF IsChain
<1>5. /\ h.next[t] = IF p = n THEN None ELSE s[p + 1]
      /\ h.prev[t] = IF p = 1 THEN None ELSE s[p - 1]
  BY <1>2 DEF IsChain
<1>6. h.next[t] \in (R \ {t}) \cup {None}
  BY <1>1, <1>2, <1>4, <1>5
<1>7. PICK r : r = [i \in 1..(n - 1) |-> IF i < p THEN s[i] ELSE s[i + 1]]
  OBVIOUS
<1>8. r \in [1..(n - 1) -> R \ {t}]
  BY <1>1, <1>2, <1>4, <1>7
<1>9. \A i \in 1..(n - 1) : r[i] = IF i < p THEN s[i] ELSE s[i + 1]
  BY <1>7
<1>10. ASSUME NEW u \in R \ {t} PROVE \E i \in 1..(n - 1) : r[i] = u
  <2>1. PICK i \in 1..n : s[i] = u
    BY DEF IsChain
  <2>2. i # p
    BY <2>1, <1>2
  <2>3. CASE i < p
    BY <2>1, <2>3, <1>2, <1>9
  <2>4. CASE i > p
    <3>1. i - 1 \in 1..(n - 1) /\ ~(i - 1 < p) /\ (i - 1) + 1 = i
      BY <2>4, <1>2
    <3> QED
      BY <3>1, <2>1, <1>9
  <2> QED
    BY <2>2, <2>3, <2>4, <1>2
<1>11. ASSUME NEW i \in 1..(n - 1), NEW j \in 1..(n - 1), r[i] = r[j] PROVE i = j
  BY <1>2, <1>4, <1>9, <1>11
<1>12. PICK k : k = Removed(h, t)
  OBVIOUS
<1>13. /\ k.prev = [u \in Thread |->
              IF u = t THEN None ELSE IF u = h.next[t] THEN h.prev[t] ELSE h.prev[u]]
       /\ k.next = [u \in Thread |->
              IF u = t THEN None ELSE IF u = h.prev[t] THEN h.next[t] ELSE h.next[u]]
       /\ k.start = IF h.prev[t] = None THEN h.next[t] ELSE h.start
       /\ k.end = IF h.next[t] = None THEN h.prev[t] ELSE h.end
  BY <1>12, RemovedFields
<1>14. n # 0 /\ h.start = s[1] /\ h.end = s[n]
  BY <1>2 DEF IsChain
<1>15. k.start = (IF n - 1 = 0 THEN None ELSE r[1])
  BY <1>1, <1>2, <1>5, <1>9, <1>13, <1>14, SchedulerAssumption
<1>16. k.end = (IF n - 1 = 0 THEN None ELSE r[n - 1])
  <2>1. CASE p = n
    BY <2>1, <1>1, <1>2, <1>5, <1>9, <1>13, <1>14, SchedulerAssumption
  <2>2. CASE p # n
    <3>1. n - 1 \in 1..(n - 1) /\ ~(n - 1 < p) /\ (n - 1) + 1 = n
      BY <2>2, <1>2
    <3>2. h.next[t] = s[p + 1] /\ s[p + 1] \in Thread
      BY <2>2, <1>1, <1>2, <1>5
    <3> QED
      BY <3>1, <3>2, <1>9, <1>13, <1>14, SchedulerAssumption
  <2> QED
    BY <2>1, <2>2
<1>17. ASSUME NEW i \in 1..(n - 1)
       PROVE  /\ k.next[r[i]] = IF i = n - 1 THEN None ELSE r[i + 1]
              /\ k.prev[r[i]] = IF i = 1 THEN None ELSE r[i - 1]
  <2>1. PICK q \in 1..n : r[i] = s[q] /\ q = IF i < p THEN i ELSE i + 1
    BY <1>2, <1>9
  <2>2. s[q] \in Thread /\ s[q] # t
    BY <2>1, <1>8, <1>1
  <2>3. /\ h.next[s[q]] = IF q = n THEN None ELSE s[q + 1]
        /\ h.prev[s[q]] = IF q = 1 THEN None ELSE s[q - 1]
    BY DEF IsChain
  <2>4. k.next[r[i]] = IF i = n - 1 THEN None ELSE r[i + 1]
    <3>1. k.next[r[i]] = IF s[q] = h.prev[t] THEN h.next[t] ELSE h.next[s[q]]
      BY <2>1, <2>2, <1>13
    <3>2. CASE i = p - 1
      <4>1. q = i /\ s[q] = h.prev[t]
        BY <3>2, <2>1, <1>2, <1>5
      <4>2. k.next[r[i]] = IF p = n THEN None ELSE s[p + 1]
        BY <4>1, <3>1, <1>5
      <4>3. CASE p = n
        BY <4>2, <4>3, <3>2
      <4>4. CASE p # n
        <5>1. i # n - 1 /\ i + 1 = p /\ p \in 1..(n - 1)
          BY <4>4, <3>2, <1>2
        <5> QED
          BY <4>2, <4>4, <5>1, <1>9
      <4> QED
        BY <4>3, <4>4
    <3>3. CASE i # p - 1
      <4>1. s[q] # h.prev[t]
        BY <3>3, <2>1, <2>2, <1>2, <1>4, <1>5, SchedulerAssumption
      <4>2. k.next[r[i]] = IF q = n THEN None ELSE s[q + 1]
        BY <4>1, <3>1, <2>3
      <4>3. CASE i < p
        <5>1. q = i /\ i # n - 1 /\ q # n /\ i + 1 \in 1..(n - 1) /\ i + 1 < p
          BY <4>3, <3>3, <2>1, <1>2
        <5> QED
          BY <4>2, <5>1, <1>9
      <4>4. CASE ~(i < p) /\ i # n - 1
        <5>1. q = i + 1 /\ q # n /\ i + 1 \in 1..(n - 1) /\ ~(i + 1 < p)
          BY <4>4, <2>1, <1>2
        <5> QED
          BY <4>2, <4>4, <5>1, <1>9
      <4>5. CASE ~(i < p) /\ i = n - 1
        BY <4>2, <4>5, <2>1
      <4> QED
        BY <4>3, <4>4, <4>5
    <3> QED
      BY <3>2, <3>3
  <2>5. k.prev[r[i]] = IF i = 1 THEN None ELSE r[i - 1]
    <3>1. k.prev[r[i]] = IF s[q] = h.next[t] THEN h.prev[t] ELSE h.prev[s[q]]
      BY <2>1, <2>2, <1>13
    <3>2. CASE i = p
      <4>1. q = p + 1 /\ s[q] = h.next[t]
        BY <3>2, <2>1, <1>2, <1>5
      <4>2. k.prev[r[i]] = IF p = 1 THEN None ELSE s[p - 1]
        BY <4>1, <3>1, <1>5
      <4>3. CASE p = 1
        BY <4>2, <4>3, <3>2
      <4>4. CASE p # 1
        <5>1. i - 1 \in 1..(n - 1) /\ i - 1 < p
          BY <4>4, <3>2, <1>2
        <5> QED
          BY <4>2, <4>4, <5>1, <3>2, <1>9
      <4> QED
        BY <4>3, <4>4
    <3>3. CASE i # p
      <4>1. s[q] # h.next[t]
        BY <3>3, <2>1, <2>2, <1>2, <1>4, <1>5, SchedulerAssumption
      <4>2. k.prev[r[i]] = IF q = 1 THEN None ELSE s[q - 1]
        BY <4>1, <3>1, <2>3
      <4>3. CASE i = 1
        BY <4>2, <4>3, <3>3, <2>1, <1>2
      <4>4. CASE i # 1 /\ i < p
        <5>1. q = i /\ i - 1 \in 1..(n - 1) /\ i - 1 < p
          BY <4>4, <2>1, <1>2
        <5> QED
          BY <4>2, <4>4, <5>1, <1>9
      <4>5. CASE i # 1 /\ ~(i < p)
        <5>1. q = i + 1 /\ q # 1 /\ q - 1 = i /\ i - 1 \in 1..(n - 1) /\ ~(i - 1 < p)
              /\ (i - 1) + 1 = i
          BY <4>5, <3>3, <2>1, <1>2
        <5> QED
          BY <4>2, <4>5, <5>1, <1>9
      <4> QED
        BY <4>3, <4>4, <4>5
    <3> QED
      BY <3>2, <3>3
  <2> QED
    BY <2>4, <2>5
<1>18. IsChain(k, R \ {t}, n - 1, r)
  BY <1>8, <1>10, <1>11, <1>15, <1>16, <1>17 DEF IsChain
<1> QED
  BY <1>2, <1>3, <1>6, <1>8, <1>9, <1>12, <1>18 DEF Skips

\* Subsets of the threads can be counted, and have at most as many elements.
LEMMA Counted ==
  ASSUME NEW R \in SUBSET Thread
  PROVE  IsFiniteSet(R) /\ Cardinality(R) \in 0..Cardinality(Thread)
<1>1. IsFiniteSet(Thread)
  BY SchedulerAssumption
<1>2. IsFiniteSet(R) /\ Cardinality(R) <= Cardinality(Thread)
  BY <1>1, FS_Subset, Zenon
<1>3. Cardinality(R) \in Nat /\ Cardinality(Thread) \in Nat
  BY <1>1, <1>2, FS_CardinalityType, Zenon
<1> QED
  BY <1>2, <1>3

\* thread-group-add! of a thread outside.
LEMMA MembersAdded ==
  ASSUME NEW h \in Group, NEW R \in SUBSET Thread, Members(h, R),
         NEW t \in Thread, t \notin R
  PROVE  Added(h, t) \in Group /\ Members(Added(h, t), R \cup {t})
<1>1. PICK n \in Nat : n = h.num
  BY Counted DEF Members
<1>2. PICK s \in [1..n -> R] : IsChain(h, R, n, s)
  BY <1>1 DEF Members
<1>3. \E r \in [1..(n + 1) -> R \cup {t}] : IsChain(Added(h, t), R \cup {t}, n + 1, r)
  BY <1>2, AddedListed
<1>4. IsFiniteSet(R) /\ n = Cardinality(R)
  BY <1>1, Counted DEF Members
<1>5. Cardinality(R \cup {t}) = n + 1
  BY <1>4, FS_AddElement
<1>6. n + 1 \in 0..Cardinality(Thread)
  <2>1. R \cup {t} \in SUBSET Thread
    OBVIOUS
  <2>2. Cardinality(R \cup {t}) \in 0..Cardinality(Thread)
    BY <2>1, Counted
  <2> QED
    BY <2>2, <1>5
<1>7. Added(h, t).num = n + 1 /\ Added(h, t).chain = h.chain
  BY <1>1, AddedFields
<1>8. Added(h, t) \in Group
  BY <1>1, <1>6, AddedGroup
<1>9. h.chain \in R \cup {None}
  BY DEF Members
<1> QED
  BY <1>3, <1>5, <1>7, <1>8, <1>9 DEF Members

\* thread-group-remove! of a thread of the group.
LEMMA MembersRemoved ==
  ASSUME NEW h \in Group, NEW R \in SUBSET Thread, Members(h, R), NEW t \in R
  PROVE  Removed(h, t) \in Group /\ Members(Removed(h, t), R \ {t})
<1>1. PICK n \in Nat : n = h.num
  BY Counted DEF Members
<1>2. PICK s \in [1..n -> R] : IsChain(h, R, n, s)
  BY <1>1 DEF Members
<1>3. /\ n - 1 \in Nat
      /\ h.next[t] \in (R \ {t}) \cup {None}
      /\ \E r \in [1..(n - 1) -> R \ {t}] : IsChain(Removed(h, t), R \ {t}, n - 1, r)
  <2>1. PICK p \in 1..n : s[p] = t
    BY <1>2 DEF IsChain
  <2> QED
    BY <1>2, <2>1, RemovedListed
<1>4. IsFiniteSet(R) /\ n = Cardinality(R)
  BY <1>1, Counted DEF Members
<1>5. Cardinality(R \ {t}) = n - 1
  BY <1>4, FS_RemoveElement
<1>6. n - 1 \in 0..Cardinality(Thread)
  <2>1. R \ {t} \in SUBSET Thread
    OBVIOUS
  <2>2. Cardinality(R \ {t}) \in 0..Cardinality(Thread)
    BY <2>1, Counted
  <2> QED
    BY <2>2, <1>5
<1>7. /\ Removed(h, t).num = n - 1
      /\ Removed(h, t).chain = IF h.chain = t THEN h.next[t] ELSE h.chain
  BY <1>1, RemovedCursor
<1>8. Removed(h, t) \in Group
  BY <1>1, <1>6, RemovedGroup
<1>9. Removed(h, t).chain \in (R \ {t}) \cup {None}
  BY <1>3, <1>7 DEF Members
<1> QED
  BY <1>3, <1>5, <1>7, <1>8, <1>9 DEF Members

\* thread-group-next! takes a thread of the group, unless it is empty, and
\* moves the cursor to the one after it.
LEMMA MembersNext ==
  ASSUME NEW h \in Group, NEW R \in SUBSET Thread, Members(h, R)
  PROVE  /\ NextOf(h) = None => R = {}
         /\ NextOf(h) # None =>
              /\ NextOf(h) \in R
              /\ [h EXCEPT !.chain = h.next[NextOf(h)]] \in Group
              /\ Members([h EXCEPT !.chain = h.next[NextOf(h)]], R)
<1>1. PICK n \in Nat : n = h.num
  BY Counted DEF Members
<1>2. PICK s \in [1..n -> R] : IsChain(h, R, n, s)
  BY <1>1 DEF Members
<1>3. h.chain \in R \cup {None} /\ n = Cardinality(R)
  BY <1>1 DEF Members
<1>4. h.start = (IF n = 0 THEN None ELSE s[1])
  BY <1>2 DEF IsChain
<1>5. NextOf(h) \in R \cup {None}
  BY <1>2, <1>3, <1>4 DEF NextOf
<1>6. ASSUME NextOf(h) = None PROVE R = {}
  <2>1. n = 0
    BY <1>6, <1>2, <1>4, SchedulerAssumption DEF NextOf
  <2> QED
    BY <2>1, <1>2 DEF IsChain
<1>7. ASSUME NextOf(h) # None
      PROVE  /\ [h EXCEPT !.chain = h.next[NextOf(h)]] \in Group
             /\ Members([h EXCEPT !.chain = h.next[NextOf(h)]], R)
  <2>1. PICK c : c = h.next[NextOf(h)]
    OBVIOUS
  <2>2. c \in R \cup {None}
    <3>1. PICK i \in 1..n : s[i] = NextOf(h)
      BY <1>2, <1>5, <1>7 DEF IsChain
    <3>2. c = IF i = n THEN None ELSE s[i + 1]
      BY <2>1, <3>1, <1>2 DEF IsChain
    <3> QED
      BY <3>2, <1>2
  <2>3. PICK k : k = [h EXCEPT !.chain = c]
    OBVIOUS
  <2>4. /\ k \in Group /\ k.chain = c /\ k.num = h.num
        /\ k.start = h.start /\ k.end = h.end /\ k.next = h.next /\ k.prev = h.prev
    BY <2>2, <2>3 DEF Group
  <2>5. IsChain(k, R, n, s)
    BY <2>4, <1>2 DEF IsChain
  <2>6. Members(k, R)
    BY <2>2, <2>4, <2>5, <1>1, <1>3 DEF Members
  <2> QED
    BY <2>1, <2>3, <2>4, <2>6
<1> QED
  BY <1>5, <1>6, <1>7

\* A thread that joins the group joins behind the others.
LEMMA TurnAdded ==
  ASSUME NEW h \in Group, NEW R \in SUBSET Thread, Members(h, R),
         NEW u \in Thread, u \notin R,
         NEW t \in Thread, NEW k \in Nat, InTurn(h, R, t, k)
  PROVE  InTurn(Added(h, u), R \cup {u}, t, k)
<1>1. PICK n \in Nat : n = h.num
  BY Counted DEF Members
<1>2. PICK s \in [1..n -> R] :
        /\ IsChain(h, R, n, s)
        /\ \E i \in 1..n : s[i] = h.chain /\ i + k \in 1..n /\ s[i + k] = t
  BY <1>1 DEF InTurn
<1>3. PICK i \in 1..n : s[i] = h.chain /\ i + k \in 1..n /\ s[i + k] = t
  BY <1>2
<1>4. PICK r \in [1..(n + 1) -> R \cup {u}] :
        IsChain(Added(h, u), R \cup {u}, n + 1, r) /\ Extends(r, s, n)
  BY <1>2, AddedListed
<1>5. Added(h, u).num = n + 1 /\ Added(h, u).chain = h.chain
  BY <1>1, AddedFields
<1>6. i \in 1..(n + 1) /\ i + k \in 1..(n + 1) /\ r[i] = h.chain /\ r[i + k] = t
  BY <1>3, <1>4 DEF Extends
<1> QED
  BY <1>4, <1>5, <1>6 DEF InTurn

\* A thread that leaves the group lets the others move up.
LEMMA TurnRemoved ==
  ASSUME NEW h \in Group, NEW R \in SUBSET Thread, Members(h, R),
         NEW u \in R,
         NEW t \in Thread, t # u, NEW k \in Nat, InTurn(h, R, t, k)
  PROVE  \E j \in 0..k : InTurn(Removed(h, u), R \ {u}, t, j)
<1>1. PICK n \in Nat : n = h.num
  BY Counted DEF Members
<1>2. PICK s \in [1..n -> R] :
        /\ IsChain(h, R, n, s)
        /\ \E i \in 1..n : s[i] = h.chain /\ i + k \in 1..n /\ s[i + k] = t
  BY <1>1 DEF InTurn
<1>3. PICK i \in 1..n : s[i] = h.chain /\ i + k \in 1..n /\ s[i + k] = t
  BY <1>2
<1>4. PICK p \in 1..n : s[p] = u
  BY <1>2 DEF IsChain
<1>5. PICK r \in [1..(n - 1) -> R \ {u}] :
        IsChain(Removed(h, u), R \ {u}, n - 1, r) /\ Skips(r, s, n, p)
  <2>1. IsChain(h, R, n, s)
    BY <1>2
  <2> QED
    BY <1>4, <2>1, RemovedListed
<1>6. /\ Removed(h, u).num = n - 1
      /\ Removed(h, u).chain = IF h.chain = u THEN h.next[u] ELSE h.chain
  BY <1>1, RemovedCursor
<1>7. p # i + k
  BY <1>3, <1>4
<1>8. \A a, b \in 1..n : s[a] = s[b] => a = b
  BY <1>2 DEF IsChain
<1>9. CASE p < i
  <2>1. /\ i - 1 \in 1..(n - 1) /\ ~(i - 1 < p) /\ (i - 1) + 1 = i
        /\ (i - 1) + k \in 1..(n - 1) /\ ~((i - 1) + k < p) /\ ((i - 1) + k) + 1 = i + k
    BY <1>3, <1>9
  <2>2. r[i - 1] = s[i] /\ r[(i - 1) + k] = s[i + k]
    BY <1>5, <2>1 DEF Skips
  <2>3. h.chain # u
    BY <1>3, <1>4, <1>8, <1>9
  <2>4. InTurn(Removed(h, u), R \ {u}, t, k)
    BY <1>3, <1>5, <1>6, <2>1, <2>2, <2>3 DEF InTurn
  <2>5. k \in 0..k
    OBVIOUS
  <2> QED
    BY <2>4, <2>5
<1>10. CASE p = i
  <2>1. k - 1 \in 0..k /\ i \in 1..(n - 1) /\ ~(i < p) /\ i # n
        /\ i + (k - 1) \in 1..(n - 1) /\ ~(i + (k - 1) < p) /\ (i + (k - 1)) + 1 = i + k
    BY <1>3, <1>7, <1>10
  <2>2. r[i] = s[i + 1] /\ r[i + (k - 1)] = s[i + k]
    BY <1>5, <2>1 DEF Skips
  <2>3. h.chain = u /\ h.next[u] = s[i + 1]
    BY <1>2, <1>3, <1>4, <1>10, <2>1 DEF IsChain
  <2>4. InTurn(Removed(h, u), R \ {u}, t, k - 1)
    BY <1>3, <1>5, <1>6, <2>1, <2>2, <2>3 DEF InTurn
  <2> QED
    BY <2>1, <2>4
<1>11. CASE i < p /\ p < i + k
  <2>1. k - 1 \in 0..k /\ i \in 1..(n - 1) /\ i < p
        /\ i + (k - 1) \in 1..(n - 1) /\ ~(i + (k - 1) < p) /\ (i + (k - 1)) + 1 = i + k
    BY <1>3, <1>11
  <2>2. r[i] = s[i] /\ r[i + (k - 1)] = s[i + k]
    BY <1>5, <2>1 DEF Skips
  <2>3. h.chain # u
    BY <1>3, <1>4, <1>8, <1>11
  <2>4. InTurn(Removed(h, u), R \ {u}, t, k - 1)
    BY <1>3, <1>5, <1>6, <2>1, <2>2, <2>3 DEF InTurn
  <2> QED
    BY <2>1, <2>4
<1>12. CASE i + k < p
  <2>1. k \in 0..k /\ i \in 1..(n - 1) /\ i < p /\ i + k \in 1..(n - 1)
    BY <1>3, <1>12
  <2>2. r[i] = s[i] /\ r[i + k] = s[i + k]
    BY <1>5, <1>12, <2>1 DEF Skips
  <2>3. h.chain # u
    BY <1>3, <1>4, <1>8, <2>1
  <2>4. InTurn(Removed(h, u), R \ {u}, t, k)
    BY <1>3, <1>5, <1>6, <2>1, <2>2, <2>3 DEF InTurn
  <2> QED
    BY <2>1, <2>4
<1>13. p < i \/ p = i \/ (i < p /\ p < i + k) \/ i + k < p
  BY <1>3, <1>7
<1> QED
  BY <1>9, <1>10, <1>11, <1>12, <1>13

\* thread-group-next! takes the thread whose turn it is, and the others move
\* up.
LEMMA TurnNext ==
  ASSUME NEW h \in Group, NEW R \in SUBSET Thread, Members(h, R),
         NEW t \in Thread, NEW k \in Nat, InTurn(h, R, t, k)
  PROVE  \/ k = 0 /\ NextOf(h) = t
         \/ k # 0 /\ InTurn([h EXCEPT !.chain = h.next[NextOf(h)]], R, t, k - 1)
<1>1. PICK n \in Nat : n = h.num
  BY Counted DEF Members
<1>2. PICK s \in [1..n -> R] :
        /\ IsChain(h, R, n, s)
        /\ \E i \in 1..n : s[i] = h.chain /\ i + k \in 1..n /\ s[i + k] = t
  BY <1>1 DEF InTurn
<1>3. PICK i \in 1..n : s[i] = h.chain /\ i + k \in 1..n /\ s[i + k] = t
  BY <1>2
<1>4. NextOf(h) = s[i]
  BY <1>2, <1>3, SchedulerAssumption DEF NextOf
<1>5. CASE k = 0
  BY <1>3, <1>4, <1>5
<1>6. CASE k # 0
  <2>1. i + 1 \in 1..n /\ (i + 1) + (k - 1) = i + k /\ i # n
    BY <1>3, <1>6
  <2>2. h.next[NextOf(h)] = s[i + 1]
    BY <1>2, <1>4, <2>1 DEF IsChain
  <2>3. PICK f : f = [h EXCEPT !.chain = h.next[NextOf(h)]]
    OBVIOUS
  <2>4. /\ f.chain = s[i + 1] /\ f.num = n
        /\ f.start = h.start /\ f.end = h.end /\ f.next = h.next /\ f.prev = h.prev
    BY <1>1, <2>2, <2>3 DEF Group
  <2>5. IsChain(f, R, n, s)
    BY <1>2, <2>4 DEF IsChain
  <2>6. InTurn(f, R, t, k - 1)
    BY <1>2, <1>3, <2>1, <2>4, <2>5 DEF InTurn
  <2> QED
    BY <1>6, <2>3, <2>6
<1> QED
  BY <1>5, <1>6

----------------------------------------------------------------------------
(* The steps.                                                              *)

\* The empty group is one of no threads.
LEMMA EmptyMembers ==
  Empty \in Group /\ Members(Empty, {})
<1>1. Empty \in Group /\ Empty.num = 0 /\ Empty.chain = None
      /\ Empty.start = None /\ Empty.end = None
  <2>1. Cardinality(Thread) \in Nat
    BY SchedulerAssumption, FS_CardinalityType
  <2> QED
    BY <2>1 DEF Empty, Group
<1>2. Cardinality({}) = 0
  BY FS_EmptySet
<1>3. PICK s : s = [i \in 1..0 |-> None]
  OBVIOUS
<1>4. s \in [1..0 -> {}] /\ \A i \in 1..0 : FALSE
  BY <1>3
<1>5. IsChain(Empty, {}, 0, s)
  BY <1>1, <1>4 DEF IsChain
<1> QED
  BY <1>1, <1>2, <1>4, <1>5 DEF Members

\* The initial state satisfies the invariant.
LEMMA InitEstablishes ==
  Init => IInv
<1> SUFFICES ASSUME Init PROVE IInv
  OBVIOUS
<1>1. {} \in SUBSET Thread /\ Main \in Thread /\ Main \notin {}
  BY SchedulerAssumption
<1>2. Added(Empty, Main) \in Group /\ Members(Added(Empty, Main), {} \cup {Main})
  BY <1>1, EmptyMembers, MembersAdded
<1>3. g \in Group /\ Members(g, {Main})
  BY <1>2 DEF Init
<1>4. Runnable = {Main}
  BY SchedulerAssumption DEF Init, Runnable
<1>5. TypeOK
  BY <1>3, SchedulerAssumption DEF Init, TypeOK, Time, Never, Distant
<1>6. Engines /\ Callbacks /\ Blocked
  BY SchedulerAssumption DEF Init, Engines, Callbacks, Blocked, Live, Never
<1>7. Sleepers /\ Endings
  BY DEF Init, Sleepers, Endings, Never, Time
<1> QED
  BY <1>3, <1>4, <1>5, <1>6, <1>7 DEF IInv, Core

\* What holds of the group before a step.
LEMMA UpFacts ==
  ASSUME IInv, Up
  PROVE  TypeOK /\ Core /\ g \in Group /\ Runnable \in SUBSET Thread /\ Members(g, Runnable)
  BY DEF IInv, Up, Core, TypeOK, Runnable

\* Time passes.
LEMMA TickKeeps ==
  ASSUME IInv, Tick
  PROVE  IInv' /\ GroupStep
<1>1. TypeOK /\ Core
  BY UpFacts DEF Tick
<1>2. TypeOK'
  <2>1. now \in Time
    BY <1>1 DEF TypeOK
  <2>2. now' \in Time
    BY <2>1, SchedulerAssumption DEF Tick, Time
  <2> QED
    BY <1>1, <2>2 DEF Tick, TypeOK, threadVars, sleepVars
<1>3. Runnable' = Runnable
  BY DEF Tick, Runnable, threadVars
<1>4. Members(g', Runnable')
  BY <1>1, <1>3 DEF Tick, Core
<1>5. (Engines /\ Callbacks /\ Blocked)'
  BY <1>1 DEF Tick, Core, threadVars, sleepVars, Engines, Callbacks, Blocked, Live
<1>6. (Sleepers /\ Endings)'
  BY <1>1, <1>3 DEF Tick, Core, sleepVars, Sleepers, Endings
<1>7. GroupStep
  BY <1>3 DEF Tick, GroupStep, Stays
<1> QED
  BY <1>2, <1>4, <1>5, <1>6, <1>7 DEF IInv, Core

\* A thread that leaves its engine stays in the group.
LEMMA LeaveEngine ==
  ASSUME IInv, Up, NEW t \in Thread, current = t,
         current' = None, engine' = [engine EXCEPT ![t] = "ready"],
         pollDone' \subseteq Thread,
         UNCHANGED <<g, intr, suspended, needsRetry, op, waiting, until, sleepVars, now,
                     timeout, status, odd>>
  PROVE  IInv' /\ GroupStep
<1>1. TypeOK /\ Core
  BY UpFacts
<1>2. TypeOK'
  BY <1>1 DEF TypeOK, sleepVars
<1>3. engine \in [Thread -> {"none", "ready", "running", "done"}] /\ engine[t] = "running"
  BY <1>1 DEF TypeOK, Core, Engines
<1>4. engine'[t] = "ready" /\ \A u \in Thread : u # t => engine'[u] = engine[u]
  BY <1>3
<1>5. Runnable' = Runnable
  BY <1>3, <1>4 DEF Runnable
<1>6. Members(g', Runnable')
  BY <1>1, <1>5 DEF Core
<1>7. Engines'
  BY <1>1, <1>3, <1>4, SchedulerAssumption DEF Core, Engines
<1>8. (Callbacks /\ Blocked)'
  BY <1>1, <1>3, <1>4 DEF Core, Callbacks, Blocked, Live, sleepVars
<1>9. (Sleepers /\ Endings)'
  BY <1>1, <1>5 DEF Core, sleepVars, Sleepers, Endings
<1>10. GroupStep
  BY <1>5 DEF GroupStep, Stays
<1> QED
  BY <1>2, <1>6, <1>7, <1>8, <1>9, <1>10 DEF IInv, Core

\* thread-yield.
LEMMA YieldKeeps ==
  ASSUME IInv, NEW t \in Thread, NEW didWork \in BOOLEAN, Yield(t, didWork)
  PROVE  IInv' /\ GroupStep
<1>1. Up /\ current = t
  BY DEF Yield, Running
<1>2. pollDone' \subseteq Thread
  BY <1>1, UpFacts DEF Yield, TypeOK
<1> QED
  BY <1>1, <1>2, LeaveEngine DEF Yield

\* The engine is out of ticks.
LEMMA ExpireKeeps ==
  ASSUME IInv, NEW t \in Thread, Expire(t)
  PROVE  IInv' /\ GroupStep
<1>1. pollDone' \subseteq Thread
  BY UpFacts DEF Expire, TypeOK
<1> QED
  BY <1>1, LeaveEngine DEF Expire

\* thread: a new thread joins the group.
LEMMA MakeThreadKeeps ==
  ASSUME IInv, NEW t \in Thread, NEW u \in Thread, MakeThread(t, u)
  PROVE  IInv' /\ GroupStep
<1>1. /\ TypeOK /\ Core /\ g \in Group /\ Runnable \in SUBSET Thread
      /\ Members(g, Runnable)
  BY UpFacts DEF MakeThread, Running
<1>2. engine \in [Thread -> {"none", "ready", "running", "done"}] /\ engine[u] = "none"
  BY <1>1 DEF TypeOK, MakeThread
<1>3. engine'[u] = "ready" /\ \A v \in Thread : v # u => engine'[v] = engine[v]
  BY <1>2 DEF MakeThread
<1>4. u \notin Runnable /\ intr[u] = "none" /\ ~suspended[u] /\ ~needsRetry[u]
  BY <1>1, <1>2 DEF Runnable, Core, Engines
<1>5. Runnable' = Runnable \cup {u}
  BY <1>3, <1>4 DEF Runnable, MakeThread
<1>6. g' \in Group /\ Members(g', Runnable')
  BY <1>1, <1>4, <1>5, MembersAdded DEF MakeThread
<1>7. TypeOK'
  BY <1>1, <1>6 DEF TypeOK, MakeThread, sleepVars
<1>8. Engines'
  BY <1>1, <1>2, <1>3 DEF Core, Engines, MakeThread
<1>9. Callbacks'
  BY <1>1, <1>2, <1>3, <1>4 DEF Core, Callbacks, Live, MakeThread
<1>10. (Blocked /\ Sleepers)'
  BY <1>1, <1>2, <1>3 DEF Core, Blocked, Sleepers, Live, MakeThread, sleepVars
<1>11. Endings'
  BY <1>1 DEF Core, Endings, MakeThread, Running, Up
<1>12. GroupStep
  BY <1>4, <1>5 DEF GroupStep, Joins, MakeThread
<1> QED
  BY <1>6, <1>7, <1>8, <1>9, <1>10, <1>11, <1>12 DEF IInv, Core

\* The first key of the tree is a time at which somebody wakes up.
LEMMA MinKeyFacts ==
  ASSUME Keys # {}
  PROVE  MinKey \in Time /\ sleeping[MinKey] # {}
<1>1. Keys \subseteq Nat /\ Keys \subseteq Time
  BY SchedulerAssumption DEF Keys, Time
<1>2. PICK L : L = {ss \in Nat \X Nat : ss[1] < ss[2]}
  OBVIOUS
<1>3. IsWellFoundedOn(L, Nat)
  BY <1>2, NatLessThanWellFounded DEF OpToRel
<1>4. PICK m \in Keys : \A k \in Keys : ~ (<<k, m>> \in L)
  BY <1>1, <1>3, WFMin
<1>5. ASSUME NEW k \in Keys PROVE m <= k
  <2>1. k \in Nat /\ m \in Nat
    BY <1>1
  <2>2. <<k, m>> \in Nat \X Nat /\ <<k, m>>[1] = k /\ <<k, m>>[2] = m
    BY <2>1
  <2>3. ~ (k < m)
    BY <2>2, <1>2, <1>4, Zenon
  <2> QED
    BY <2>1, <2>3
<1>6. MinKey \in Keys
  BY <1>4, <1>5 DEF MinKey
<1> QED
  BY <1>1, <1>6 DEF Keys

\* SwapIn, from a group of the threads that can be scheduled after the step.
\* The current thread is the next one of the group, which is now one further.
LEMMA SwapInFacts ==
  ASSUME TypeOK, Core, current = None, status = "up",
         NEW h \in Group, NEW R \in SUBSET Thread, Members(h, R),
         SwapIn(h),
         \A t \in R : Live(t)
  PROVE  /\ \/ /\ R = {} /\ UNCHANGED <<g, current, engine>>
               /\ status' = IF Keys = {} THEN "done" ELSE "up"
            \/ \E n \in R :
                 /\ g' \in Group /\ Members(g', R)
                 /\ n = NextOf(h) /\ n # None
                 /\ g' = [h EXCEPT !.chain = h.next[NextOf(h)]]
                 /\ current' = n /\ engine' = [engine EXCEPT ![n] = "running"]
                 /\ status' = "up"
<1>1. CASE NextOf(h) = None
  BY <1>1, MembersNext DEF SwapIn
<1>2. CASE NextOf(h) # None
  <2>1. PICK n : n = NextOf(h)
    OBVIOUS
  <2>2. /\ n \in R
        /\ [h EXCEPT !.chain = h.next[n]] \in Group
        /\ Members([h EXCEPT !.chain = h.next[n]], R)
    BY <1>2, <2>1, MembersNext
  <2>3. /\ g' = [h EXCEPT !.chain = h.next[n]]
        /\ current' = n
        /\ engine' = [engine EXCEPT ![n] = "running"]
        /\ status' = IF engine[n] = "done" THEN "error" ELSE status
    BY <1>2, <2>1 DEF SwapIn
  <2>4. status' = "up"
    BY <2>2, <2>3 DEF Live
  <2> QED
    BY <1>2, <2>1, <2>2, <2>3, <2>4
<1> QED
  BY <1>1, <1>2

\* What SwapIn alone does, when the threads that can be scheduled stay the
\* same.
LEMMA SwapInKeeps ==
  ASSUME IInv, Up, current = None, timeout' = Never,
         SwapIn(g), pollDone' \subseteq Thread,
         UNCHANGED <<intr, suspended, needsRetry, op, waiting, until, sleepVars, now, odd>>
  PROVE  IInv' /\ GroupStep
<1>1. /\ TypeOK /\ Core /\ g \in Group /\ Runnable \in SUBSET Thread
      /\ Members(g, Runnable)
  BY UpFacts
<1>2. status = "up" /\ \A t \in Runnable : Live(t)
  BY DEF Up, Runnable, Live
<1>3. \/ /\ Runnable = {} /\ UNCHANGED <<g, current, engine>>
         /\ status' = IF Keys = {} THEN "done" ELSE "up"
      \/ \E n \in Runnable :
           /\ g' \in Group /\ Members(g', Runnable)
           /\ n = NextOf(g) /\ n # None
           /\ g' = [g EXCEPT !.chain = g.next[NextOf(g)]]
           /\ current' = n /\ engine' = [engine EXCEPT ![n] = "running"]
           /\ status' = "up"
  BY <1>1, <1>2, SwapInFacts
<1>4. CASE /\ Runnable = {} /\ UNCHANGED <<g, current, engine>>
           /\ status' = IF Keys = {} THEN "done" ELSE "up"
  <2>1. Runnable' = Runnable
    BY <1>4 DEF Runnable
  <2>2. Members(g', Runnable')
    BY <1>1, <1>4, <2>1
  <2>3. status' \in {"up", "done"}
    BY <1>4
  <2>4. TypeOK'
    BY <1>1, <1>4, <2>3 DEF TypeOK, sleepVars
  <2>5. (Engines /\ Callbacks /\ Blocked)'
    BY <1>1, <1>4 DEF Core, Engines, Callbacks, Blocked, Live, sleepVars
  <2>6. Sleepers'
    BY <1>1 DEF Core, Sleepers, sleepVars
  <2>7. ASSUME status' = "done", NEW t \in Thread PROVE sleepUntil'[t] = Never
    <3>1. Keys = {}
      BY <1>4, <2>7
    <3>2. sleepUntil[t] \in Time \cup {Never}
      BY <1>1 DEF TypeOK
    <3>3. \A m \in Time : t \notin sleeping[m]
      BY <3>1 DEF Keys
    <3> QED
      BY <3>2, <3>3, <1>1 DEF Core, Sleepers, sleepVars
  <2>8. Endings'
    BY <1>4, <2>1, <2>3, <2>7 DEF Endings
  <2>9. GroupStep
    BY <1>4, <2>1 DEF GroupStep, Stays
  <2> QED
    BY <2>2, <2>4, <2>5, <2>6, <2>8, <2>9 DEF IInv, Core
<1>5. ASSUME NEW n \in Runnable,
             g' \in Group, Members(g', Runnable),
             n = NextOf(g), n # None,
             g' = [g EXCEPT !.chain = g.next[NextOf(g)]],
             current' = n, engine' = [engine EXCEPT ![n] = "running"],
             status' = "up"
      PROVE  IInv' /\ GroupStep
  <2>1. /\ engine \in [Thread -> {"none", "ready", "running", "done"}]
        /\ n \in Thread /\ Live(n) /\ intr[n] = "none"
    BY <1>1 DEF TypeOK, Runnable, Live
  <2>2. engine'[n] = "running" /\ \A u \in Thread : u # n => engine'[u] = engine[u]
    BY <1>5, <2>1
  <2>3. Runnable' = Runnable
    BY <2>1, <2>2 DEF Runnable
  <2>4. Members(g', Runnable')
    BY <1>5, <2>3
  <2>5. TypeOK'
    BY <1>1, <1>5, <2>1 DEF TypeOK, sleepVars
  <2>6. \A t \in Thread : engine[t] # "running"
    BY <1>1, SchedulerAssumption DEF Core, Engines
  <2>7. Engines'
    BY <1>1, <1>5, <2>1, <2>2, <2>6 DEF Core, Engines
  <2>8. (Callbacks /\ Blocked)'
    BY <1>1, <2>1, <2>2 DEF Core, Callbacks, Blocked, Live, sleepVars
  <2>9. Sleepers' /\ Endings'
    BY <1>1, <1>5 DEF Core, Sleepers, sleepVars, Endings
  <2>10. GroupStep
    <3>1. Swaps(g)
      BY <1>1, <1>5, <2>3 DEF Swaps
    <3> QED
      BY <1>1, <3>1 DEF GroupStep
  <2> QED
    BY <2>4, <2>5, <2>7, <2>8, <2>9, <2>10 DEF IInv, Core
<1> QED
  BY <1>3, <1>4, <1>5

\* select-thread! without a timeout.
LEMMA SelectKeeps ==
  ASSUME IInv, Select
  PROVE  IInv' /\ GroupStep
<1>1. Up /\ current = None /\ timeout' = Never
  BY DEF Select, Selecting
<1>2. pollDone' \subseteq Thread
  BY <1>1, UpFacts DEF Select, TypeOK
<1> QED
  BY <1>1, <1>2, SwapInKeeps DEF Select

\* The process wakes up.
LEMMA WakeUpKeeps ==
  ASSUME IInv, WakeUp
  PROVE  IInv' /\ GroupStep
<1>1. Up /\ timeout' = Never /\ pollDone' \subseteq Thread
  BY DEF WakeUp
<1>2. current = None
  BY <1>1, UpFacts DEF WakeUp, Core, Engines
<1> QED
  BY <1>1, <1>2, SwapInKeeps DEF WakeUp

\* The process goes to sleep.
LEMMA ProcessSleepKeeps ==
  ASSUME IInv, ProcessSleep
  PROVE  IInv' /\ GroupStep
<1>1. TypeOK /\ Core
  BY UpFacts DEF ProcessSleep, Selecting
<1>2. timeout' \in Time \cup {Never, Distant}
  <2>1. CASE Keys = {}
    BY <2>1 DEF ProcessSleep
  <2>2. CASE Keys # {}
    BY <2>2, MinKeyFacts DEF ProcessSleep
  <2> QED
    BY <2>1, <2>2
<1>3. odd' \subseteq {"suspended sleeper", "same time", "overslept"}
  BY <1>1 DEF ProcessSleep, TypeOK
<1>4. TypeOK'
  BY <1>1, <1>2, <1>3 DEF ProcessSleep, TypeOK, threadVars, sleepVars
<1>5. Runnable' = Runnable
  BY DEF ProcessSleep, Runnable, threadVars
<1>6. Members(g', Runnable')
  BY <1>1, <1>5 DEF ProcessSleep, Core
<1>7. (Engines /\ Callbacks /\ Blocked)'
  BY <1>1 DEF ProcessSleep, Selecting, Core, threadVars, sleepVars, Engines, Callbacks,
     Blocked, Live
<1>8. (Sleepers /\ Endings)'
  BY <1>1, <1>5 DEF ProcessSleep, Core, sleepVars, Sleepers, Endings
<1>9. GroupStep
  BY <1>5 DEF ProcessSleep, GroupStep, Stays
<1> QED
  BY <1>4, <1>6, <1>7, <1>8, <1>9 DEF IInv, Core

\* A thread that blocks leaves the group, and waits for nothing else.
LEMMA BlockFacts ==
  ASSUME IInv, Up, NEW t \in Thread, current = t, NEW o \in {"sleep", "wait"}, Block(o),
         UNCHANGED <<suspended, timeout>>
  PROVE  /\ g' \in Group /\ Members(g', Runnable') /\ GroupStep
         /\ current' = None /\ pollDone' = {}
         /\ engine' \in [Thread -> {"none", "ready", "running", "done"}]
         /\ intr' \in [Thread -> {"none", "void", "callback"}]
         /\ op' \in [Thread -> {"none", "sleep", "wait"}]
         /\ needsRetry' \in [Thread -> BOOLEAN]
         /\ Engines' /\ Callbacks'
         /\ t \notin waiting /\ sleepUntil[t] = Never
         /\ engine'[t] = "ready" /\ intr'[t] = "callback" /\ op'[t] = o /\ ~suspended'[t]
         /\ \A u \in Thread : u # t =>
              engine'[u] = engine[u] /\ intr'[u] = intr[u] /\ op'[u] = op[u]
<1>1. /\ TypeOK /\ Core /\ g \in Group /\ Runnable \in SUBSET Thread
      /\ Members(g, Runnable)
  BY UpFacts
<1>2. /\ engine \in [Thread -> {"none", "ready", "running", "done"}]
      /\ intr \in [Thread -> {"none", "void", "callback"}]
      /\ op \in [Thread -> {"none", "sleep", "wait"}]
      /\ needsRetry \in [Thread -> BOOLEAN]
  BY <1>1 DEF TypeOK
<1>3. /\ g' = Removed(g, t)
      /\ intr' = [intr EXCEPT ![t] = "callback"]
      /\ op' = [op EXCEPT ![t] = o]
      /\ needsRetry' = [needsRetry EXCEPT ![t] = FALSE]
      /\ engine' = [engine EXCEPT ![t] = "ready"]
      /\ pollDone' = {} /\ current' = None
  BY DEF Block
<1>4. engine[t] = "running" /\ intr[t] = "none"
  BY <1>1 DEF Core, Engines
<1>5. t \in Runnable /\ Live(t) /\ ~suspended[t]
  BY <1>1, <1>4 DEF Runnable, Live, Core, Callbacks
<1>6. t \notin waiting /\ sleepUntil[t] = Never
  BY <1>1, <1>4 DEF Core, Blocked
<1>7. /\ engine' \in [Thread -> {"none", "ready", "running", "done"}]
      /\ engine'[t] = "ready" /\ \A u \in Thread : u # t => engine'[u] = engine[u]
  BY <1>2, <1>3
<1>8. /\ intr' \in [Thread -> {"none", "void", "callback"}]
      /\ intr'[t] = "callback" /\ \A u \in Thread : u # t => intr'[u] = intr[u]
  BY <1>2, <1>3
<1>9. /\ op' \in [Thread -> {"none", "sleep", "wait"}]
      /\ op'[t] = o /\ \A u \in Thread : u # t => op'[u] = op[u]
  BY <1>2, <1>3
<1>10. /\ needsRetry' \in [Thread -> BOOLEAN]
       /\ needsRetry'[t] = FALSE
       /\ \A u \in Thread : u # t => needsRetry'[u] = needsRetry[u]
  BY <1>2, <1>3
<1>11. Runnable' = Runnable \ {t}
  BY <1>7, <1>8 DEF Runnable
<1>12. g' \in Group /\ Members(g', Runnable')
  BY <1>1, <1>3, <1>5, <1>11, MembersRemoved
<1>13. Engines'
  <2>1. \A u \in Thread : engine'[u] = "running" <=> current' = u
    BY <1>1, <1>3, <1>7, SchedulerAssumption DEF Core, Engines
  <2>2. timeout' # Never => current' = None
    BY <1>3
  <2>3. \A u \in Thread : current' = u => intr'[u] = "none"
    BY <1>3, SchedulerAssumption
  <2>4. \A u \in Thread : engine'[u] = "none" =>
          intr'[u] = "none" /\ ~suspended'[u] /\ ~needsRetry'[u]
    BY <1>1, <1>7, <1>8, <1>10 DEF Core, Engines
  <2> QED
    BY <2>1, <2>2, <2>3, <2>4 DEF Engines
<1>14. Callbacks'
  BY <1>1, <1>5, <1>7, <1>8, <1>9, <1>10 DEF Core, Callbacks, Live
<1>15. GroupStep
  BY <1>3, <1>5, <1>11 DEF GroupStep, Leaves
<1> QED
  BY <1>3, <1>5, <1>6, <1>7, <1>8, <1>9, <1>10, <1>12, <1>13, <1>14, <1>15

\* A thread that blocks in line.
LEMMA BlockInLine ==
  ASSUME IInv, Up, NEW t \in Thread, current = t, Block("wait"),
         waiting' = waiting \cup {t},
         UNCHANGED <<suspended, until, sleepVars, now, timeout, status, odd>>
  PROVE  IInv' /\ GroupStep
<1>1. TypeOK /\ Core
  BY UpFacts
<1>2. PICK o \in {"sleep", "wait"} : o = "wait"
  OBVIOUS
<1>3. Block(o)
  BY <1>2
<1>4. /\ g' \in Group /\ Members(g', Runnable') /\ GroupStep
      /\ current' = None /\ pollDone' = {}
      /\ engine' \in [Thread -> {"none", "ready", "running", "done"}]
      /\ intr' \in [Thread -> {"none", "void", "callback"}]
      /\ op' \in [Thread -> {"none", "sleep", "wait"}]
      /\ needsRetry' \in [Thread -> BOOLEAN]
      /\ Engines' /\ Callbacks'
      /\ t \notin waiting /\ sleepUntil[t] = Never
      /\ engine'[t] = "ready" /\ intr'[t] = "callback" /\ op'[t] = o /\ ~suspended'[t]
      /\ \A u \in Thread : u # t =>
           engine'[u] = engine[u] /\ intr'[u] = intr[u] /\ op'[u] = op[u]
  BY <1>3, BlockFacts
<1>5. TypeOK'
  BY <1>1, <1>4 DEF TypeOK, sleepVars
<1>6. Blocked'
  BY <1>1, <1>2, <1>4 DEF Core, Blocked, Live, sleepVars
<1>7. Sleepers' /\ Endings'
  BY <1>1 DEF Core, Sleepers, Endings, sleepVars, Up
<1> QED
  BY <1>4, <1>5, <1>6, <1>7 DEF IInv, Core

\* A thread that goes to sleep; if another one sleeps until the same time,
\* what follows is not followed.
LEMMA BlockAsleep ==
  ASSUME IInv, Up, NEW t \in Thread, current = t, Block("sleep"),
         NEW m \in Time, AddToSleeping(t, m), until' \in [Thread -> Time],
         UNCHANGED <<suspended, waiting, now, timeout, status>>
  PROVE  IInv' /\ GroupStep
<1>1. TypeOK /\ Core
  BY UpFacts
<1>2. PICK o \in {"sleep", "wait"} : o = "sleep"
  OBVIOUS
<1>3. Block(o)
  BY <1>2
<1>4. /\ g' \in Group /\ Members(g', Runnable') /\ GroupStep
      /\ current' = None /\ pollDone' = {}
      /\ engine' \in [Thread -> {"none", "ready", "running", "done"}]
      /\ intr' \in [Thread -> {"none", "void", "callback"}]
      /\ op' \in [Thread -> {"none", "sleep", "wait"}]
      /\ needsRetry' \in [Thread -> BOOLEAN]
      /\ Engines' /\ Callbacks'
      /\ t \notin waiting /\ sleepUntil[t] = Never
      /\ engine'[t] = "ready" /\ intr'[t] = "callback" /\ op'[t] = o /\ ~suspended'[t]
      /\ \A u \in Thread : u # t =>
           engine'[u] = engine[u] /\ intr'[u] = intr[u] /\ op'[u] = op[u]
  BY <1>3, BlockFacts
<1>5. /\ sleepUntil \in [Thread -> Time \cup {Never}]
      /\ sleeping \in [Time -> SUBSET Thread]
      /\ odd \subseteq {"suspended sleeper", "same time", "overslept"}
  BY <1>1 DEF TypeOK
<1>6. /\ sleepUntil' \in [Thread -> Time \cup {Never}]
      /\ sleepUntil'[t] = m /\ \A u \in Thread : u # t => sleepUntil'[u] = sleepUntil[u]
  BY <1>5 DEF AddToSleeping
<1>7. /\ sleeping' \in [Time -> SUBSET Thread]
      /\ sleeping'[m] = IF sleeping[m] = {} THEN {t} ELSE sleeping[m]
      /\ \A k \in Time : k # m => sleeping'[k] = sleeping[k]
  BY <1>5 DEF AddToSleeping
<1>8. odd' \subseteq {"suspended sleeper", "same time", "overslept"}
  BY <1>5 DEF AddToSleeping
<1>9. TypeOK'
  BY <1>1, <1>4, <1>6, <1>7, <1>8 DEF TypeOK
<1>10. ASSUME odd' = {} PROVE Core'
  <2>1. t \notin sleeping[m]
    <3>1. sleepUntil[t] # m
      BY <1>4, SchedulerAssumption DEF Time, Never
    <3> QED
      BY <1>1, <3>1 DEF Core, Sleepers
  <2>2. sleeping[m] \subseteq {t}
    BY <1>10, Zenon DEF AddToSleeping
  <2>3. sleeping[m] = {} /\ sleeping'[m] = {t}
    BY <1>7, <2>1, <2>2
  <2>4. Blocked'
    BY <1>1, <1>2, <1>4, <1>6 DEF Core, Blocked, Live
  <2>5. \A u \in Thread : sleepUntil[u] # m
    BY <1>1, <2>3 DEF Core, Sleepers
  <2>6. ASSUME NEW u \in Thread, NEW k \in Time
        PROVE  u \in sleeping'[k] <=> sleepUntil'[u] = k
    <3>1. u \in sleeping[k] <=> sleepUntil[u] = k
      BY <1>1 DEF Core, Sleepers
    <3>2. sleepUntil[t] # k
      BY <1>4, SchedulerAssumption DEF Time, Never
    <3>3. CASE k = m
      BY <3>3, <2>3, <2>5, <1>6
    <3>4. CASE k # m
      BY <3>1, <3>2, <3>4, <1>6, <1>7
    <3> QED
      BY <3>3, <3>4
  <2>7. ASSUME NEW u \in Thread, NEW v \in Thread,
               sleepUntil'[u] = sleepUntil'[v], u # v
        PROVE  sleepUntil'[u] = Never
    BY <1>1, <1>6, <2>5, <2>7 DEF Core, Sleepers
  <2>8. Sleepers'
    BY <2>6, <2>7 DEF Sleepers
  <2>9. Endings'
    BY DEF Endings, Up
  <2> QED
    BY <1>4, <2>4, <2>8, <2>9 DEF Core
<1> QED
  BY <1>4, <1>9, <1>10 DEF IInv

\* A blocking operation.
LEMMA WaitKeeps ==
  ASSUME IInv, NEW t \in Thread, Wait(t)
  PROVE  IInv' /\ GroupStep
  BY BlockInLine DEF Wait, Running

\* sleep.
LEMMA SleepKeeps ==
  ASSUME IInv, NEW t \in Thread, NEW m \in Time, Sleep(t, m)
  PROVE  IInv' /\ GroupStep
<1>1. Up /\ current = t
  BY DEF Sleep, Running
<1>2. until' \in [Thread -> Time]
  BY <1>1, UpFacts DEF Sleep, TypeOK
<1> QED
  BY <1>1, <1>2, BlockAsleep DEF Sleep

\* A blocking operation is done again.
LEMMA RetryKeeps ==
  ASSUME IInv, NEW t \in Thread, Retry(t)
  PROVE  IInv' /\ GroupStep
<1>1. Up /\ current = t /\ TypeOK /\ Core /\ needsRetry[t] /\ Block(op[t])
  BY UpFacts DEF Retry
<1>2. engine[t] = "running" /\ op[t] \in {"none", "sleep", "wait"} /\ until[t] \in Time
      /\ until \in [Thread -> Time]
  BY <1>1 DEF Core, Engines, TypeOK
<1>3. op[t] # "none"
  BY <1>1, <1>2 DEF Core, Callbacks, Live
<1>4. CASE op[t] = "sleep"
  <2>1. Block("sleep") /\ AddToSleeping(t, until[t])
        /\ UNCHANGED <<suspended, waiting, until, now, timeout, status>>
    BY <1>1, <1>4 DEF Retry
  <2>2. until' \in [Thread -> Time]
    BY <1>2, <2>1
  <2> QED
    BY <1>1, <1>2, <2>1, <2>2, BlockAsleep
<1>5. CASE op[t] = "wait"
  <2>1. /\ Block("wait") /\ waiting' = waiting \cup {t}
        /\ UNCHANGED <<suspended, until, sleepVars, now, timeout, status, odd>>
    BY <1>1, <1>5 DEF Retry
  <2> QED
    BY <1>1, <2>1, BlockInLine
<1> QED
  BY <1>2, <1>3, <1>4, <1>5

\* remove-from-sleeping-threads! finds its thread, and takes it out.
LEMMA WithoutFacts ==
  ASSUME TypeOK, Sleepers, NEW t \in Thread
  PROVE  /\ ~NotFound(t)
         /\ WithoutSleeper(t) \in [Time -> SUBSET Thread]
         /\ \A k \in Time : WithoutSleeper(t)[k] = sleeping[k] \ {t}
<1>1. sleeping \in [Time -> SUBSET Thread] /\ sleepUntil \in [Thread -> Time \cup {Never}]
  BY DEF TypeOK
<1>2. CASE sleepUntil[t] = Never
  <2>1. \A k \in Time : t \notin sleeping[k]
    BY <1>2, SchedulerAssumption DEF Sleepers, Time, Never
  <2> QED
    BY <1>1, <1>2, <2>1 DEF NotFound, WithoutSleeper
<1>3. CASE sleepUntil[t] # Never
  <2>1. PICK m \in Time : m = sleepUntil[t]
    BY <1>1, <1>3
  <2>2. sleeping[m] = {t}
    BY <1>1, <1>3, <2>1 DEF Sleepers
  <2>3. \A k \in Time : k # m => t \notin sleeping[k]
    BY <2>1 DEF Sleepers
  <2>4. WithoutSleeper(t) = [sleeping EXCEPT ![m] = IF @ = {t} THEN {} ELSE @]
    BY <1>3, <2>1 DEF WithoutSleeper
  <2> QED
    BY <1>1, <2>1, <2>2, <2>3, <2>4 DEF NotFound
<1> QED
  BY <1>2, <1>3

\* A thread that sleeps no more.
LEMMA AwakeFacts ==
  ASSUME TypeOK, Sleepers, NEW t \in Thread,
         sleeping' = WithoutSleeper(t), sleepUntil' = [sleepUntil EXCEPT ![t] = Never]
  PROVE  /\ ~NotFound(t) /\ Sleepers'
         /\ sleeping' \in [Time -> SUBSET Thread]
         /\ sleepUntil' \in [Thread -> Time \cup {Never}]
         /\ sleepUntil'[t] = Never
         /\ \A u \in Thread : u # t => sleepUntil'[u] = sleepUntil[u]
<1>1. sleepUntil \in [Thread -> Time \cup {Never}]
  BY DEF TypeOK
<1>2. /\ sleepUntil' \in [Thread -> Time \cup {Never}]
      /\ sleepUntil'[t] = Never
      /\ \A u \in Thread : u # t => sleepUntil'[u] = sleepUntil[u]
  BY <1>1
<1>3. /\ ~NotFound(t) /\ sleeping' \in [Time -> SUBSET Thread]
      /\ \A k \in Time : sleeping'[k] = sleeping[k] \ {t}
  BY WithoutFacts
<1>4. \A k \in Time : k # Never
  BY SchedulerAssumption DEF Time, Never
<1>5. ASSUME NEW u \in Thread, NEW k \in Time
      PROVE  u \in sleeping'[k] <=> sleepUntil'[u] = k
  BY <1>2, <1>3, <1>4 DEF Sleepers
<1>6. ASSUME NEW u \in Thread, NEW v \in Thread,
             sleepUntil'[u] = sleepUntil'[v], u # v
      PROVE  sleepUntil'[u] = Never
  BY <1>2, <1>6 DEF Sleepers
<1> QED
  BY <1>2, <1>3, <1>5, <1>6 DEF Sleepers

\* thread-internal-resume! of a blocked or suspended thread.
LEMMA InternalResumeFacts ==
  ASSUME IInv, Up, NEW u \in Thread, Live(u), intr[u] # "none", InternalResume(u),
         UNCHANGED engine
  PROVE  /\ g' \in Group /\ Members(g', Runnable') /\ Joins(g', Runnable', u)
         /\ intr' \in [Thread -> {"none", "void", "callback"}]
         /\ intr'[u] = "none" /\ \A v \in Thread : v # u => intr'[v] = intr[v]
         /\ status' = "up" /\ Sleepers'
         /\ sleeping' \in [Time -> SUBSET Thread]
         /\ sleepUntil' \in [Thread -> Time \cup {Never}]
         /\ sleepUntil'[u] = Never
         /\ \A v \in Thread : v # u => sleepUntil'[v] = sleepUntil[v]
<1>1. /\ TypeOK /\ Core /\ g \in Group /\ Runnable \in SUBSET Thread
      /\ Members(g, Runnable) /\ status = "up"
  BY UpFacts DEF Up
<1>2. /\ ~NotFound(u) /\ Sleepers'
      /\ sleeping' \in [Time -> SUBSET Thread]
      /\ sleepUntil' \in [Thread -> Time \cup {Never}]
      /\ sleepUntil'[u] = Never
      /\ \A v \in Thread : v # u => sleepUntil'[v] = sleepUntil[v]
  BY <1>1, AwakeFacts DEF InternalResume, Core
<1>3. intr \in [Thread -> {"none", "void", "callback"}]
  BY <1>1 DEF TypeOK
<1>4. /\ intr' \in [Thread -> {"none", "void", "callback"}]
      /\ intr'[u] = "none" /\ \A v \in Thread : v # u => intr'[v] = intr[v]
  BY <1>3 DEF InternalResume
<1>5. u \notin Runnable
  BY DEF Runnable
<1>6. Runnable' = Runnable \cup {u}
  BY <1>4 DEF Runnable, Live
<1>7. g' \in Group /\ Members(g', Runnable')
  BY <1>1, <1>5, <1>6, MembersAdded DEF InternalResume
<1>8. status' = "up"
  BY <1>1, <1>2 DEF InternalResume
<1>9. Joins(g', Runnable', u)
  BY <1>5, <1>6 DEF InternalResume, Joins
<1> QED
  BY <1>2, <1>4, <1>7, <1>8, <1>9

\* A thread that leaves its operation.
LEMMA LeaveFacts ==
  ASSUME TypeOK, NEW u \in Thread, Leave(u)
  PROVE  /\ op' \in [Thread -> {"none", "sleep", "wait"}] /\ until' \in [Thread -> Time]
         /\ op'[u] = "none" /\ \A v \in Thread : v # u => op'[v] = op[v]
<1>1. op \in [Thread -> {"none", "sleep", "wait"}] /\ until \in [Thread -> Time]
  BY DEF TypeOK
<1>2. 0 \in Time
  BY SchedulerAssumption DEF Time
<1> QED
  BY <1>1, <1>2 DEF Leave

\* waiter-resume!
LEMMA ResumeKeeps ==
  ASSUME IInv, NEW t \in Thread, NEW u \in Thread, Resume(t, u)
  PROVE  IInv' /\ GroupStep
<1>1. TypeOK /\ Core /\ Up /\ u \in waiting /\ InternalResume(u) /\ UNCHANGED engine
  BY UpFacts DEF Resume, Running
<1>2. Live(u) /\ intr[u] # "none" /\ ~suspended[u] /\ ~needsRetry[u]
  BY <1>1 DEF Core, Blocked, Callbacks
<1>3. /\ g' \in Group /\ Members(g', Runnable') /\ Joins(g', Runnable', u)
      /\ intr' \in [Thread -> {"none", "void", "callback"}]
      /\ intr'[u] = "none" /\ \A v \in Thread : v # u => intr'[v] = intr[v]
      /\ status' = "up" /\ Sleepers'
      /\ sleeping' \in [Time -> SUBSET Thread]
      /\ sleepUntil' \in [Thread -> Time \cup {Never}]
      /\ sleepUntil'[u] = Never
      /\ \A v \in Thread : v # u => sleepUntil'[v] = sleepUntil[v]
  BY <1>1, <1>2, InternalResumeFacts
<1>4. /\ op' \in [Thread -> {"none", "sleep", "wait"}] /\ until' \in [Thread -> Time]
      /\ \A v \in Thread : v # u => op'[v] = op[v]
  BY <1>1, LeaveFacts DEF Resume
<1>5. waiting' = waiting \ {u}
      /\ UNCHANGED <<current, engine, suspended, needsRetry, pollDone, now, timeout, odd>>
  BY DEF Resume
<1>6. TypeOK'
  BY <1>1, <1>3, <1>4, <1>5 DEF TypeOK
<1>7. Engines'
  BY <1>1, <1>2, <1>3, <1>5 DEF Core, Engines, Live
<1>8. Callbacks'
  BY <1>1, <1>2, <1>3, <1>4, <1>5 DEF Core, Callbacks, Live
<1>9. Blocked'
  BY <1>1, <1>3, <1>4, <1>5 DEF Core, Blocked, Live
<1>10. Endings'
  BY <1>3 DEF Endings
<1>11. GroupStep
  BY <1>3, <1>5 DEF GroupStep
<1> QED
  BY <1>3, <1>6, <1>7, <1>8, <1>9, <1>10, <1>11 DEF IInv, Core

\* thread-resume of a suspended thread.
LEMMA ThreadResumeKeeps ==
  ASSUME IInv, NEW t \in Thread, NEW u \in Thread, ThreadResume(t, u)
  PROVE  IInv' /\ GroupStep
<1>1. /\ TypeOK /\ Core /\ Up /\ suspended[u] /\ engine[u] # "done"
      /\ InternalResume(u) /\ UNCHANGED engine
  BY UpFacts DEF ThreadResume, Running
<1>2. /\ suspended \in [Thread -> BOOLEAN]
      /\ engine \in [Thread -> {"none", "ready", "running", "done"}]
  BY <1>1 DEF TypeOK
<1>3. Live(u) /\ intr[u] # "none" /\ u \notin waiting
  BY <1>1, <1>2 DEF Core, Engines, Callbacks, Blocked, Live
<1>4. /\ g' \in Group /\ Members(g', Runnable') /\ Joins(g', Runnable', u)
      /\ intr' \in [Thread -> {"none", "void", "callback"}]
      /\ intr'[u] = "none" /\ \A v \in Thread : v # u => intr'[v] = intr[v]
      /\ status' = "up" /\ Sleepers'
      /\ sleeping' \in [Time -> SUBSET Thread]
      /\ sleepUntil' \in [Thread -> Time \cup {Never}]
      /\ sleepUntil'[u] = Never
      /\ \A v \in Thread : v # u => sleepUntil'[v] = sleepUntil[v]
  BY <1>1, <1>3, InternalResumeFacts
<1>5. /\ suspended' \in [Thread -> BOOLEAN] /\ suspended'[u] = FALSE
      /\ \A v \in Thread : v # u => suspended'[v] = suspended[v]
  BY <1>2 DEF ThreadResume
<1>6. UNCHANGED <<current, engine, needsRetry, op, waiting, until, pollDone, now, timeout,
                  odd>>
  BY DEF ThreadResume
<1>7. TypeOK'
  BY <1>1, <1>4, <1>5, <1>6 DEF TypeOK
<1>8. Engines'
  BY <1>1, <1>3, <1>4, <1>5, <1>6 DEF Core, Engines, Live
<1>9. Callbacks'
  BY <1>1, <1>3, <1>4, <1>5, <1>6 DEF Core, Callbacks, Live
<1>10. Blocked'
  BY <1>1, <1>3, <1>4, <1>5, <1>6 DEF Core, Blocked, Live
<1>11. Endings'
  BY <1>4 DEF Endings
<1>12. GroupStep
  BY <1>4, <1>6 DEF GroupStep
<1> QED
  BY <1>4, <1>7, <1>8, <1>9, <1>10, <1>11, <1>12 DEF IInv, Core

\* The interrupt callback of a thread is called.
LEMMA InterruptFacts ==
  ASSUME TypeOK, NEW u \in Thread, intr[u] # "none", Interrupt(u)
  PROVE  /\ intr' \in [Thread -> {"none", "void", "callback"}]
         /\ intr'[u] = "void" /\ \A v \in Thread : v # u => intr'[v] = intr[v]
         /\ needsRetry' \in [Thread -> BOOLEAN]
         /\ needsRetry'[u] <=> needsRetry[u] \/ intr[u] = "callback"
         /\ \A v \in Thread : v # u => needsRetry'[v] = needsRetry[v]
         /\ waiting' = waiting \ {u}
<1>1. /\ intr \in [Thread -> {"none", "void", "callback"}]
      /\ needsRetry \in [Thread -> BOOLEAN]
  BY DEF TypeOK
<1>2. /\ intr' \in [Thread -> {"none", "void", "callback"}]
      /\ intr'[u] = "void" /\ \A v \in Thread : v # u => intr'[v] = intr[v]
  BY <1>1 DEF Interrupt
<1>3. PICK b \in BOOLEAN : b = (needsRetry[u] \/ intr[u] = "callback")
  BY Zenon
<1>4. needsRetry' = [needsRetry EXCEPT ![u] = b]
  BY <1>3 DEF Interrupt
<1>5. /\ needsRetry' \in [Thread -> BOOLEAN] /\ needsRetry'[u] = b
      /\ \A v \in Thread : v # u => needsRetry'[v] = needsRetry[v]
  BY <1>1, <1>4
<1>6. needsRetry'[u] <=> needsRetry[u] \/ intr[u] = "callback"
  BY <1>3, <1>5, Zenon
<1> QED
  BY <1>2, <1>5, <1>6 DEF Interrupt

\* thread-dead! of a live thread: it has left the group, its line and the
\* tree.
LEMMA ThreadDeadKeeps ==
  ASSUME IInv, Up, NEW u \in Thread, Live(u), ThreadDead(u),
         current' = (IF current = u THEN None ELSE current),
         pollDone' \subseteq Thread,
         UNCHANGED <<suspended, now, timeout, odd>>
  PROVE  IInv' /\ GroupStep
<1>1. /\ TypeOK /\ Core /\ g \in Group /\ Runnable \in SUBSET Thread
      /\ Members(g, Runnable) /\ status = "up"
  BY UpFacts DEF Up
<1>2. /\ ~NotFound(u) /\ Sleepers'
      /\ sleeping' \in [Time -> SUBSET Thread]
      /\ sleepUntil' \in [Thread -> Time \cup {Never}]
      /\ sleepUntil'[u] = Never
      /\ \A v \in Thread : v # u => sleepUntil'[v] = sleepUntil[v]
  BY <1>1, AwakeFacts DEF ThreadDead, Core
<1>3. /\ op' \in [Thread -> {"none", "sleep", "wait"}] /\ until' \in [Thread -> Time]
      /\ \A v \in Thread : v # u => op'[v] = op[v]
  BY <1>1, LeaveFacts DEF ThreadDead
<1>4. engine \in [Thread -> {"none", "ready", "running", "done"}]
  BY <1>1 DEF TypeOK
<1>5. /\ engine' \in [Thread -> {"none", "ready", "running", "done"}]
      /\ engine'[u] = "done" /\ \A v \in Thread : v # u => engine'[v] = engine[v]
  BY <1>4 DEF ThreadDead
<1>6. status' \in {"up", "exit"}
  BY <1>1, <1>2 DEF ThreadDead
<1>7. /\ intr' \in [Thread -> {"none", "void", "callback"}]
      /\ \A v \in Thread : v # u => intr'[v] = intr[v]
      /\ needsRetry' \in [Thread -> BOOLEAN]
      /\ \A v \in Thread : v # u => needsRetry'[v] = needsRetry[v]
      /\ waiting' \subseteq waiting /\ u \notin waiting'
      /\ g' \in Group /\ Members(g', Runnable \ {u})
      /\ g' = IF u \in Runnable THEN Removed(g, u) ELSE g
  <2>1. CASE intr[u] = "none"
    <3>1. g' = Removed(g, u) /\ UNCHANGED <<intr, needsRetry, waiting>>
      BY <2>1 DEF ThreadDead
    <3>2. u \in Runnable /\ u \notin waiting
      BY <2>1, <1>1 DEF Runnable, Live, Core, Blocked
    <3>3. g' \in Group /\ Members(g', Runnable \ {u})
      BY <1>1, <3>1, <3>2, MembersRemoved
    <3> QED
      BY <1>1, <3>1, <3>2, <3>3 DEF TypeOK
  <2>2. CASE intr[u] # "none"
    <3>1. Interrupt(u) /\ g' = g
      BY <2>2 DEF ThreadDead
    <3>2. u \notin Runnable
      BY <2>2 DEF Runnable
    <3>3. Runnable \ {u} = Runnable
      BY <3>2
    <3>4. g' \in Group /\ Members(g', Runnable \ {u})
      BY <1>1, <3>1, <3>3
    <3> QED
      BY <1>1, <2>2, <3>1, <3>2, <3>4, InterruptFacts
  <2> QED
    BY <2>1, <2>2
<1>8. Runnable' = Runnable \ {u}
  BY <1>5, <1>7 DEF Runnable
<1>9. TypeOK'
  <2>1. current' \in Thread \cup {None} /\ waiting' \subseteq Thread
    BY <1>1, <1>7 DEF TypeOK
  <2> QED
    BY <1>1, <1>2, <1>3, <1>5, <1>6, <1>7, <2>1 DEF TypeOK
<1>10. Engines'
  <2>1. \A v \in Thread : engine'[v] = "running" <=> current' = v
    BY <1>1, <1>5, SchedulerAssumption DEF Core, Engines
  <2>2. \A v \in Thread : current' = v => intr'[v] = "none"
    BY <1>1, <1>7, SchedulerAssumption DEF Core, Engines
  <2>3. timeout' # Never => current' = None
    BY <1>1 DEF Core, Engines
  <2>4. \A v \in Thread : engine'[v] = "none" =>
          intr'[v] = "none" /\ ~suspended'[v] /\ ~needsRetry'[v]
    BY <1>1, <1>5, <1>7 DEF Core, Engines
  <2> QED
    BY <2>1, <2>2, <2>3, <2>4 DEF Engines
<1>11. Callbacks'
  BY <1>1, <1>3, <1>5, <1>7 DEF Core, Callbacks, Live
<1>12. Blocked'
  BY <1>1, <1>2, <1>3, <1>5, <1>7 DEF Core, Blocked, Live
<1>13. Endings'
  BY <1>6 DEF Endings
<1>14. GroupStep
  <2>1. current' \in {current, None}
    OBVIOUS
  <2>2. CASE u \in Runnable
    BY <1>7, <1>8, <2>1, <2>2 DEF GroupStep, Leaves
  <2>3. CASE u \notin Runnable
    BY <1>7, <1>8, <2>1, <2>3 DEF GroupStep, Stays
  <2> QED
    BY <2>2, <2>3
<1> QED
  BY <1>2, <1>7, <1>8, <1>9, <1>10, <1>11, <1>12, <1>13, <1>14 DEF IInv, Core

\* kill-thread.
LEMMA KillThreadKeeps ==
  ASSUME IInv, NEW t \in Thread, NEW u \in Thread, KillThread(t, u)
  PROVE  IInv' /\ GroupStep
<1>1. Up /\ current = t /\ u # t /\ Live(u) /\ ThreadDead(u)
  BY DEF KillThread, Running, Live
<1>2. current' = IF current = u THEN None ELSE current
  BY <1>1 DEF KillThread
<1>3. pollDone' \subseteq Thread
  BY <1>1, UpFacts DEF KillThread, TypeOK
<1> QED
  BY <1>1, <1>2, <1>3, ThreadDeadKeeps DEF KillThread

\* A thread ends.
LEMMA EndKeeps ==
  ASSUME IInv, NEW t \in Thread, End(t)
  PROVE  IInv' /\ GroupStep
<1>1. Up /\ current = t /\ ThreadDead(t)
  BY DEF End, Running
<1>2. Live(t)
  BY <1>1, UpFacts DEF Core, Engines, Live
<1>3. current' = (IF current = t THEN None ELSE current) /\ pollDone' \subseteq Thread
  BY <1>1 DEF End
<1> QED
  BY <1>1, <1>2, <1>3, ThreadDeadKeeps DEF End

\* thread-suspend: a thread of the group leaves it, a blocked one leaves its
\* line.
LEMMA ThreadSuspendKeeps ==
  ASSUME IInv, NEW t \in Thread, NEW u \in Thread, ThreadSuspend(t, u)
  PROVE  IInv' /\ GroupStep
<1>1. /\ TypeOK /\ Core /\ g \in Group /\ Runnable \in SUBSET Thread
      /\ Members(g, Runnable) /\ status = "up"
  BY UpFacts DEF ThreadSuspend, Running, Up
<1>2. Up /\ current = t /\ ~needsRetry[t] /\ Live(u) /\ ~suspended[u]
  BY DEF ThreadSuspend, Running, Live
<1>3. /\ suspended \in [Thread -> BOOLEAN]
      /\ engine \in [Thread -> {"none", "ready", "running", "done"}]
      /\ intr \in [Thread -> {"none", "void", "callback"}]
      /\ needsRetry \in [Thread -> BOOLEAN] /\ waiting \subseteq Thread
  BY <1>1 DEF TypeOK
<1>4. /\ suspended' \in [Thread -> BOOLEAN] /\ suspended'[u] = TRUE
      /\ \A v \in Thread : v # u => suspended'[v] = suspended[v]
  BY <1>3 DEF ThreadSuspend
<1>5. /\ engine' \in [Thread -> {"none", "ready", "running", "done"}]
      /\ \A v \in Thread : engine'[v] \in {"ready", "running"} <=> Live(v)
      /\ \A v \in Thread : engine'[v] = "none" <=> engine[v] = "none"
      /\ \A v \in Thread : engine'[v] = "running" <=> current' = v
      /\ current' \in Thread \cup {None}
      /\ current' = (IF u = t THEN None ELSE t)
      /\ pollDone' \subseteq Thread
  <2>1. CASE u = t
    <3>1. engine' = [engine EXCEPT ![t] = "ready"] /\ current' = None /\ pollDone' = {}
      BY <2>1 DEF ThreadSuspend
    <3>2. engine[t] = "running" /\ \A v \in Thread : engine[v] = "running" <=> t = v
      BY <1>1, <1>2 DEF Core, Engines
    <3>3. /\ engine' \in [Thread -> {"none", "ready", "running", "done"}]
          /\ engine'[t] = "ready" /\ \A v \in Thread : v # t => engine'[v] = engine[v]
      BY <1>3, <3>1
    <3> QED
      BY <2>1, <3>1, <3>2, <3>3, SchedulerAssumption DEF Live
  <2>2. CASE u # t
    <3>1. UNCHANGED <<engine, current, pollDone>>
      BY <2>2 DEF ThreadSuspend
    <3>2. pollDone \subseteq Thread
      BY <1>1 DEF TypeOK
    <3> QED
      BY <1>1, <1>2, <1>3, <2>2, <3>1, <3>2 DEF Live, Core, Engines
  <2> QED
    BY <2>1, <2>2
<1>6. /\ intr' \in [Thread -> {"none", "void", "callback"}]
      /\ intr'[u] # "none" /\ \A v \in Thread : v # u => intr'[v] = intr[v]
      /\ needsRetry' \in [Thread -> BOOLEAN]
      /\ needsRetry'[u] => needsRetry[u] \/ intr[u] = "callback"
      /\ \A v \in Thread : v # u => needsRetry'[v] = needsRetry[v]
      /\ waiting' \subseteq waiting /\ u \notin waiting'
      /\ g' \in Group /\ Members(g', Runnable \ {u})
      /\ g' = IF u \in Runnable THEN Removed(g, u) ELSE g
  <2>1. CASE intr[u] = "none"
    <3>1. /\ g' = Removed(g, u) /\ intr' = [intr EXCEPT ![u] = "callback"]
          /\ UNCHANGED <<needsRetry, waiting>>
      BY <2>1 DEF ThreadSuspend
    <3>2. u \in Runnable /\ u \notin waiting
      BY <2>1, <1>1, <1>2 DEF Runnable, Live, Core, Blocked
    <3>3. g' \in Group /\ Members(g', Runnable \ {u})
      BY <1>1, <3>1, <3>2, MembersRemoved
    <3>4. /\ intr' \in [Thread -> {"none", "void", "callback"}]
          /\ intr'[u] = "callback" /\ \A v \in Thread : v # u => intr'[v] = intr[v]
      BY <1>3, <3>1
    <3> QED
      BY <1>3, <3>1, <3>2, <3>3, <3>4
  <2>2. CASE intr[u] # "none"
    <3>1. Interrupt(u) /\ g' = g
      BY <2>2 DEF ThreadSuspend
    <3>2. u \notin Runnable
      BY <2>2 DEF Runnable
    <3>3. Runnable \ {u} = Runnable
      BY <3>2
    <3>4. g' \in Group /\ Members(g', Runnable \ {u})
      BY <1>1, <3>1, <3>3
    <3> QED
      BY <1>1, <2>2, <3>1, <3>2, <3>4, InterruptFacts
  <2> QED
    BY <2>1, <2>2
<1>7. Runnable' = Runnable \ {u}
  BY <1>5, <1>6 DEF Runnable, Live
<1>8. UNCHANGED <<op, until, sleepVars, now, timeout, status, odd>>
  BY DEF ThreadSuspend
<1>9. TypeOK'
  <2>1. waiting' \subseteq Thread
    BY <1>3, <1>6
  <2> QED
    BY <1>1, <1>4, <1>5, <1>6, <1>8, <2>1 DEF TypeOK, sleepVars
<1>10. Engines'
  <2>1. \A v \in Thread : current' = v => intr'[v] = "none"
    BY <1>1, <1>2, <1>5, <1>6, SchedulerAssumption DEF Core, Engines
  <2>2. timeout' # Never => current' = None
    BY <1>1, <1>2, <1>8, SchedulerAssumption DEF Core, Engines
  <2>3. \A v \in Thread : engine'[v] = "none" =>
          intr'[v] = "none" /\ ~suspended'[v] /\ ~needsRetry'[v]
    BY <1>1, <1>2, <1>4, <1>5, <1>6 DEF Core, Engines, Live
  <2> QED
    BY <1>5, <2>1, <2>2, <2>3 DEF Engines
<1>11. Callbacks'
  BY <1>1, <1>2, <1>4, <1>5, <1>6, <1>8 DEF Core, Callbacks, Live
<1>12. Blocked'
  BY <1>1, <1>2, <1>4, <1>5, <1>6, <1>8 DEF Core, Blocked, Live, sleepVars
<1>13. Sleepers' /\ Endings'
  BY <1>1, <1>8 DEF Core, Sleepers, Endings, sleepVars
<1>14. GroupStep
  <2>1. current' \in {current, None}
    BY <1>2, <1>5
  <2>2. CASE u \in Runnable
    BY <1>6, <1>7, <2>1, <2>2 DEF GroupStep, Leaves
  <2>3. CASE u \notin Runnable
    BY <1>6, <1>7, <2>1, <2>3 DEF GroupStep, Stays
  <2> QED
    BY <2>2, <2>3
<1> QED
  BY <1>6, <1>7, <1>9, <1>10, <1>11, <1>12, <1>13, <1>14 DEF IInv, Core

\* check-timeouts wakes up a thread that sleeps, and the next thread of the
\* group runs; if the sleeper is suspended, what follows is not followed.
LEMMA SelectAfterTimeoutKeeps ==
  ASSUME IInv, SelectAfterTimeout
  PROVE  IInv' /\ GroupStep
<1>1. /\ TypeOK /\ Core /\ g \in Group /\ Runnable \in SUBSET Thread
      /\ Members(g, Runnable) /\ status = "up" /\ odd = {}
  BY UpFacts DEF SelectAfterTimeout, Selecting, Up
<1>2. current = None /\ timeout = Never /\ Keys # {}
  BY DEF SelectAfterTimeout, Selecting, Due
<1>3. PICK t \in sleeping[MinKey] :
        /\ SwapIn(Added(g, t))
        /\ Leave(t)
        /\ intr' = [intr EXCEPT ![t] = "none"]
        /\ sleeping' = WithoutSleeper(t)
        /\ sleepUntil' = [sleepUntil EXCEPT ![t] = Never]
        /\ odd' = IF suspended[t] THEN odd \cup {"suspended sleeper"} ELSE odd
  BY DEF SelectAfterTimeout
<1>4. /\ pollDone' = {}
      /\ UNCHANGED <<suspended, needsRetry, waiting, now, timeout>>
  BY DEF SelectAfterTimeout
<1>5. MinKey \in Time
  BY <1>2, MinKeyFacts
<1>6. t \in Thread
  BY <1>1, <1>3, <1>5 DEF TypeOK
<1>7. sleepUntil[t] # Never
  <2>1. MinKey # Never
    BY <1>5, SchedulerAssumption DEF Time, Never
  <2> QED
    BY <1>1, <1>3, <1>5, <1>6, <2>1 DEF Core, Sleepers
<1>8. Live(t) /\ intr[t] # "none" /\ t \notin waiting
  BY <1>1, <1>6, <1>7 DEF Core, Blocked
<1>9. PICK R \in SUBSET Thread : R = Runnable \cup {t}
  BY <1>1, <1>6
<1>10. PICK h \in Group : h = Added(g, t) /\ Members(h, R) /\ t \notin Runnable
  <2>1. t \notin Runnable
    BY <1>8 DEF Runnable
  <2> QED
    BY <1>1, <1>6, <1>9, <2>1, MembersAdded
<1>11. SwapIn(h) /\ \A u \in R : Live(u)
  BY <1>3, <1>8, <1>9, <1>10 DEF Runnable, Live
<1>12. \E n \in R :
         /\ g' \in Group /\ Members(g', R)
         /\ n = NextOf(h) /\ n # None
         /\ g' = [h EXCEPT !.chain = h.next[NextOf(h)]]
         /\ current' = n /\ engine' = [engine EXCEPT ![n] = "running"]
         /\ status' = "up"
  <2>1. R # {}
    BY <1>9
  <2> QED
    BY <1>1, <1>2, <1>10, <1>11, <2>1, SwapInFacts
<1>13. PICK n \in R :
         /\ g' \in Group /\ Members(g', R)
         /\ n = NextOf(h) /\ n # None
         /\ g' = [h EXCEPT !.chain = h.next[NextOf(h)]]
         /\ current' = n /\ engine' = [engine EXCEPT ![n] = "running"]
         /\ status' = "up"
  BY <1>12
<1>14. /\ ~NotFound(t) /\ Sleepers'
       /\ sleeping' \in [Time -> SUBSET Thread]
       /\ sleepUntil' \in [Thread -> Time \cup {Never}]
       /\ sleepUntil'[t] = Never
       /\ \A u \in Thread : u # t => sleepUntil'[u] = sleepUntil[u]
  BY <1>1, <1>3, <1>6, AwakeFacts DEF Core
<1>15. /\ op' \in [Thread -> {"none", "sleep", "wait"}] /\ until' \in [Thread -> Time]
       /\ \A u \in Thread : u # t => op'[u] = op[u]
  BY <1>1, <1>3, <1>6, LeaveFacts
<1>16. /\ engine \in [Thread -> {"none", "ready", "running", "done"}]
       /\ intr \in [Thread -> {"none", "void", "callback"}]
  BY <1>1 DEF TypeOK
<1>17. /\ engine' \in [Thread -> {"none", "ready", "running", "done"}]
       /\ engine'[n] = "running" /\ \A u \in Thread : u # n => engine'[u] = engine[u]
  BY <1>13, <1>16
<1>18. /\ intr' \in [Thread -> {"none", "void", "callback"}]
       /\ intr'[t] = "none" /\ \A u \in Thread : u # t => intr'[u] = intr[u]
  BY <1>3, <1>6, <1>16
<1>19. Runnable' = R
  BY <1>8, <1>9, <1>11, <1>17, <1>18 DEF Runnable, Live
<1>20. TypeOK'
  <2>1. odd' \subseteq {"suspended sleeper", "same time", "overslept"}
    BY <1>1, <1>3
  <2> QED
    BY <1>1, <1>4, <1>13, <1>14, <1>15, <1>17, <1>18, <2>1 DEF TypeOK
<1>21. ASSUME odd' = {} PROVE Core'
  <2>1. ~suspended[t] /\ ~needsRetry[t]
    BY <1>1, <1>3, <1>6, <1>8, <1>21 DEF Core, Callbacks
  <2>2. \A u \in Thread : engine'[u] \in {"ready", "running"} <=> Live(u)
    BY <1>11, <1>17 DEF Live
  <2>3. Engines'
    <3>1. \A u \in Thread : engine'[u] = "running" <=> current' = u
      BY <1>1, <1>2, <1>13, <1>17, SchedulerAssumption DEF Core, Engines
    <3>2. intr'[n] = "none"
      BY <1>9, <1>18 DEF Runnable
    <3>3. \A u \in Thread : engine'[u] = "none" =>
            intr'[u] = "none" /\ ~suspended'[u] /\ ~needsRetry'[u]
      BY <1>1, <1>4, <1>17, <1>18 DEF Core, Engines
    <3> QED
      BY <1>2, <1>4, <1>13, <3>1, <3>2, <3>3 DEF Engines
  <2>4. Callbacks'
    BY <1>1, <1>4, <1>15, <1>18, <2>1, <2>2 DEF Core, Callbacks, Live
  <2>5. Blocked'
    BY <1>1, <1>4, <1>8, <1>14, <1>15, <1>18, <2>2 DEF Core, Blocked, Live
  <2>6. Endings'
    BY <1>13 DEF Endings
  <2>7. Members(g', Runnable')
    BY <1>13, <1>19
  <2> QED
    BY <1>14, <2>3, <2>4, <2>5, <2>6, <2>7 DEF Core
<1>22. GroupStep
  <2>1. Joins(h, Runnable', t)
    BY <1>6, <1>9, <1>10, <1>19 DEF Joins
  <2>2. Swaps(h)
    BY <1>2, <1>6, <1>10, <1>13, <1>19, <2>1 DEF Swaps
  <2> QED
    BY <2>2 DEF GroupStep
<1> QED
  BY <1>20, <1>21, <1>22 DEF IInv

\* Nothing happens.
LEMMA StutterKeeps ==
  ASSUME IInv, UNCHANGED vars
  PROVE  IInv' /\ GroupStep
<1>1. Runnable' = Runnable
  BY DEF vars, threadVars, Runnable
<1>2. TypeOK'
  BY DEF IInv, TypeOK, vars, threadVars, sleepVars
<1>3. ASSUME odd' = {} PROVE Core'
  <2>1. Core
    BY <1>3 DEF IInv, vars
  <2>2. Members(g', Runnable')
    BY <1>1, <2>1 DEF Core, vars
  <2>3. (Engines /\ Callbacks /\ Blocked)'
    BY <2>1 DEF Core, vars, threadVars, sleepVars, Engines, Callbacks, Blocked, Live
  <2>4. (Sleepers /\ Endings)'
    BY <1>1, <2>1 DEF Core, vars, sleepVars, Sleepers, Endings
  <2> QED
    BY <2>2, <2>3, <2>4 DEF Core
<1>4. GroupStep
  BY <1>1 DEF vars, GroupStep, Stays
<1> QED
  BY <1>2, <1>3, <1>4 DEF IInv

\* Every step keeps the invariant.
LEMMA NextKeeps ==
  IInv /\ [Next]_vars => IInv' /\ GroupStep
<1> SUFFICES ASSUME IInv, [Next]_vars PROVE IInv' /\ GroupStep
  OBVIOUS
<1>1. CASE Scheduling
  BY <1>1, SelectAfterTimeoutKeeps, ProcessSleepKeeps, WakeUpKeeps, SelectKeeps
     DEF Scheduling
<1>2. CASE Engine
  BY <1>2, ExpireKeeps, RetryKeeps DEF Engine
<1>3. CASE Tick
  BY <1>3, TickKeeps
<1>4. ASSUME NEW t \in Thread, Program(t) PROVE IInv' /\ GroupStep
  <2>1. ASSUME NEW u \in Thread,
               \/ MakeThread(t, u) \/ Resume(t, u) \/ ThreadSuspend(t, u)
               \/ ThreadResume(t, u) \/ KillThread(t, u)
        PROVE  IInv' /\ GroupStep
    BY <2>1, MakeThreadKeeps, ResumeKeeps, ThreadSuspendKeeps, ThreadResumeKeeps,
       KillThreadKeeps
  <2>2. ASSUME NEW m \in Time, Sleep(t, m) PROVE IInv' /\ GroupStep
    BY <2>2, SleepKeeps
  <2>3. CASE Wait(t) \/ End(t)
    BY <2>3, WaitKeeps, EndKeeps
  <2>4. ASSUME NEW didWork \in BOOLEAN, Yield(t, didWork) PROVE IInv' /\ GroupStep
    BY <2>4, YieldKeeps
  <2> QED
    BY <1>4, <2>1, <2>2, <2>3, <2>4 DEF Program
<1>5. CASE UNCHANGED vars
  BY <1>5, StutterKeeps
<1> QED
  BY <1>1, <1>2, <1>3, <1>4, <1>5 DEF Next

----------------------------------------------------------------------------
(* The theorems.                                                           *)

\* The invariant holds in every state that the scheduler reaches.
THEOREM Invariance ==
  Spec => []IInv
<1> QED
  BY InitEstablishes, NextKeeps, PTL DEF Spec

\* The variables have their types: the links of the thread group, its cursor
\* and num-threads-in-groups among them, which never exceeds the number of
\* threads.
THEOREM TypeCorrect ==
  Spec => []TypeOK
<1>1. IInv => TypeOK
  BY DEF IInv
<1> QED
  BY <1>1, Invariance, PTL

\* Whatever threads are made, block, wake up, are suspended, resumed and
\* killed, and in whatever order, next and prev of the thread group are a list
\* of exactly the threads that can be scheduled, the cursor is in it, no
\* internal error is met, and maybe-done ends the program only when nothing is
\* left to run.
THEOREM GroupIsList ==
  Spec => []ChainIsList
<1>1. IInv => ChainIsList
  <2> SUFFICES ASSUME IInv, odd = {} PROVE ChainIsList
    BY DEF ChainIsList
  <2>1. TypeOK /\ Core
    BY DEF IInv
  <2>2. /\ \E s \in [1..g.num -> Runnable] : IsChain(g, Runnable, g.num, s)
        /\ g.num = Cardinality(Runnable) /\ g.chain \in Runnable \cup {None}
    BY <2>1 DEF Core, Members
  <2>4. ASSUME current # None PROVE current \in Runnable /\ ~suspended[current]
    <3>1. current \in Thread
      BY <2>1, <2>4 DEF TypeOK
    <3>2. engine[current] = "running" /\ intr[current] = "none"
      BY <2>1, <3>1 DEF Core, Engines
    <3> QED
      BY <2>1, <3>1, <3>2 DEF Core, Callbacks, Live, Runnable
  <2>5. /\ status # "error"
        /\ status = "done" => Runnable = {} /\ \A t \in Thread : sleepUntil[t] = Never
    BY <2>1 DEF Core, Endings
  <2> QED
    BY <2>2, <2>4, <2>5 DEF ChainIsList
<1> QED
  BY <1>1, Invariance, PTL

\* Nothing happens any more once the program has ended or something odd has
\* happened.
LEMMA NextUp ==
  ASSUME Next
  PROVE  Up
  BY DEF Next, Scheduling, Engine, Tick, Program, SelectAfterTimeout, ProcessSleep, WakeUp,
     Select, Selecting, Expire, Retry, MakeThread, Resume, ThreadSuspend, ThreadResume,
     KillThread, Sleep, Wait, End, Yield, Running

\* A step keeps the turns: what InTurn says of a thread is not made worse.
LEMMA TurnsKept ==
  ASSUME TypeOK, Members(g, Runnable), GroupStep,
         NEW t \in Thread, NEW k \in 0..Cardinality(Thread), InTurn(g, Runnable, t, k)
  PROVE  \/ t \notin Runnable'
         \/ current = None /\ current' = t
         \/ \E j \in 0..k : /\ InTurn(g', Runnable', t, j)
                            /\ current = None /\ current' # None => j < k
<1>1. k \in Nat /\ k \in 0..k
  <2>1. Cardinality(Thread) \in Nat
    BY SchedulerAssumption, FS_CardinalityType
  <2> QED
    BY <2>1
<1>2. g \in Group /\ Runnable \in SUBSET Thread
  BY DEF TypeOK, Runnable
<1>3. CASE Stays
  <2>1. InTurn(g', Runnable', t, k) /\ ~(current = None /\ current' # None)
    BY <1>3 DEF Stays
  <2> QED
    BY <1>1, <2>1
<1>4. ASSUME NEW u \in Thread, Joins(g', Runnable', u), current' \in {current, None}
      PROVE  \E j \in 0..k :
               InTurn(g', Runnable', t, j) /\ ~(current = None /\ current' # None)
  <2>1. InTurn(g', Runnable', t, k)
    BY <1>1, <1>2, <1>4, TurnAdded DEF Joins
  <2> QED
    BY <1>1, <1>4, <2>1
<1>5. ASSUME NEW u \in Thread, Leaves(u), t # u
      PROVE  \E j \in 0..k :
               InTurn(g', Runnable', t, j) /\ ~(current = None /\ current' # None)
  <2>1. \E j \in 0..k : InTurn(g', Runnable', t, j)
    BY <1>1, <1>2, <1>5, TurnRemoved DEF Leaves
  <2> QED
    BY <1>5, <2>1 DEF Leaves
<1>6. ASSUME NEW u \in Thread, Leaves(u), t = u PROVE t \notin Runnable'
  BY <1>6 DEF Leaves
<1>7. ASSUME NEW h \in Group, Swaps(h)
      PROVE  \/ current = None /\ current' = t
             \/ \E j \in 0..k : InTurn(g', Runnable', t, j) /\ j < k
  <2>1. PICK R \in SUBSET Thread : R = Runnable'
    BY DEF Runnable
  <2>2. InTurn(h, R, t, k)
    <3>1. CASE h = g /\ Runnable' = Runnable
      BY <2>1, <3>1
    <3>2. ASSUME NEW u \in Thread, Joins(h, Runnable', u) PROVE InTurn(h, R, t, k)
      BY <1>1, <1>2, <2>1, <3>2, TurnAdded DEF Joins
    <3> QED
      BY <1>7, <3>1, <3>2 DEF Swaps
  <2>3. Members(h, R)
    BY <1>7, <2>1 DEF Swaps
  <2>4. \/ k = 0 /\ NextOf(h) = t
        \/ k # 0 /\ InTurn([h EXCEPT !.chain = h.next[NextOf(h)]], R, t, k - 1)
    BY <1>1, <2>2, <2>3, TurnNext
  <2>5. g' = [h EXCEPT !.chain = h.next[NextOf(h)]] /\ current' = NextOf(h)
    BY <1>7 DEF Swaps
  <2>6. CASE k = 0
    BY <1>7, <2>4, <2>5, <2>6 DEF Swaps
  <2>7. CASE k # 0
    <3>1. k - 1 \in 0..k /\ k - 1 < k
      BY <1>1, <2>7
    <3> QED
      BY <2>1, <2>4, <2>5, <2>7, <3>1
  <2> QED
    BY <2>6, <2>7
<1> QED
  BY <1>3, <1>4, <1>5, <1>6, <1>7 DEF GroupStep

\* A thread that the cursor of the group has not passed is not overtaken: no
\* thread-group-add! or thread-group-remove! puts another one before it, and
\* every thread-group-next! brings it closer to its turn.
THEOREM NobodyOvertaken ==
  Spec => RoundRobin
<1>1. IInv /\ [Next]_vars =>
        [\A s \in [1..g.num -> Runnable] : \A i \in 1..g.num :
           s[i] = g.chain /\ IsChain(g, Runnable, g.num, s) =>
             \A k \in 0..(g.num - i) : NotOvertaken(s[i + k], k)]_vars
  <2> SUFFICES ASSUME IInv, Next,
                      NEW s \in [1..g.num -> Runnable], NEW i \in 1..g.num,
                      s[i] = g.chain, IsChain(g, Runnable, g.num, s),
                      NEW k \in 0..(g.num - i)
               PROVE  NotOvertaken(s[i + k], k)
    OBVIOUS
  <2>1. Up
    BY NextUp
  <2>2. TypeOK /\ Members(g, Runnable)
    BY <2>1, UpFacts
  <2>3. GroupStep
    BY NextKeeps
  <2>4. g.num \in 0..Cardinality(Thread) /\ Cardinality(Thread) \in Nat
    BY <2>2, SchedulerAssumption, FS_CardinalityType DEF TypeOK, Group
  <2>5. /\ i + k \in 1..g.num /\ k \in 0..Cardinality(Thread)
        /\ s[i + k] \in Runnable /\ Runnable \subseteq Thread
    BY <2>4 DEF Runnable
  <2>6. InTurn(g, Runnable, s[i + k], k)
    BY <2>5 DEF InTurn
  <2> QED
    BY <2>2, <2>3, <2>5, <2>6, TurnsKept DEF NotOvertaken
<1> QED
  BY <1>1, Invariance, PTL DEF Spec, RoundRobin
=============================================================================
