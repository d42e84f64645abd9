---------------------------- MODULE FuturesProofs ----------------------------
(***************************************************************************)
(* Proofs about Futures, for any number of futures and future threads and  *)
(* any bounds.  What they establish holds until a touch is completed twice *)
(* (Chain), as the properties say.                                         *)
(***************************************************************************)
EXTENDS Futures, FiniteSetTheorems, NaturalsInduction, WellFoundedInduction, TLAPS

----------------------------------------------------------------------------
(* The inductive invariant.                                                *)

\* The frames of the runtime thread's stack.
Kinds == {"touch", "body", "prim", "touched", "fsema", "ready"}
Calling == {"prim", "touched"}
Busy == {"body", "prim", "touched"}
Blocking == {"fsema", "ready"}
FrameSet == [k : Kinds, f : 0..N]

\* The runtime thread runs the body of f, or a primitive for f.
Body(s, f) == \E i \in DOMAIN s : s[i].k = "body" /\ s[i].f = f
Call(s, f) == \E i \in DOMAIN s : s[i].k \in Calling /\ s[i].f = f

\* Only the innermost frame blocks; a future is run, or worked for, by at most
\* one frame, and only in a touch.
WellStacked(s) ==
  /\ \A i \in DOMAIN s : IF s[i].k \in Blocking THEN i = 1 ELSE s[i].f # NoFuture
  /\ \A i \in DOMAIN s : s[i].k \in Busy => i < Len(s) /\ s[i + 1].k = "touch"
  /\ \A i, j \in DOMAIN s : s[i].k \in Busy /\ s[j].k \in Busy /\ s[i].f = s[j].f => i = j

Distinct(s) == \A i, j \in DOMAIN s : s[i] = s[j] => i = j

\* A future thread runs f, or waits with it.
Works(w, f) == cur[w] = f /\ wpc[w] \in {"run", "touch"}
Waits(w, f) == cur[w] = f /\ wpc[w] \in {"wait", "fwait"}

\* The future thread w has no post yet, but the runtime thread or f has its
\* semaphore.
Blocked(w, f) == sema[w] = 0 /\ (can_continue[f] = w \/ withheld = w)

\* The runtime thread performs a primitive for f.
Handled(f) == (rpc = "rtatomic" /\ job = f) \/ Call(stack, f)

WorkerOK(w) ==
  /\ cur[w] # NoFuture => ~suspended_lw[cur[w]]
  /\ wpc[w] = "idle" => cur[w] = NoFuture /\ fsemaFt[w] = NoFuture /\ sema[w] = 0
  /\ wpc[w] \in {"run", "touch"} =>
       cur[w] # NoFuture /\ status[cur[w]] = "RUNNING" /\ fsemaFt[w] = NoFuture /\ sema[w] = 0
  /\ wpc[w] = "touch" => target[cur[w]] # NoFuture
  /\ wpc[w] = "wait" =>
       /\ fsemaFt[w] = NoFuture
       /\ IF cur[w] = NoFuture THEN sema[w] = 1
          ELSE \/ status[cur[w]] \in {"WAITING_FOR_PRIM", "HANDLING_PRIM"} /\ Blocked(w, cur[w])
               \/ status[cur[w]] = "HANDLING_PRIM" /\ sema[w] = 1
  /\ wpc[w] = "fwait" =>
       /\ fsemaFt[w] # NoFuture /\ status[fsemaFt[w]] = "WAITING_FOR_FSEMA"
       /\ IF cur[w] = NoFuture THEN sema[w] = 1 /\ suspended_lw[fsemaFt[w]]
          ELSE /\ cur[w] = fsemaFt[w] /\ want_lw[cur[w]] /\ Blocked(w, cur[w])
               /\ can_continue[cur[w]] = w => Has(waiting_lwc, cur[w])
  /\ wpc[w] = "fsema" =>
       /\ fsemaFt[w] # NoFuture /\ status[fsemaFt[w]] = "WAITING_FOR_FSEMA"
       /\ cur[w] = NoFuture /\ sema[w] = 0 /\ suspended_lw[fsemaFt[w]]

FutureOK(f) ==
  /\ prim[f] = "touch" => target[f] # NoFuture
  /\ can_continue[f] # NoWorker => Waits(can_continue[f], f) /\ sema[can_continue[f]] = 0
  /\ want_lw[f] => /\ status[f] \in {"WAITING_FOR_PRIM", "WAITING_FOR_FSEMA"}
                   /\ \E w \in Worker : Waits(w, f) /\ Blocked(w, f)
  /\ status[f] = "RUNNING" => Body(stack, f) \/ \E w \in Worker : Works(w, f)
  /\ status[f] \in {"WAITING_FOR_PRIM", "HANDLING_PRIM"} =>
       suspended_lw[f] \/ \E w \in Worker : cur[w] = f /\ wpc[w] = "wait"
  /\ status[f] = "HANDLING_PRIM" =>
       \/ Handled(f)
       \/ rpc = "capture" /\ job = f
       \/ \E w \in Worker : cur[w] = f /\ wpc[w] = "wait" /\ sema[w] = 1
  /\ status[f] = "WAITING_FOR_FSEMA" => Has(line, f) \/ \E w \in Worker : fsemaFt[w] = f
  /\ Has(line, f) => /\ status[f] = "WAITING_FOR_FSEMA" /\ suspended_lw[f]
                     /\ \A w \in Worker : fsemaFt[w] # f
  /\ Handled(f) => status[f] = "HANDLING_PRIM" /\ (suspended_lw[f] \/ can_continue[f] # NoWorker)
  /\ Body(stack, f) => status[f] = "RUNNING" /\ \A w \in Worker : cur[w] # f

\* Nothing is held twice.
Unique ==
  /\ \A w, x \in Worker : cur[w] = cur[x] /\ cur[w] # NoFuture => w = x
  /\ \A w, x \in Worker : fsemaFt[w] = fsemaFt[x] /\ fsemaFt[w] # NoFuture => w = x
  /\ Distinct(line)

Stacked ==
  /\ WellStacked(stack)
  /\ rpc = "raise" => \A i \in DOMAIN stack : stack[i].k \notin Blocking
  /\ rpc = "rtatomic" => ~Call(stack, job)

Runtime ==
  /\ rpc \in {"rtatomic", "chain", "capture"} <=> job # NoFuture
  /\ rpc = "chain" => other # NoFuture
  /\ IF rpc = "capture"
     THEN /\ withheld # NoWorker /\ Waits(withheld, job) /\ sema[withheld] = 0
          /\ can_continue[job] = NoWorker
          /\ want_lw[job] \/ status[job] = "HANDLING_PRIM"
     ELSE withheld = NoWorker

IInv ==
  /\ TypeOK
  /\ \A w \in Worker : WorkerOK(w)
  /\ \A f \in Future : FutureOK(f)
  /\ Unique /\ Stacked /\ Runtime /\ PendingQueue
  /\ ready > 0 => line = <<>>

----------------------------------------------------------------------------
(* Sequences.                                                              *)

\* The elements of s at the positions in P: each of them, and no others; none
\* of them twice if they are different.
LEMMA AtFacts ==
  ASSUME NEW S, NEW s \in Seq(S), NEW P \in SUBSET DOMAIN s
  PROVE  /\ At(s, P) \in Seq(S) /\ Len(At(s, P)) <= Len(s)
         /\ \A x : Has(At(s, P), x) <=> \E i \in P : s[i] = x
         /\ (\A i, j \in P : s[i] = s[j] => i = j) => Distinct(At(s, P))
<1> DEFINE Rank(i) == Cardinality({j \in P : j <= i})
           c == Cardinality(P)
           f == [i \in P |-> Rank(i)]
           q == At(s, P)
<1>1. DOMAIN s = 1..Len(s) /\ Len(s) \in Nat /\ \A i \in P : i \in Nat /\ s[i] \in S
  OBVIOUS
<1>2. IsFiniteSet(P) /\ c \in Nat /\ c <= Len(s)
  <2>1. IsFiniteSet(1..Len(s)) /\ Cardinality(1..Len(s)) = Len(s)
    BY <1>1, FS_Interval
  <2>2. IsFiniteSet(P) /\ c <= Len(s)
    BY <1>1, <2>1, FS_Subset
  <2> QED
    BY <2>2, FS_CardinalityType
<1>3. ASSUME NEW i \in P
      PROVE  IsFiniteSet({j \in P : j <= i}) /\ Rank(i) \in 1..c /\ Rank(i) \in Nat
  <2>1. i \in {j \in P : j <= i} /\ {j \in P : j <= i} \subseteq P
    BY <1>1
  <2>2. IsFiniteSet({j \in P : j <= i}) /\ Cardinality({j \in P : j <= i}) <= c
    BY <1>2, <2>1, FS_Subset
  <2>3. Cardinality({j \in P : j <= i}) \in Nat /\ Cardinality({j \in P : j <= i}) # 0
    BY <2>1, <2>2, FS_EmptySet, FS_CardinalityType
  <2> QED
    BY <1>2, <2>2, <2>3
<1>4. ASSUME NEW i \in P, NEW k \in P, i < k PROVE Rank(i) < Rank(k)
  <2>1. {j \in P : j <= i} \subseteq {j \in P : j <= k} \ {k}
    BY <1>1, <1>4
  <2>2. /\ IsFiniteSet({j \in P : j <= k} \ {k})
        /\ Cardinality({j \in P : j <= k} \ {k}) = Rank(k) - 1
    <3>1. k \in {j \in P : j <= k}
      BY <1>1
    <3> QED
      BY <1>3, <3>1, FS_RemoveElement
  <2>3. Cardinality({j \in P : j <= i}) <= Rank(k) - 1
    BY <2>1, <2>2, FS_Subset
  <2>4. Rank(i) = Cardinality({j \in P : j <= i}) /\ Rank(i) \in Nat /\ Rank(k) \in Nat
    BY <1>3
  <2> QED
    BY <2>3, <2>4
<1>5. ASSUME NEW i \in P, NEW k \in P, Rank(i) = Rank(k) PROVE i = k
  <2>1. i \in Nat /\ k \in Nat /\ Rank(i) \in Nat
    BY <1>1, <1>3
  <2> HIDE DEF Rank
  <2>2. ~(i < k) /\ ~(k < i)
    <3>1. CASE i < k
      <4>1. Rank(i) < Rank(k)
        BY <1>4, <3>1
      <4> QED
        BY <1>5, <2>1, <4>1
    <3>2. CASE k < i
      <4>1. Rank(k) < Rank(i)
        BY <1>4, <3>2
      <4> QED
        BY <1>5, <2>1, <4>1
    <3> QED
      BY <2>1, <3>1, <3>2
  <2> QED
    BY <2>1, <2>2
<1>6. \A n \in 1..c : \E i \in P : Rank(i) = n
  <2>1. f \in Injection(P, 1..c)
    BY <1>3, <1>5 DEF Injection, IsInjective
  <2>2. IsFiniteSet(1..c) /\ Cardinality(1..c) = c
    BY <1>2, FS_Interval
  <2>3. f \in Surjection(P, 1..c)
    BY <1>2, <2>1, <2>2, FS_Injection
  <2> QED
    BY <2>3 DEF Surjection
<1>7. q = [n \in 1..c |-> s[CHOOSE i \in P : Rank(i) = n]]
  BY DEF At
<1> DEFINE Pos(n) == CHOOSE i \in P : Rank(i) = n
<1>8. \A n \in 1..c : Pos(n) \in P /\ Rank(Pos(n)) = n /\ q[n] = s[Pos(n)]
  BY <1>6, <1>7
<1>9. \A i \in P : Rank(i) \in 1..c /\ Pos(Rank(i)) = i
  BY <1>3, <1>5
<1> HIDE DEF Pos, Rank, q, c
<1>10. q \in Seq(S) /\ Len(q) = c /\ DOMAIN q = 1..c
  <2>1. \A n \in 1..c : q[n] \in S
    BY <1>1, <1>8
  <2>2. DOMAIN q = 1..c /\ q = [n \in 1..c |-> q[n]]
    BY <1>7
  <2>3. q \in [1..c -> S]
    BY <2>1, <2>2
  <2> QED
    BY <1>2, <2>2, <2>3
<1>11. ASSUME NEW x PROVE Has(q, x) <=> \E i \in P : s[i] = x
  BY <1>8, <1>9, <1>10 DEF Has
<1>12. ASSUME \A i, j \in P : s[i] = s[j] => i = j PROVE Distinct(q)
  BY <1>8, <1>10, <1>12 DEF Distinct
<1> QED
  BY <1>2, <1>10, <1>1, <1>11, <1>12 DEF q

\* A set of natural numbers has a least one.
LEMMA LeastNumber ==
  ASSUME NEW S, S \subseteq Nat, S # {}
  PROVE  \E x \in S : \A y \in S : x <= y
<1> DEFINE R == OpToRel(<, Nat)
<1>1. IsWellFoundedOn(R, Nat)
  BY NatLessThanWellFounded
<1>2. \A m, n \in Nat : m < n => <<m, n>> \in R
  BY DEF OpToRel
<1> HIDE DEF R
<1>3. \E x \in S : \A y \in S : ~(<<y, x>> \in R)
  BY <1>1, WFMin, Zenon
<1>4. PICK x \in S : \A y \in S : ~(<<y, x>> \in R)
  BY <1>3
<1>5. ASSUME NEW y \in S PROVE x <= y
  <2>1. x \in Nat /\ y \in Nat
    OBVIOUS
  <2>2. ~(y < x)
    BY <1>2, <1>4, <2>1, Zenon
  <2> QED
    BY <2>1, <2>2
<1> QED
  BY <1>5

\* Two sequences, one after the other.
LEMMA ConcatFacts ==
  ASSUME NEW S, NEW s \in Seq(S), NEW t \in Seq(S)
  PROVE  /\ s \o t \in Seq(S) /\ Len(s \o t) = Len(s) + Len(t)
         /\ \A x : Has(s \o t, x) <=> Has(s, x) \/ Has(t, x)
         /\ Distinct(s) /\ Distinct(t) /\ (\A x \in S : ~(Has(s, x) /\ Has(t, x))) => Distinct(s \o t)
<1> DEFINE q == s \o t
<1>1. /\ q \in Seq(S) /\ Len(q) = Len(s) + Len(t) /\ DOMAIN q = 1..(Len(s) + Len(t))
      /\ DOMAIN s = 1..Len(s) /\ DOMAIN t = 1..Len(t) /\ Len(s) \in Nat /\ Len(t) \in Nat
      /\ \A i \in 1..(Len(s) + Len(t)) : q[i] = IF i <= Len(s) THEN s[i] ELSE t[i - Len(s)]
  OBVIOUS
<1> HIDE DEF q
<1>2. /\ \A i \in 1..Len(s) : i \in DOMAIN q /\ q[i] = s[i]
      /\ \A i \in 1..Len(t) : Len(s) + i \in DOMAIN q /\ q[Len(s) + i] = t[i]
  <2>1. ASSUME NEW i \in 1..Len(s) PROVE i \in DOMAIN q /\ q[i] = s[i]
    BY <1>1
  <2>2. ASSUME NEW i \in 1..Len(t) PROVE Len(s) + i \in DOMAIN q /\ q[Len(s) + i] = t[i]
    <3>1. Len(s) + i \in 1..(Len(s) + Len(t)) /\ ~(Len(s) + i <= Len(s)) /\ (Len(s) + i) - Len(s) = i
      BY <1>1
    <3>2. q[Len(s) + i] = IF Len(s) + i <= Len(s) THEN s[Len(s) + i] ELSE t[(Len(s) + i) - Len(s)]
      BY <1>1, <3>1
    <3> QED
      BY <1>1, <3>1, <3>2
  <2> QED
    BY <2>1, <2>2
<1>3. \A i \in DOMAIN q : (i \in 1..Len(s) /\ q[i] = s[i])
                       \/ (i - Len(s) \in 1..Len(t) /\ q[i] = t[i - Len(s)])
  BY <1>1
<1>4. ASSUME NEW x PROVE Has(q, x) <=> Has(s, x) \/ Has(t, x)
  <2>1. Has(q, x) => Has(s, x) \/ Has(t, x)
    BY <1>1, <1>3 DEF Has
  <2>2. Has(s, x) => Has(q, x)
    BY <1>1, <1>2 DEF Has
  <2>3. Has(t, x) => Has(q, x)
    BY <1>1, <1>2 DEF Has
  <2> QED
    BY <2>1, <2>2, <2>3
<1>5. ASSUME Distinct(s), Distinct(t), \A x \in S : ~(Has(s, x) /\ Has(t, x)) PROVE Distinct(q)
  <2> SUFFICES ASSUME NEW i \in DOMAIN q, NEW j \in DOMAIN q, q[i] = q[j] PROVE i = j
    BY DEF Distinct
  <2>1. ASSUME NEW k \in 1..Len(s), NEW l \in 1..Len(t), s[k] = t[l] PROVE FALSE
    <3>1. s[k] \in S
      BY <1>1
    <3>2. Has(s, s[k])
      BY <1>1 DEF Has
    <3>3. Has(t, s[k])
      BY <1>1, <2>1 DEF Has
    <3> QED
      BY <1>5, <3>1, <3>2, <3>3
  <2> QED
    BY <1>1, <1>3, <1>5, <2>1 DEF Distinct
<1> QED
  BY <1>1, <1>4, <1>5 DEF q

\* A sequence of one element.
LEMMA OneFacts ==
  ASSUME NEW S, NEW x \in S
  PROVE  /\ <<x>> \in Seq(S) /\ Len(<<x>>) = 1 /\ Distinct(<<x>>) /\ DOMAIN <<x>> = {1}
         /\ \A y : Has(<<x>>, y) <=> y = x
BY DEF Has, Distinct

\* A sequence without its first element.
LEMMA TailFacts ==
  ASSUME NEW S, NEW s \in Seq(S), s # <<>>
  PROVE  /\ Tail(s) \in Seq(S) /\ Len(Tail(s)) = Len(s) - 1 /\ Head(s) \in S /\ Has(s, Head(s))
         /\ \A x : Has(s, x) <=> x = Head(s) \/ Has(Tail(s), x)
         /\ Distinct(s) => Distinct(Tail(s)) /\ ~Has(Tail(s), Head(s))
<1> DEFINE q == Tail(s)
<1>1. /\ q \in Seq(S) /\ Len(q) = Len(s) - 1 /\ DOMAIN s = 1..Len(s) /\ DOMAIN q = 1..(Len(s) - 1)
      /\ Len(s) \in Nat \ {0} /\ Head(s) = s[1] /\ s[1] \in S
      /\ \A i \in 1..(Len(s) - 1) : q[i] = s[i + 1]
  OBVIOUS
<1> HIDE DEF q
<1>2. \A i \in DOMAIN s : i = 1 \/ (i - 1 \in DOMAIN q /\ q[i - 1] = s[i])
  BY <1>1
<1>3. \A i \in DOMAIN q : i + 1 \in DOMAIN s /\ q[i] = s[i + 1] /\ i + 1 # 1 /\ i \in Nat
  BY <1>1
<1>4. ASSUME NEW x PROVE Has(s, x) <=> x = Head(s) \/ Has(q, x)
  <2>1. 1 \in DOMAIN s
    BY <1>1
  <2> QED
    BY <1>1, <1>2, <1>3, <2>1 DEF Has
<1>5. ASSUME Distinct(s) PROVE Distinct(q) /\ ~Has(q, Head(s))
  <2>1. ASSUME NEW i \in DOMAIN q, NEW j \in DOMAIN q, q[i] = q[j] PROVE i = j
    <3>1. i + 1 = j + 1
      BY <1>3, <1>5, <2>1 DEF Distinct
    <3> QED
      BY <1>3, <3>1
  <2>2. ASSUME NEW i \in DOMAIN q PROVE q[i] # s[1]
    BY <1>1, <1>3, <1>5 DEF Distinct
  <2> QED
    BY <1>1, <2>1, <2>2 DEF Distinct, Has
<1>6. Has(s, Head(s))
  BY <1>4
<1> QED
  BY <1>1, <1>4, <1>5, <1>6 DEF q

\* A sequence with one more element.
LEMMA AppendFacts ==
  ASSUME NEW S, NEW s \in Seq(S), NEW x \in S
  PROVE  /\ Append(s, x) \in Seq(S)
         /\ \A y : Has(Append(s, x), y) <=> Has(s, y) \/ y = x
         /\ Distinct(s) /\ ~Has(s, x) => Distinct(Append(s, x))
<1> DEFINE q == Append(s, x)
<1>1. /\ q \in Seq(S) /\ DOMAIN s = 1..Len(s) /\ DOMAIN q = 1..(Len(s) + 1) /\ Len(s) \in Nat
      /\ q[Len(s) + 1] = x /\ \A i \in 1..Len(s) : q[i] = s[i]
  OBVIOUS
<1> HIDE DEF q
<1>2. \A i \in DOMAIN q : i = Len(s) + 1 \/ i \in DOMAIN s
  BY <1>1
<1>3. ASSUME NEW y PROVE Has(q, y) <=> Has(s, y) \/ y = x
  BY <1>1, <1>2 DEF Has
<1>4. ASSUME Distinct(s), ~Has(s, x) PROVE Distinct(q)
  BY <1>1, <1>2, <1>4 DEF Distinct, Has
<1> QED
  BY <1>1, <1>3, <1>4 DEF q

\* The empty sequence, and sequences that are not.
LEMMA EmptyFacts ==
  ASSUME NEW S, NEW s \in Seq(S)
  PROVE  /\ <<>> \in Seq(S) /\ Len(<<>>) = 0 /\ Distinct(<<>>) /\ (\A x : ~Has(<<>>, x))
         /\ s # <<>> => Len(s) > 0 /\ s[1] \in S /\ 1 \in DOMAIN s
BY DEF Has, Distinct

\* A frame is pushed.
LEMMA PushFacts ==
  ASSUME NEW s \in Seq(FrameSet), NEW e \in FrameSet, WellStacked(s),
         s # <<>> => s[1].k \notin Blocking,
         e.k \notin Blocking => e.f # NoFuture,
         e.k \in Busy => s # <<>> /\ s[1].k = "touch" /\ ~Body(s, e.f) /\ ~Call(s, e.f)
  PROVE  /\ <<e>> \o s \in Seq(FrameSet) /\ WellStacked(<<e>> \o s)
         /\ (<<e>> \o s)[1] = e /\ <<e>> \o s # <<>>
         /\ \A f : Body(<<e>> \o s, f) <=> Body(s, f) \/ (e.k = "body" /\ e.f = f)
         /\ \A f : Call(<<e>> \o s, f) <=> Call(s, f) \/ (e.k \in Calling /\ e.f = f)
         /\ \A i \in DOMAIN s : s[i].k \notin Blocking
<1> DEFINE q == <<e>> \o s
           n == Len(s)
<1>1. /\ q \in Seq(FrameSet) /\ n \in Nat /\ Len(q) = n + 1 /\ DOMAIN s = 1..n /\ DOMAIN q = 1..(n + 1)
      /\ q[1] = e /\ \A i \in 1..n : q[i + 1] = s[i]
      /\ s # <<>> <=> n > 0 
  OBVIOUS
<1>2. q # <<>>
  BY <1>1
<1> HIDE DEF q, n
<1>3. \A i \in DOMAIN q : i = 1 \/ (i - 1 \in DOMAIN s /\ q[i] = s[i - 1])
  BY <1>1
<1>4. \A i \in DOMAIN s : i + 1 \in DOMAIN q /\ q[i + 1] = s[i]
  BY <1>1
<1>5. 1 \in DOMAIN q
  BY <1>1
<1>6. ASSUME NEW f PROVE Body(q, f) <=> Body(s, f) \/ (e.k = "body" /\ e.f = f)
  <2>1. Body(q, f) => Body(s, f) \/ (e.k = "body" /\ e.f = f)
    BY <1>1, <1>3 DEF Body
  <2>2. Body(s, f) => Body(q, f)
    BY <1>4 DEF Body
  <2>3. e.k = "body" /\ e.f = f => Body(q, f)
    BY <1>1, <1>5 DEF Body
  <2> QED
    BY <2>1, <2>2, <2>3
<1>7. ASSUME NEW f PROVE Call(q, f) <=> Call(s, f) \/ (e.k \in Calling /\ e.f = f)
  <2>1. Call(q, f) => Call(s, f) \/ (e.k \in Calling /\ e.f = f)
    BY <1>1, <1>3 DEF Call
  <2>2. Call(s, f) => Call(q, f)
    BY <1>4 DEF Call
  <2>3. e.k \in Calling /\ e.f = f => Call(q, f)
    BY <1>1, <1>5 DEF Call
  <2> QED
    BY <2>1, <2>2, <2>3
<1>8. ASSUME NEW i \in DOMAIN s PROVE s[i].k \notin Blocking
  <2>1. CASE s[i].k \in Blocking
    <3>1. i = 1
      BY <2>1 DEF WellStacked
    <3> QED
      BY <1>1, <2>1, <3>1
  <2> QED
    BY <2>1
<1>9. ASSUME NEW i \in DOMAIN q PROVE IF q[i].k \in Blocking THEN i = 1 ELSE q[i].f # NoFuture
  BY <1>1, <1>3, <1>8 DEF WellStacked
<1>10. ASSUME NEW i \in DOMAIN q, q[i].k \in Busy PROVE i < Len(q) /\ q[i + 1].k = "touch"
  <2>1. CASE i = 1
    BY <1>1, <1>10, <2>1
  <2>2. CASE i # 1
    <3>1. i - 1 \in DOMAIN s /\ q[i] = s[i - 1]
      BY <1>3, <2>2
    <3>2. i - 1 < n /\ s[(i - 1) + 1].k = "touch"
      BY <1>10, <3>1 DEF WellStacked, n
    <3>3. i \in DOMAIN s /\ s[i].k = "touch"
      BY <1>1, <3>1, <3>2
    <3> QED
      BY <1>1, <1>4, <3>2, <3>3
  <2> QED
    BY <2>1, <2>2
<1>11. ASSUME NEW i \in DOMAIN s, s[i].k \in Busy, e.k \in Busy PROVE s[i].f # e.f
  BY <1>11 DEF Body, Call, Busy, Calling
<1>12. ASSUME NEW i \in DOMAIN q, NEW j \in DOMAIN q, q[i].k \in Busy, q[j].k \in Busy, q[i].f = q[j].f
       PROVE  i = j
  <2>1. CASE i = 1 \/ j = 1
    BY <1>1, <1>3, <1>11, <1>12, <2>1
  <2>2. CASE i # 1 /\ j # 1
    <3>1. i - 1 \in DOMAIN s /\ j - 1 \in DOMAIN s /\ q[i] = s[i - 1] /\ q[j] = s[j - 1]
      BY <1>3, <2>2
    <3>2. i - 1 = j - 1
      BY <1>12, <3>1 DEF WellStacked
    <3> QED
      BY <1>1, <3>2
  <2> QED
    BY <2>1, <2>2
<1>13. WellStacked(q)
  BY <1>9, <1>10, <1>12 DEF WellStacked
<1> QED
  BY <1>1, <1>2, <1>6, <1>7, <1>8, <1>13 DEF q

\* The innermost frame is popped.
LEMMA PopFacts ==
  ASSUME NEW s \in Seq(FrameSet), s # <<>>, WellStacked(s)
  PROVE  /\ Tail(s) \in Seq(FrameSet) /\ WellStacked(Tail(s)) /\ s[1] \in FrameSet
         /\ s[1].k \notin Blocking => s[1].f # NoFuture
         /\ \A i \in DOMAIN Tail(s) : Tail(s)[i].k \notin Blocking
         /\ s[1].k \in Busy => Tail(s) # <<>> /\ Tail(s)[1].k = "touch"
         /\ \A f : Body(Tail(s), f) <=> Body(s, f) /\ ~(s[1].k = "body" /\ s[1].f = f)
         /\ \A f : Call(Tail(s), f) <=> Call(s, f) /\ ~(s[1].k \in Calling /\ s[1].f = f)
         /\ s[1].k = "body" => Body(s, s[1].f)
         /\ s[1].k \in Calling => Call(s, s[1].f)
<1> DEFINE q == Tail(s)
           n == Len(s)
<1>1. /\ q \in Seq(FrameSet) /\ n \in Nat \ {0} /\ Len(q) = n - 1 /\ DOMAIN s = 1..n /\ DOMAIN q = 1..(n - 1)
      /\ \A i \in 1..(n - 1) : q[i] = s[i + 1]
      /\ s[1] \in FrameSet
  OBVIOUS
<1>2. q = <<>> <=> n = 1
  BY <1>1
<1> HIDE DEF q, n
<1>3. \A i \in DOMAIN s : i = 1 \/ (i - 1 \in DOMAIN q /\ q[i - 1] = s[i])
  BY <1>1
<1>4. \A i \in DOMAIN q : i + 1 \in DOMAIN s /\ q[i] = s[i + 1] /\ i + 1 # 1 /\ i \in Nat
  BY <1>1
<1>5. 1 \in DOMAIN s
  BY <1>1
<1>6. ASSUME NEW i \in DOMAIN q PROVE q[i].k \notin Blocking /\ q[i].f # NoFuture
  BY <1>4 DEF WellStacked
<1>7. ASSUME s[1].k \in Busy PROVE q # <<>> /\ q[1].k = "touch"
  <2>1. 1 < n /\ s[1 + 1].k = "touch"
    BY <1>5, <1>7 DEF WellStacked, n
  <2> QED
    BY <1>1, <1>2, <2>1
<1>8. \A i, j \in DOMAIN s : s[i].k \in Busy /\ s[j].k \in Busy /\ s[i].f = s[j].f => i = j
  BY DEF WellStacked
<1>9. \A i \in DOMAIN q : q[i].k \in Busy /\ s[1].k \in Busy => q[i].f # s[1].f
  BY <1>4, <1>5, <1>8
<1>10. ASSUME NEW f PROVE Body(q, f) <=> Body(s, f) /\ ~(s[1].k = "body" /\ s[1].f = f)
  BY <1>3, <1>4, <1>9 DEF Body, Busy
<1>11. ASSUME NEW f PROVE Call(q, f) <=> Call(s, f) /\ ~(s[1].k \in Calling /\ s[1].f = f)
  BY <1>3, <1>4, <1>9 DEF Call, Busy, Calling
<1>12. ASSUME NEW i \in DOMAIN q, q[i].k \in Busy PROVE i < Len(q) /\ q[i + 1].k = "touch"
  <2>1. i + 1 < n /\ s[(i + 1) + 1].k = "touch"
    BY <1>4, <1>12 DEF WellStacked, n
  <2> QED
    BY <1>1, <1>4, <2>1
<1>13. ASSUME NEW i \in DOMAIN q, NEW j \in DOMAIN q, q[i].k \in Busy, q[j].k \in Busy, q[i].f = q[j].f
       PROVE  i = j
  <2>1. i + 1 = j + 1
    BY <1>4, <1>8, <1>13
  <2> QED
    BY <1>4, <2>1
<1>14. WellStacked(q)
  BY <1>6, <1>12, <1>13 DEF WellStacked
<1>15. s[1].k \notin Blocking => s[1].f # NoFuture
  BY <1>5 DEF WellStacked
<1>16. (s[1].k = "body" => Body(s, s[1].f)) /\ (s[1].k \in Calling => Call(s, s[1].f))
  BY <1>5 DEF Body, Call
<1> QED
  BY <1>1, <1>6, <1>7, <1>10, <1>11, <1>14, <1>15, <1>16 DEF q

----------------------------------------------------------------------------
\* Futures are numbers, and 0 is none.
LEMMA Numbers == NoFuture \notin Future /\ NoFuture \in 0..N /\ 0..N = Future \cup {NoFuture}
BY FuturesAssumption DEF Future, NoFuture

\* The parts of the invariant.
LEMMA Parts ==
  ASSUME IInv
  PROVE  /\ TypeOK /\ Unique /\ Stacked /\ Runtime /\ PendingQueue /\ (ready > 0 => line = <<>>)
         /\ \A f \in Future : FutureOK(f)
         /\ \A w \in Worker : WorkerOK(w)
         /\ \A w \in Worker : cur[w] \in 0..N /\ fsemaFt[w] \in 0..N /\ sema[w] \in 0..1
         /\ job \in 0..N /\ withheld \in Worker \cup {NoWorker} /\ Distinct(line)
         /\ \A f \in Future : can_continue[f] \in Worker \cup {NoWorker}
<1>1. TypeOK /\ Unique
  BY DEF IInv
<1>2. /\ \A w \in Worker : cur[w] \in 0..N /\ fsemaFt[w] \in 0..N /\ sema[w] \in 0..1
      /\ job \in 0..N /\ withheld \in Worker \cup {NoWorker} /\ Distinct(line)
      /\ \A f \in Future : can_continue[f] \in Worker \cup {NoWorker}
  BY <1>1 DEF TypeOK, Unique
<1> QED
  BY <1>1, <1>2 DEF IInv

(* What the invariant says of a future and of a future thread.             *)

\* The future of a future thread has the status that its place tells.
LEMMA Holder ==
  ASSUME TypeOK, NEW w \in Worker, WorkerOK(w), NEW f \in Future
  PROVE  /\ cur[w] = f => /\ ~suspended_lw[f]
                          /\ \/ wpc[w] \in {"run", "touch"} /\ status[f] = "RUNNING" /\ fsemaFt[w] = NoFuture
                             \/ wpc[w] = "wait" /\ fsemaFt[w] = NoFuture
                                /\ status[f] \in {"WAITING_FOR_PRIM", "HANDLING_PRIM"}
                             \/ wpc[w] = "fwait" /\ fsemaFt[w] = f /\ status[f] = "WAITING_FOR_FSEMA"
         /\ fsemaFt[w] = f => /\ wpc[w] \in {"fwait", "fsema"} /\ status[f] = "WAITING_FOR_FSEMA"
                              /\ cur[w] \in {f, NoFuture}
<1>1. f # NoFuture
  BY FuturesAssumption DEF Future, NoFuture
<1>2. wpc[w] \in {"idle", "run", "touch", "wait", "fwait", "fsema"}
  BY DEF TypeOK
<1> QED
  BY <1>1, <1>2 DEF WorkerOK

\* Nobody holds a future that is made, in the queue, suspended or finished.
LEMMA Unheld ==
  ASSUME IInv, NEW f \in Future,
         status[f] \in {"none", "PENDING", "PENDING_OVERSIZE", "SUSPENDED", "FINISHED"}
  PROVE  /\ can_continue[f] = NoWorker /\ ~want_lw[f]
         /\ \A w \in Worker : cur[w] # f /\ fsemaFt[w] # f
         /\ ~Body(stack, f) /\ ~Handled(f) /\ ~Has(line, f) /\ ~(rpc = "capture" /\ job = f)
<1>1. TypeOK /\ FutureOK(f) /\ \A w \in Worker : WorkerOK(w)
  BY DEF IInv
<1>2. \A w \in Worker : cur[w] # f /\ fsemaFt[w] # f
  BY <1>1, Holder
<1>3. can_continue[f] = NoWorker
  BY <1>1, <1>2 DEF FutureOK, Waits, TypeOK
<1>4. ~want_lw[f] /\ ~Body(stack, f) /\ ~Handled(f) /\ ~Has(line, f)
  BY <1>1 DEF FutureOK
<1>5. ~(rpc = "capture" /\ job = f)
  BY <1>1, <1>2 DEF IInv, Runtime, Waits, TypeOK
<1> QED
  BY <1>2, <1>3, <1>4, <1>5

----------------------------------------------------------------------------
(* What a step does to the futures and the future threads that it is not   *)
(* about.                                                                  *)

SameHolders(f) ==
  /\ suspended_lw'[f] = suspended_lw[f] /\ want_lw'[f] = want_lw[f]
  /\ can_continue'[f] = can_continue[f] /\ prim'[f] = prim[f] /\ target'[f] = target[f]
  /\ Has(line', f) <=> Has(line, f)
  /\ Body(stack', f) <=> Body(stack, f)
  /\ Call(stack', f) <=> Call(stack, f)
  /\ (rpc' = "rtatomic" /\ job' = f) <=> (rpc = "rtatomic" /\ job = f)
  /\ (rpc' = "capture" /\ job' = f) <=> (rpc = "capture" /\ job = f)

SameFuture(f) == status'[f] = status[f] /\ SameHolders(f)

\* A future that nobody holds gets such a status again.
Rest == {"none", "PENDING", "PENDING_OVERSIZE", "SUSPENDED"}
Resting(f) == status[f] \in Rest /\ status'[f] \in Rest /\ SameHolders(f)

SamePlace(w) ==
  /\ wpc'[w] = wpc[w] /\ cur'[w] = cur[w] /\ fsemaFt'[w] = fsemaFt[w]
  /\ withheld' = w <=> withheld = w

SameWorker(w) == SamePlace(w) /\ sema'[w] = sema[w]

Apart(w, f) == cur[w] # f /\ cur'[w] # f /\ fsemaFt[w] # f /\ fsemaFt'[w] # f

\* The call of t is complete: its continuation is in the queue or suspended, or
\* its future thread is told.
Told(t) ==
  /\ status[t] = "WAITING_FOR_PRIM" \/ Handled(t)
  /\ ~Handled(t)'
  /\ suspended_lw'[t] = suspended_lw[t] /\ prim'[t] = prim[t] /\ target'[t] = target[t]
  /\ IF suspended_lw[t]
     THEN /\ status'[t] \in {"PENDING", "SUSPENDED"}
          /\ want_lw'[t] = want_lw[t] /\ can_continue'[t] = can_continue[t]
     ELSE status'[t] = "HANDLING_PRIM" /\ ~want_lw'[t] /\ can_continue'[t] = NoWorker
  /\ Has(line', t) <=> Has(line, t)
  /\ Body(stack', t) <=> Body(stack, t)
  /\ (rpc' = "capture" /\ job' = t) <=> (rpc = "capture" /\ job = t)

\* A future that nothing happens to.
LEMMA FutureKeeps ==
  ASSUME TypeOK, NEW f \in Future, FutureOK(f), SameFuture(f),
         \A w \in Worker : SameWorker(w) \/ Apart(w, f)
  PROVE  FutureOK(f)'
<1>1. can_continue[f] # NoWorker => can_continue[f] \in Worker
  BY DEF TypeOK
<1>2. /\ Handled(f)' <=> Handled(f)
      /\ Body(stack, f)' <=> Body(stack, f)
      /\ Has(line, f)' <=> Has(line, f)
  BY DEF SameFuture, SameHolders, Handled
<1>3. \A w \in Worker : /\ Works(w, f)' <=> Works(w, f)
                        /\ Waits(w, f)' <=> Waits(w, f)
                        /\ fsemaFt'[w] = f <=> fsemaFt[w] = f
                        /\ cur'[w] = f <=> cur[w] = f
                        /\ cur[w] = f => wpc'[w] = wpc[w] /\ sema'[w] = sema[w] /\ (Blocked(w, f)' <=> Blocked(w, f))
  BY DEF SameWorker, SamePlace, Apart, Works, Waits, Blocked, SameFuture, SameHolders
<1>4. prim'[f] = "touch" => target'[f] # NoFuture
  BY DEF SameFuture, SameHolders, FutureOK
<1>5. can_continue'[f] # NoWorker => Waits(can_continue[f], f)' /\ sema'[can_continue'[f]] = 0
  BY <1>1, <1>3 DEF SameFuture, SameHolders, FutureOK, Waits
<1>6. want_lw'[f] => /\ status'[f] \in {"WAITING_FOR_PRIM", "WAITING_FOR_FSEMA"}
                     /\ \E w \in Worker : Waits(w, f)' /\ Blocked(w, f)'
  <2>1. want_lw'[f] = want_lw[f] /\ status'[f] = status[f]
    BY DEF SameFuture, SameHolders
  <2> QED
    BY <1>3, <2>1, Zenon DEF FutureOK, Waits
<1>7. status'[f] = "RUNNING" => Body(stack, f)' \/ \E w \in Worker : Works(w, f)'
  BY <1>2, <1>3 DEF SameFuture, SameHolders, FutureOK
<1>8. status'[f] \in {"WAITING_FOR_PRIM", "HANDLING_PRIM"} =>
        suspended_lw'[f] \/ \E w \in Worker : cur'[w] = f /\ wpc'[w] = "wait"
  <2>1. suspended_lw'[f] = suspended_lw[f] /\ status'[f] = status[f]
    BY DEF SameFuture, SameHolders
  <2> QED
    BY <1>3, <2>1, Zenon DEF FutureOK
<1>9. status'[f] = "HANDLING_PRIM" =>
        \/ Handled(f)'
        \/ rpc' = "capture" /\ job' = f
        \/ \E w \in Worker : cur'[w] = f /\ wpc'[w] = "wait" /\ sema'[w] = 1
  BY <1>2, <1>3 DEF SameFuture, SameHolders, FutureOK
<1>10. status'[f] = "WAITING_FOR_FSEMA" => Has(line, f)' \/ \E w \in Worker : fsemaFt'[w] = f
  BY <1>2, <1>3 DEF SameFuture, SameHolders, FutureOK
<1>11. Has(line, f)' => /\ status'[f] = "WAITING_FOR_FSEMA" /\ suspended_lw'[f]
                        /\ \A w \in Worker : fsemaFt'[w] # f
  <2>1. suspended_lw'[f] = suspended_lw[f] /\ status'[f] = status[f]
    BY DEF SameFuture, SameHolders
  <2> QED
    BY <1>2, <1>3, <2>1, Zenon DEF FutureOK
<1>12. Handled(f)' => status'[f] = "HANDLING_PRIM" /\ (suspended_lw'[f] \/ can_continue'[f] # NoWorker)
  <2>1. suspended_lw'[f] = suspended_lw[f] /\ status'[f] = status[f] /\ can_continue'[f] = can_continue[f]
    BY DEF SameFuture, SameHolders
  <2> QED
    BY <1>2, <2>1, Zenon DEF FutureOK
<1>13. Body(stack, f)' => status'[f] = "RUNNING" /\ \A w \in Worker : cur'[w] # f
  BY <1>2, <1>3 DEF SameFuture, SameHolders, FutureOK
<1> QED
  BY <1>4, <1>5, <1>6, <1>7, <1>8, <1>9, <1>10, <1>11, <1>12, <1>13, Zenon DEF FutureOK

\* A future thread that nothing happens to.
LEMMA WorkerKeeps ==
  ASSUME NEW w \in Worker, WorkerOK(w), SameWorker(w),
         cur[w] # NoFuture => SameFuture(cur[w]),
         fsemaFt[w] # NoFuture => SameFuture(fsemaFt[w]),
         cur[w] # NoFuture /\ want_lw[cur[w]] /\ Has(waiting_lwc, cur[w]) => Has(waiting_lwc', cur[w])
  PROVE  WorkerOK(w)'
<1> DEFINE c == cur[w]
           d == fsemaFt[w]
<1>1. wpc'[w] = wpc[w] /\ cur'[w] = c /\ fsemaFt'[w] = d /\ sema'[w] = sema[w] /\ (withheld' = w <=> withheld = w)
  BY DEF SameWorker, SamePlace
<1>2. c # NoFuture => /\ status'[c] = status[c] /\ suspended_lw'[c] = suspended_lw[c]
                      /\ want_lw'[c] = want_lw[c] /\ can_continue'[c] = can_continue[c]
                      /\ target'[c] = target[c] /\ (Blocked(w, c)' <=> Blocked(w, c))
  BY <1>1 DEF SameFuture, SameHolders, Blocked
<1>3. d # NoFuture => status'[d] = status[d] /\ suspended_lw'[d] = suspended_lw[d]
  BY DEF SameFuture, SameHolders
<1>4. c # NoFuture /\ want_lw[c] /\ Has(waiting_lwc, c) => Has(waiting_lwc', c)
  OBVIOUS
<1>5. WorkerOK(w)
  OBVIOUS
<1> HIDE DEF c, d
<1>6. cur[w] = c /\ fsemaFt[w] = d
  BY DEF c, d
<1>7. cur'[w] # NoFuture => ~suspended_lw'[cur'[w]]
  BY <1>1, <1>2, <1>5, <1>6, Zenon DEF WorkerOK
<1>8. wpc'[w] = "idle" => cur'[w] = NoFuture /\ fsemaFt'[w] = NoFuture /\ sema'[w] = 0
  BY <1>1, <1>5, <1>6, Zenon DEF WorkerOK
<1>9. wpc'[w] \in {"run", "touch"} =>
        cur'[w] # NoFuture /\ status'[cur'[w]] = "RUNNING" /\ fsemaFt'[w] = NoFuture /\ sema'[w] = 0
  BY <1>1, <1>2, <1>5, <1>6, Zenon DEF WorkerOK
<1>10. wpc'[w] = "touch" => target'[cur'[w]] # NoFuture
  BY <1>1, <1>2, <1>5, <1>6, <1>9, Zenon DEF WorkerOK
<1>11. wpc'[w] = "wait" =>
        /\ fsemaFt'[w] = NoFuture
        /\ IF cur'[w] = NoFuture THEN sema'[w] = 1
           ELSE \/ status'[cur'[w]] \in {"WAITING_FOR_PRIM", "HANDLING_PRIM"} /\ Blocked(w, cur[w])'
                \/ status'[cur'[w]] = "HANDLING_PRIM" /\ sema'[w] = 1
  <2>1. cur'[w] # NoFuture => (Blocked(w, cur[w])' <=> Blocked(w, c))
    BY <1>1, <1>2 DEF Blocked
  <2> QED
    BY <1>1, <1>2, <1>5, <1>6, <2>1, Zenon DEF WorkerOK
<1>12. wpc'[w] = "fwait" =>
        /\ fsemaFt'[w] # NoFuture /\ status'[fsemaFt'[w]] = "WAITING_FOR_FSEMA"
        /\ IF cur'[w] = NoFuture THEN sema'[w] = 1 /\ suspended_lw'[fsemaFt'[w]]
           ELSE /\ cur'[w] = fsemaFt'[w] /\ want_lw'[cur'[w]] /\ Blocked(w, cur[w])'
                /\ can_continue'[cur'[w]] = w => Has(waiting_lwc, cur[w])'
  <2>1. cur'[w] # NoFuture => (Blocked(w, cur[w])' <=> Blocked(w, c))
    BY <1>1, <1>2 DEF Blocked
  <2>2. Has(waiting_lwc, cur[w])' <=> Has(waiting_lwc', c)
    BY <1>1 DEF Has
  <2> QED
    BY <1>1, <1>2, <1>3, <1>4, <1>5, <1>6, <2>1, <2>2, Zenon DEF WorkerOK
<1>13. wpc'[w] = "fsema" =>
        /\ fsemaFt'[w] # NoFuture /\ status'[fsemaFt'[w]] = "WAITING_FOR_FSEMA"
        /\ cur'[w] = NoFuture /\ sema'[w] = 0 /\ suspended_lw'[fsemaFt'[w]]
  BY <1>1, <1>3, <1>5, <1>6, Zenon DEF WorkerOK
<1> QED
  BY <1>7, <1>8, <1>9, <1>10, <1>11, <1>12, <1>13, Zenon DEF WorkerOK

\* A future whose call is complete, and its future thread.
LEMMA ToldKeeps ==
  ASSUME IInv, NEW t \in Future, Told(t),
         \A w \in Worker : cur[w] = t =>
           SamePlace(w) /\ sema'[w] = IF can_continue[t] = w THEN 1 ELSE sema[w],
         \A w \in Worker : cur'[w] = t => cur[w] = t,
         \A w \in Worker : fsemaFt'[w] = t => fsemaFt[w] = t
  PROVE  FutureOK(t)' /\ \A w \in Worker : cur[w] = t => WorkerOK(w)'
<1>1. /\ TypeOK /\ FutureOK(t) /\ Runtime /\ \A w \in Worker : WorkerOK(w)
      /\ \A w, x \in Worker : cur[w] = t /\ cur[x] = t => w = x
      /\ t # NoFuture
  BY FuturesAssumption DEF IInv, Unique, Future, NoFuture
<1>2. status[t] \in {"WAITING_FOR_PRIM", "HANDLING_PRIM"}
  BY <1>1 DEF Told, FutureOK
<1>3. \A w \in Worker : fsemaFt[w] # t /\ (cur[w] = t => wpc[w] = "wait" /\ fsemaFt[w] = NoFuture /\ ~suspended_lw[t])
  BY <1>1, <1>2, Holder
<1>4. ~Has(line, t) /\ ~Body(stack, t)
  BY <1>1, <1>2 DEF FutureOK
<1>5. can_continue[t] # NoWorker => can_continue[t] \in Worker /\ cur[can_continue[t]] = t /\ sema[can_continue[t]] = 0
  BY <1>1 DEF FutureOK, Waits, TypeOK
<1>6. ASSUME NEW w \in Worker, cur[w] = t
      PROVE  /\ wpc'[w] = "wait" /\ cur'[w] = t /\ fsemaFt'[w] = NoFuture
             /\ \/ sema'[w] = 1
                \/ sema'[w] = 0 /\ withheld' = w /\ rpc' = "capture" /\ job' = t
  <2>1. SamePlace(w) /\ wpc'[w] = "wait" /\ cur'[w] = t /\ fsemaFt'[w] = NoFuture
    BY <1>3, <1>6 DEF SamePlace
  <2>2. (status[t] \in {"WAITING_FOR_PRIM", "HANDLING_PRIM"} /\ Blocked(w, t)) \/ (status[t] = "HANDLING_PRIM" /\ sema[w] = 1)
    BY <1>1, <1>3, <1>6 DEF WorkerOK
  <2>3. CASE can_continue[t] = w
    BY <1>6, <2>1, <2>3
  <2>4. CASE can_continue[t] # w /\ Blocked(w, t)
    <3>1. withheld = w /\ sema[w] = 0
      BY <2>4 DEF Blocked
    <3>2. rpc = "capture" /\ cur[withheld] = job
      BY <1>1, <3>1, FuturesAssumption DEF Runtime, Waits
    <3>3. job = t
      BY <1>6, <3>1, <3>2
    <3> QED
      BY <1>6, <2>1, <2>4, <3>1, <3>2, <3>3 DEF Told, SamePlace
  <2>5. CASE can_continue[t] # w /\ sema[w] = 1
    BY <1>6, <2>1, <2>5
  <2> QED
    BY <2>2, <2>3, <2>4, <2>5
<1>7. CASE suspended_lw[t]
  <2>1. \A w \in Worker : cur[w] # t /\ cur'[w] # t /\ fsemaFt'[w] # t
    BY <1>3, <1>7
  <2>2. can_continue'[t] = NoWorker
    BY <1>5, <1>7, <2>1 DEF Told
  <2>3. ~want_lw[t]
    BY <1>1, <2>1 DEF FutureOK, Waits
  <2>4. want_lw'[t] = want_lw[t]
    BY <1>7 DEF Told
  <2>5. ~want_lw'[t]
    BY <2>3, <2>4
  <2>6. /\ prim'[t] = "touch" => target'[t] # NoFuture
        /\ status'[t] \in {"PENDING", "SUSPENDED"} /\ ~Handled(t)' /\ ~Has(line, t)' /\ ~Body(stack, t)'
    BY <1>1, <1>4, <1>7 DEF Told, FutureOK
  <2> QED
    BY <2>1, <2>2, <2>5, <2>6 DEF FutureOK
<1>8. CASE ~suspended_lw[t]
  <2>1. /\ prim'[t] = "touch" => target'[t] # NoFuture
        /\ status'[t] = "HANDLING_PRIM" /\ ~Handled(t)' /\ ~Has(line, t)' /\ ~Body(stack, t)'
        /\ ~want_lw'[t] /\ can_continue'[t] = NoWorker
    BY <1>1, <1>4, <1>8 DEF Told, FutureOK
  <2>2. suspended_lw'[t] = suspended_lw[t]
    BY DEF Told
  <2>3. ~suspended_lw'[t]
    BY <1>8, <2>2
  <2>4. PICK w \in Worker : cur[w] = t
    BY <1>1, <1>2, <1>8 DEF FutureOK
  <2>5. cur'[w] = t /\ wpc'[w] = "wait" /\ (sema'[w] = 1 \/ (rpc' = "capture" /\ job' = t))
    BY <1>6, <2>4
  <2>6. FutureOK(t)'
    BY <2>1, <2>5 DEF FutureOK
  <2>7. ASSUME NEW x \in Worker, cur[x] = t PROVE WorkerOK(x)'
    <3>1. /\ wpc'[x] = "wait" /\ cur'[x] = t /\ fsemaFt'[x] = NoFuture
          /\ sema'[x] = 1 \/ Blocked(x, cur[x])'
      BY <1>6, <2>7 DEF Blocked
    <3> QED
      BY <1>1, <2>1, <2>3, <3>1 DEF WorkerOK
  <2> QED
    BY <2>6, <2>7
<1> QED
  BY <1>7, <1>8

\* A step is about the future f0 and the future thread w0, and completes the
\* calls of the futures T.
Beside(f0, w0, T) ==
  /\ \A f \in Future \ {f0} : IF f \in T THEN Told(f) ELSE SameFuture(f) \/ Resting(f)
  /\ \A w \in Worker \ {w0} :
       /\ SamePlace(w)
       /\ sema'[w] = IF cur[w] \in T /\ can_continue[cur[w]] = w THEN 1 ELSE sema[w]
  /\ w0 \in Worker => /\ cur[w0] \in {f0, NoFuture} /\ cur'[w0] \in {f0, NoFuture}
                      /\ fsemaFt[w0] \in {f0, NoFuture} /\ fsemaFt'[w0] \in {f0, NoFuture}
  /\ \A f \in Future : Has(waiting_lwc, f) /\ want_lw[f] /\ f # f0 => Has(waiting_lwc', f)

\* Then the others keep what the invariant says of them.
LEMMA BesideKeeps ==
  ASSUME IInv, NEW f0 \in 0..N, NEW w0 \in Worker \cup {NoWorker}, NEW T \in SUBSET (Future \ {f0}),
         Beside(f0, w0, T)
  PROVE  /\ \A f \in Future \ {f0} : FutureOK(f)'
         /\ \A w \in Worker \ {w0} :
              (cur[w] = f0 /\ f0 # NoFuture) \/ (fsemaFt[w] = f0 /\ f0 # NoFuture) \/ WorkerOK(w)'
<1>1. /\ TypeOK /\ \A f \in Future : FutureOK(f) 
      /\ \A w \in Worker : WorkerOK(w)
      /\ NoFuture \notin Future
      /\ \A w \in Worker : cur[w] \in Future \cup {NoFuture} /\ fsemaFt[w] \in Future \cup {NoFuture}
  BY Parts, Numbers
<1>2. ASSUME NEW t \in T
      PROVE  FutureOK(t)' /\ \A w \in Worker : cur[w] = t => WorkerOK(w)'
  <2>1. t \in Future \ {f0} /\ t # NoFuture
    BY <1>1
  <2>2. Told(t)
    BY <2>1 DEF Beside
  <2>3. ASSUME NEW w \in Worker PROVE cur'[w] = t => cur[w] = t
    BY <2>1 DEF Beside, SamePlace
  <2>4. ASSUME NEW w \in Worker PROVE fsemaFt'[w] = t => fsemaFt[w] = t
    BY <2>1 DEF Beside, SamePlace
  <2>5. ASSUME NEW w \in Worker, cur[w] = t
        PROVE  SamePlace(w) /\ sema'[w] = IF can_continue[t] = w THEN 1 ELSE sema[w]
    <3>1. w # w0
      BY <2>1, <2>5 DEF Beside
    <3> QED
      BY <2>5, <3>1 DEF Beside
  <2> QED
    BY <2>1, <2>2, <2>3, <2>4, <2>5, ToldKeeps, Zenon
<1>3. ASSUME NEW w \in Worker \ {w0}, cur[w] \notin T PROVE SameWorker(w)
  BY <1>3 DEF Beside, SameWorker
<1>4. ASSUME NEW w \in Worker, cur[w] \in T PROVE fsemaFt[w] = NoFuture /\ w # w0
  <2>1. cur[w] \in Future \ {f0} /\ cur[w] # NoFuture
    BY <1>1, <1>4
  <2>2. Told(cur[w]) /\ w # w0
    BY <1>4, <2>1 DEF Beside
  <2>3. status[cur[w]] \in {"WAITING_FOR_PRIM", "HANDLING_PRIM"}
    BY <1>1, <2>1, <2>2 DEF Told, FutureOK
  <2> QED
    BY <1>1, <2>1, <2>2, <2>3, Holder
<1>5. ASSUME NEW f \in Future, Resting(f)
      PROVE  FutureOK(f)' /\ \A w \in Worker : cur[w] # f /\ fsemaFt[w] # f
  <2>1. /\ can_continue[f] = NoWorker /\ ~want_lw[f]
        /\ \A w \in Worker : cur[w] # f /\ fsemaFt[w] # f
        /\ ~Body(stack, f) /\ ~Handled(f) /\ ~Has(line, f)
    BY <1>5, Unheld DEF Resting, Rest
  <2>2. /\ can_continue'[f] = NoWorker /\ want_lw'[f] = want_lw[f] /\ status'[f] \in Rest
        /\ ~Body(stack, f)' /\ ~Handled(f)' /\ ~Has(line, f)'
        /\ (prim'[f] = "touch" => target'[f] # NoFuture)
    BY <1>5, <1>1, <2>1 DEF Resting, SameHolders, Handled, FutureOK
  <2>3. ~want_lw'[f]
    BY <2>1, <2>2
  <2> QED
    BY <2>1, <2>2, <2>3 DEF FutureOK, Rest
<1>6. ASSUME NEW f \in Future \ {f0}, f \notin T PROVE FutureOK(f)'
  <2> SUFFICES ASSUME SameFuture(f) PROVE FutureOK(f)'
    BY <1>5, <1>6 DEF Beside
  <2>1. SameFuture(f)
    OBVIOUS
  <2>2. ASSUME NEW w \in Worker PROVE SameWorker(w) \/ Apart(w, f)
    <3>1. CASE w = w0
      BY <1>1, <3>1 DEF Beside, Apart
    <3>2. CASE w # w0 /\ cur[w] \notin T
      BY <1>3, <3>2
    <3>3. CASE w # w0 /\ cur[w] \in T
      <4>1. fsemaFt[w] = NoFuture /\ SamePlace(w)
        BY <1>4, <3>3 DEF Beside
      <4> QED
        BY <1>1, <1>6, <3>3, <4>1 DEF Apart, SamePlace
    <3> QED
      BY <3>1, <3>2, <3>3
  <2> QED
    BY <1>1, <2>1, <2>2, FutureKeeps
<1>7. ASSUME NEW w \in Worker \ {w0}, ~(cur[w] = f0 /\ f0 # NoFuture), ~(fsemaFt[w] = f0 /\ f0 # NoFuture)
      PROVE  WorkerOK(w)'
  <2>1. CASE cur[w] \in T
    BY <1>2, <2>1
  <2>2. CASE cur[w] \notin T
    <3>1. SameWorker(w)
      BY <1>3, <2>2
    <3>2. ASSUME NEW f \in Future, f \notin T, f # f0, cur[w] = f \/ fsemaFt[w] = f PROVE SameFuture(f)
      BY <1>5, <3>2 DEF Beside
    <3>3. cur[w] # NoFuture => SameFuture(cur[w])
      BY <1>1, <1>7, <2>2, <3>2
    <3>4. fsemaFt[w] # NoFuture => SameFuture(fsemaFt[w])
      <4>1. ASSUME fsemaFt[w] \in T PROVE FALSE
        <5>1. fsemaFt[w] \in Future \ {f0} /\ status[fsemaFt[w]] = "WAITING_FOR_FSEMA"
          BY <1>1, <4>1, Holder
        <5>2. Told(fsemaFt[w])
          BY <4>1, <5>1 DEF Beside
        <5> QED
          BY <1>1, <5>1, <5>2 DEF Told, FutureOK
      <4> QED
        BY <1>1, <1>7, <3>2, <4>1
    <3>5. cur[w] # NoFuture /\ want_lw[cur[w]] /\ Has(waiting_lwc, cur[w]) => Has(waiting_lwc', cur[w])
      BY <1>1, <1>7 DEF Beside
    <3> QED
      BY <1>1, <3>1, <3>3, <3>4, <3>5, WorkerKeeps
  <2> QED
    BY <2>1, <2>2
<1> QED
  BY <1>2, <1>6, <1>7

\* What the runtime thread is doing does not change.
LEMMA RuntimeKeeps ==
  ASSUME IInv, NEW f0 \in 0..N, NEW w0 \in Worker \cup {NoWorker}, NEW T \in SUBSET (Future \ {f0}),
         Beside(f0, w0, T), rpc' = rpc, job' = job, other' = other, withheld' = withheld,
         rpc = "capture" => job # f0 /\ withheld # w0
  PROVE  Runtime'
<1>1. /\ TypeOK /\ Runtime /\ NoFuture \notin Future /\ job \in Future \cup {NoFuture}
      /\ \A w \in Worker : WorkerOK(w)
  BY Parts, Numbers
<1>2. rpc' \in {"rtatomic", "chain", "capture"} <=> job' # NoFuture
  BY <1>1 DEF Runtime
<1>3. rpc = "chain" => other' # NoFuture
  BY <1>1 DEF Runtime
<1>4. CASE rpc = "capture"
  <2>1. /\ withheld \in Worker \ {w0} /\ job \in Future \ {f0}
        /\ cur[withheld] = job /\ wpc[withheld] \in {"wait", "fwait"} /\ sema[withheld] = 0
        /\ can_continue[job] = NoWorker /\ (want_lw[job] \/ status[job] = "HANDLING_PRIM")
    BY <1>1, <1>4 DEF TypeOK, Runtime, Waits
  <2>2. SamePlace(withheld) /\ sema'[withheld] = 0
    BY <2>1, FuturesAssumption DEF Beside
  <2>3. ~suspended_lw[job]
    BY <1>1, <2>1, Holder
  <2>4. can_continue'[job] = NoWorker /\ (want_lw'[job] \/ status'[job] = "HANDLING_PRIM")
    <3>1. CASE job \in T
      BY <2>1, <2>3, <3>1 DEF Beside, Told
    <3>2. CASE job \notin T
      <4>1. SameFuture(job)
        <5>1. status[job] \notin Rest
          BY <1>1, <2>1, Holder DEF Rest
        <5> QED
          BY <2>1, <3>2, <5>1 DEF Beside, Resting
      <4>2. want_lw'[job] = want_lw[job] /\ status'[job] = status[job] /\ can_continue'[job] = can_continue[job]
        BY <4>1 DEF SameFuture, SameHolders
      <4> QED
        BY <2>1, <4>2, Zenon
    <3> QED
      BY <3>1, <3>2
  <2>5. Waits(withheld, job)'
    BY <2>1, <2>2 DEF Waits, SamePlace
  <2> QED
    BY <1>2, <1>4, <2>1, <2>2, <2>4, <2>5, FuturesAssumption DEF Runtime
<1>5. CASE rpc # "capture"
  BY <1>1, <1>2, <1>3, <1>5 DEF Runtime
<1> QED
  BY <1>4, <1>5

\* A step preserves the invariant if it does so for what it is about.
LEMMA StepKeeps ==
  ASSUME IInv, TypeOK', NEW f0 \in 0..N, NEW w0 \in Worker \cup {NoWorker},
         NEW T \in SUBSET (Future \ {f0}), Beside(f0, w0, T),
         f0 # NoFuture => FutureOK(f0)',
         \A w \in Worker : w = w0 \/ (f0 # NoFuture /\ (cur[w] = f0 \/ fsemaFt[w] = f0)) => WorkerOK(w)',
         w0 \in Worker /\ cur'[w0] # NoFuture => \A w \in Worker \ {w0} : cur[w] # f0,
         w0 \in Worker /\ fsemaFt'[w0] # NoFuture => \A w \in Worker \ {w0} : fsemaFt[w] # f0,
         Distinct(line'), Stacked', Runtime', PendingQueue', ready' > 0 => line' = <<>>
  PROVE  IInv'
<1>1. \A f \in Future : FutureOK(f)'
  <2>1. \A f \in Future \ {f0} : FutureOK(f)'
    BY BesideKeeps
  <2>2. NoFuture \notin Future
    BY FuturesAssumption DEF Future, NoFuture
  <2> QED
    BY <2>1, <2>2
<1>2. \A w \in Worker : WorkerOK(w)'
  <2>1. \A w \in Worker \ {w0} :
          (cur[w] = f0 /\ f0 # NoFuture) \/ (fsemaFt[w] = f0 /\ f0 # NoFuture) \/ WorkerOK(w)'
    BY BesideKeeps
  <2> QED
    BY <2>1
<1>3. \A w \in Worker \ {w0} : cur'[w] = cur[w] /\ fsemaFt'[w] = fsemaFt[w]
  BY DEF Beside, SamePlace
<1>4. ASSUME NEW w \in Worker, NEW x \in Worker, cur'[w] = cur'[x], cur'[w] # NoFuture PROVE w = x
  BY <1>3, <1>4 DEF IInv, Unique, Beside
<1>5. ASSUME NEW w \in Worker, NEW x \in Worker, fsemaFt'[w] = fsemaFt'[x], fsemaFt'[w] # NoFuture PROVE w = x
  BY <1>3, <1>5 DEF IInv, Unique, Beside
<1>6. Unique'
  BY <1>4, <1>5 DEF Unique, Distinct
<1> QED
  BY <1>1, <1>2, <1>6 DEF IInv

----------------------------------------------------------------------------
(* The queue, and the calls that are completed.                            *)

\* requeue_future_within_lock: the queue still has the futures that are pending.
LEMMA Requeues ==
  ASSUME TypeOK, PendingQueue, NEW fs \in Seq(Future), Distinct(fs),
         NEW st \in [Future -> Status], Requeue(fs, st),
         \A f \in Future : Has(fs, f) => status[f] # "PENDING",
         \A f \in Future : ~Has(fs, f) => (st[f] = "PENDING" <=> status[f] = "PENDING")
  PROVE  /\ status' \in [Future -> Status] /\ queue' \in Seq(Future) /\ pending' \in Nat
         /\ PendingQueue'
         /\ \A f \in Future : IF Has(fs, f) THEN status'[f] \in {"PENDING", "SUSPENDED"} ELSE status'[f] = st[f]
<1>1. /\ queue \in Seq(Future) /\ pending \in Nat /\ Len(queue) \in Nat /\ Len(fs) \in Nat
      /\ Distinct(queue) /\ pending >= Len(queue)
      /\ \A f \in Future : status[f] = "PENDING" <=> Has(queue, f)
  BY DEF TypeOK, PendingQueue, Distinct
<1>2. /\ status' = [f \in Future |-> IF ~Has(fs, f) THEN st[f]
                                     ELSE IF alive THEN "PENDING" ELSE "SUSPENDED"]
      /\ IF alive THEN queue' = queue \o fs /\ pending' = pending + Len(fs)
                  ELSE queue' = queue /\ pending' = pending
  BY DEF Requeue, Enqueue
<1>3. status' \in [Future -> Status]
  BY <1>2 DEF Status
<1>4. \A f \in Future : IF Has(fs, f) THEN status'[f] = (IF alive THEN "PENDING" ELSE "SUSPENDED")
                                      ELSE status'[f] = st[f]
  BY <1>2
<1>5. CASE alive
  <2>1. queue' = queue \o fs /\ pending' = pending + Len(fs)
    BY <1>2, <1>5
  <2>2. /\ queue' \in Seq(Future) /\ Len(queue') = Len(queue) + Len(fs)
        /\ \A x : Has(queue', x) <=> Has(queue, x) \/ Has(fs, x)
        /\ Distinct(queue')
    BY <1>1, <2>1, ConcatFacts
  <2>3. pending' \in Nat /\ pending' >= Len(queue')
    BY <1>1, <2>1, <2>2
  <2>4. \A f \in Future : status'[f] = "PENDING" <=> Has(queue', f)
    BY <1>1, <1>4, <1>5, <2>2
  <2> QED
    BY <1>3, <1>4, <2>2, <2>3, <2>4 DEF PendingQueue, Distinct
<1>6. CASE ~alive
  <2>1. queue' = queue /\ pending' = pending
    BY <1>2, <1>6
  <2>2. \A f \in Future : status'[f] = "PENDING" <=> Has(queue', f)
    BY <1>1, <1>4, <1>6, <2>1
  <2> QED
    BY <1>1, <1>3, <1>4, <2>1, <2>2 DEF PendingQueue, Distinct
<1> QED
  BY <1>5, <1>6

\* What the completion of the calls of T does to the fields of the futures, to
\* the queue and to the semaphores; st and sm are the status and the semaphores
\* otherwise.
Completed(T, st, sm) ==
  /\ status' \in [Future -> Status] /\ queue' \in Seq(Future) /\ pending' \in Nat
  /\ PendingQueue'
  /\ \A f \in Future : IF f \in T /\ suspended_lw[f] THEN status'[f] \in {"PENDING", "SUSPENDED"}
                                                     ELSE status'[f] = st[f]
  /\ want_lw' \in [Future -> BOOLEAN] /\ can_continue' \in [Future -> Worker \cup {NoWorker}]
  /\ \A f \in Future : IF f \in T /\ ~suspended_lw[f]
                       THEN ~want_lw'[f] /\ can_continue'[f] = NoWorker
                       ELSE want_lw'[f] = want_lw[f] /\ can_continue'[f] = can_continue[f]
  /\ sema' \in [Worker -> 0..1]
  /\ \A w \in Worker : sema'[w] = IF cur[w] \in T /\ can_continue[cur[w]] = w THEN 1 ELSE sm[w]

\* complete_rtcall.
LEMMA Completes ==
  ASSUME IInv, NEW fs \in Seq(Future), Distinct(fs),
         NEW st \in [Future -> Status], NEW sm \in [Worker -> 0..1], CompleteRtcall(fs, st, sm),
         \A f \in Future : Has(fs, f) => status[f] # "PENDING" /\ st[f] # "PENDING",
         \A f \in Future : ~Has(fs, f) => (st[f] = "PENDING" <=> status[f] = "PENDING"),
         \A w \in Worker : sm[w] = sema[w] \/ (sm[w] = 0 /\ ~Has(fs, cur[w]))
  PROVE  Completed({f \in Future : Has(fs, f)}, st, sm)
<1> DEFINE T == {f \in Future : Has(fs, f)}
           P == {i \in DOMAIN fs : suspended_lw[fs[i]]}
           rs == At(fs, P)
           blocked == {f \in Future : Has(fs, f) /\ ~suspended_lw[f]}
<1>1. /\ TypeOK /\ PendingQueue /\ NoFuture \notin Future
      /\ \A f \in Future : FutureOK(f)
      /\ \A w \in Worker : WorkerOK(w) /\ cur[w] \in Future \cup {NoFuture}
  BY Parts, Numbers
<1>2. /\ Requeue(rs, st)
      /\ want_lw' = [f \in Future |-> want_lw[f] /\ f \notin blocked]
      /\ can_continue' = [f \in Future |-> IF f \in blocked THEN NoWorker ELSE can_continue[f]]
      /\ sema' = [w \in Worker |-> sm[w] + Cardinality({f \in blocked : can_continue[f] = w})]
  BY DEF CompleteRtcall
<1>3. /\ rs \in Seq(Future) /\ Distinct(rs)
      /\ \A f \in Future : Has(rs, f) <=> f \in T /\ suspended_lw[f]
  <2>1. P \in SUBSET DOMAIN fs
    OBVIOUS
  <2>2. \A i, j \in P : fs[i] = fs[j] => i = j
    BY DEF Distinct
  <2>3. rs \in Seq(Future) /\ Distinct(rs) /\ \A x : Has(rs, x) <=> \E i \in P : fs[i] = x
    BY <2>1, <2>2, AtFacts
  <2>4. \A f \in Future : (\E i \in P : fs[i] = f) <=> f \in T /\ suspended_lw[f]
    BY DEF Has
  <2> QED
    BY <2>3, <2>4, Zenon
<1> HIDE DEF P, rs
<1>4. /\ \A f \in Future : Has(rs, f) => status[f] # "PENDING"
      /\ \A f \in Future : ~Has(rs, f) => (st[f] = "PENDING" <=> status[f] = "PENDING")
  BY <1>3
<1>5. /\ status' \in [Future -> Status] /\ queue' \in Seq(Future) /\ pending' \in Nat
      /\ PendingQueue'
      /\ \A f \in Future : IF Has(rs, f) THEN status'[f] \in {"PENDING", "SUSPENDED"} ELSE status'[f] = st[f]
  BY <1>1, <1>2, <1>3, <1>4, Requeues
<1>6. \A f \in Future : IF f \in T /\ suspended_lw[f] THEN status'[f] \in {"PENDING", "SUSPENDED"}
                                                      ELSE status'[f] = st[f]
  BY <1>3, <1>5
<1>7. want_lw' \in [Future -> BOOLEAN]
  BY <1>2
<1>8. can_continue' \in [Future -> Worker \cup {NoWorker}]
  BY <1>1, <1>2 DEF TypeOK
<1>9. \A f \in Future : want_lw[f] \in BOOLEAN
  BY <1>1 DEF TypeOK
<1>10. ASSUME NEW f \in Future
       PROVE  IF f \in T /\ ~suspended_lw[f]
              THEN ~want_lw'[f] /\ can_continue'[f] = NoWorker
              ELSE want_lw'[f] = want_lw[f] /\ can_continue'[f] = can_continue[f]
  <2>1. want_lw'[f] = (want_lw[f] /\ f \notin blocked)
    BY <1>2
  <2>2. can_continue'[f] = IF f \in blocked THEN NoWorker ELSE can_continue[f]
    BY <1>2
  <2>3. f \in blocked <=> f \in T /\ ~suspended_lw[f]
    OBVIOUS
  <2>4. want_lw[f] \in BOOLEAN
    BY <1>9
  <2> HIDE DEF blocked, T
  <2> QED
    BY <2>1, <2>2, <2>3, <2>4
<1>11. ASSUME NEW w \in Worker
       PROVE  sema'[w] \in 0..1 /\ sema'[w] = IF cur[w] \in T /\ can_continue[cur[w]] = w THEN 1 ELSE sm[w]
  <2> DEFINE B == {f \in blocked : can_continue[f] = w}
  <2>1. sema'[w] = sm[w] + Cardinality(B) /\ sm[w] \in 0..1
    BY <1>2
  <2>2. ASSUME NEW f \in Future, can_continue[f] = w
        PROVE  f = cur[w] /\ ~suspended_lw[f] /\ sema[w] = 0
    <3>1. cur[w] = f /\ sema[w] = 0
      BY <1>1, <2>2, FuturesAssumption DEF FutureOK, Waits
    <3> QED
      BY <1>1, <3>1, Holder
  <2>3. CASE cur[w] \in T /\ can_continue[cur[w]] = w
    <3>1. B = {cur[w]}
      BY <2>2, <2>3
    <3>2. Cardinality(B) = 1
      BY <3>1, FS_Singleton
    <3>3. sm[w] = 0
      <4>1. cur[w] \in Future /\ Has(fs, cur[w])
        BY <2>3
      <4>2. sema[w] = 0
        BY <2>2, <2>3, <4>1
      <4> QED
        BY <4>1, <4>2
    <3> QED
      BY <2>1, <2>3, <3>2, <3>3
  <2>4. CASE ~(cur[w] \in T /\ can_continue[cur[w]] = w)
    <3>1. B = {}
      BY <2>2, <2>4
    <3>2. Cardinality(B) = 0
      BY <3>1, FS_EmptySet
    <3> QED
      BY <2>1, <2>4, <3>2
  <2> QED
    BY <2>3, <2>4
<1>12. sema' \in [Worker -> 0..1]
  <2>1. DOMAIN sema' = Worker /\ sema' = [w \in Worker |-> sema'[w]]
    BY <1>2
  <2> QED
    BY <1>11, <2>1
<1> HIDE DEF T, blocked
<1>13. Completed(T, st, sm)
  BY <1>5, <1>6, <1>7, <1>8, <1>10, <1>11, <1>12 DEF Completed
<1> QED
  BY <1>13 DEF T

\* A future gets its result, and those that touch it get it too.
LEMMA Finishes ==
  ASSUME IInv, NEW f \in Future, NEW sm \in [Worker -> 0..1], Finish(f, sm),
         status[f] \in {"RUNNING", "HANDLING_PRIM"},
         \A w \in Worker : sm[w] = sema[w] \/ (sm[w] = 0 /\ cur[w] = f)
  PROVE  /\ touching' \in [Future -> Seq(Future)]
         /\ \E T \in SUBSET (Future \ {f}) :
              /\ \A t \in T : status[t] = "WAITING_FOR_PRIM"
              /\ Completed(T, [t \in Future |-> IF t = f THEN "FINISHED"
                                                ELSE IF t \in T THEN "HANDLING_PRIM" ELSE status[t]], sm)
<1> DEFINE P == {i \in DOMAIN touching[f] :
                   /\ WaitsForTouch(touching[f][i], f)
                   /\ \A j \in 1..(i - 1) : touching[f][j] # touching[f][i]}
           ts == At(touching[f], P)
           st == [t \in Future |-> IF t = f THEN "FINISHED"
                                   ELSE IF Has(ts, t) THEN "HANDLING_PRIM" ELSE status[t]]
           T == {t \in Future : Has(ts, t)}
<1>1. TypeOK /\ touching[f] \in Seq(Future)
  BY DEF IInv, TypeOK
<1>2. touching' = [touching EXCEPT ![f] = <<>>] /\ CompleteRtcall(ts, st, sm)
  BY DEF Finish
<1>3. touching' \in [Future -> Seq(Future)]
  BY <1>1, <1>2 DEF TypeOK
<1>4. /\ ts \in Seq(Future) /\ Distinct(ts)
      /\ \A t : Has(ts, t) <=> \E i \in P : touching[f][i] = t
  <2>1. P \in SUBSET DOMAIN touching[f]
    OBVIOUS
  <2>2. ASSUME NEW i \in P, NEW j \in P, touching[f][i] = touching[f][j] PROVE i = j
    <3>1. DOMAIN touching[f] = 1..Len(touching[f]) /\ Len(touching[f]) \in Nat
      BY <1>1
    <3>2. i \in Nat /\ j \in Nat /\ i >= 1 /\ j >= 1
      BY <3>1
    <3>3. ~(i < j)
      BY <2>2, <3>2
    <3>4. ~(j < i)
      BY <2>2, <3>2
    <3> QED
      BY <3>2, <3>3, <3>4
  <2> HIDE DEF P
  <2>3. \A i, j \in P : touching[f][i] = touching[f][j] => i = j
    BY <2>2
  <2> QED
    BY <1>1, <2>1, <2>3, AtFacts
<1>5. \A t \in Future : Has(ts, t) => status[t] = "WAITING_FOR_PRIM" /\ t # f
  BY <1>4 DEF WaitsForTouch
<1> HIDE DEF ts, P
<1>6. st \in [Future -> Status] /\ \A t \in Future : st[t] = IF t = f THEN "FINISHED"
                                   ELSE IF Has(ts, t) THEN "HANDLING_PRIM" ELSE status[t]
  BY <1>1 DEF TypeOK, Status
<1>7. st = [t \in Future |-> IF t = f THEN "FINISHED"
                             ELSE IF t \in T THEN "HANDLING_PRIM" ELSE status[t]]
  OBVIOUS
<1> HIDE DEF st
<1>8. \A w \in Worker : sm[w] = sema[w] \/ (sm[w] = 0 /\ ~Has(ts, cur[w]))
  BY <1>5
<1>9. Completed(T, st, sm)
  <2>1. \A t \in Future : Has(ts, t) => status[t] # "PENDING" /\ st[t] # "PENDING"
    BY <1>5, <1>6
  <2>2. \A t \in Future : ~Has(ts, t) => (st[t] = "PENDING" <=> status[t] = "PENDING")
    BY <1>6
  <2> QED
    BY <1>2, <1>4, <1>6, <1>8, <2>1, <2>2, Completes
<1>10. T \in SUBSET (Future \ {f}) /\ \A t \in T : status[t] = "WAITING_FOR_PRIM"
  BY <1>5
<1> HIDE DEF T
<1> QED
  BY <1>3, <1>7, <1>9, <1>10

\* A step in which the future f finishes, with the future thread w0 or in the
\* runtime thread.
LEMMA FinishKeeps ==
  ASSUME IInv, NEW f \in Future, NEW w0 \in Worker \cup {NoWorker}, NEW sm \in [Worker -> 0..1],
         Finish(f, sm), status[f] \in {"RUNNING", "HANDLING_PRIM"}, can_continue[f] = NoWorker,
         \A w \in Worker \ {w0} : cur[w] # f /\ SamePlace(w) /\ sm[w] = sema[w],
         w0 \in Worker => /\ cur[w0] = f /\ fsemaFt[w0] = NoFuture /\ sm[w0] = 0
                          /\ wpc'[w0] = "idle" /\ cur'[w0] = NoFuture /\ fsemaFt'[w0] = NoFuture,
         \A t \in Future \ {f} : /\ Body(stack', t) <=> Body(stack, t)
                                 /\ Call(stack', t) <=> Call(stack, t)
                                 /\ suspended_lw'[t] = suspended_lw[t],
         ~Body(stack', f), ~Call(stack', f),
         prim' = prim, target' = target, line' = line, ready' = ready, waiting_lwc' = waiting_lwc,
         job' = job, other' = other, withheld' = withheld, rpc \in {"rtatomic", "capture"} => job # f,
         rpc' = rpc \/ {rpc, rpc'} \subseteq {"run", "atomic", "raise"},
         rpc = "capture" => withheld # w0,
         Stacked',
         (status' \in [Future -> Status] /\ queue' \in Seq(Future) /\ pending' \in Nat
          /\ want_lw' \in [Future -> BOOLEAN] /\ can_continue' \in [Future -> Worker \cup {NoWorker}]
          /\ sema' \in [Worker -> 0..1] /\ touching' \in [Future -> Seq(Future)]) => TypeOK'
  PROVE  IInv'
<1> DEFINE st(T) == [t \in Future |-> IF t = f THEN "FINISHED"
                                      ELSE IF t \in T THEN "HANDLING_PRIM" ELSE status[t]]
<1>1. /\ TypeOK /\ Unique /\ Runtime /\ FutureOK(f) /\ NoFuture \notin Future /\ f \in 0..N
      /\ \A w \in Worker : WorkerOK(w)
      /\ \A w \in Worker : cur[w] \in Future \cup {NoFuture}
      /\ ready > 0 => line = <<>>
  BY Parts, Numbers
<1>2. \A w \in Worker : sm[w] = sema[w] \/ (sm[w] = 0 /\ cur[w] = f)
  OBVIOUS
<1>3. PICK T \in SUBSET (Future \ {f}) :
        /\ \A t \in T : status[t] = "WAITING_FOR_PRIM"
        /\ Completed(T, st(T), sm)
  BY <1>2, Finishes
<1>4. TypeOK'
  BY <1>2, <1>3, Finishes DEF Completed
<1>5. ASSUME NEW t \in Future, t # f
      PROVE  /\ IF t \in T /\ suspended_lw[t] THEN status'[t] \in {"PENDING", "SUSPENDED"}
                ELSE status'[t] = IF t \in T THEN "HANDLING_PRIM" ELSE status[t]
             /\ IF t \in T /\ ~suspended_lw[t]
                THEN ~want_lw'[t] /\ can_continue'[t] = NoWorker
                ELSE want_lw'[t] = want_lw[t] /\ can_continue'[t] = can_continue[t]
  BY <1>3, <1>5 DEF Completed
<1>6. /\ status'[f] = "FINISHED" /\ want_lw'[f] = want_lw[f] /\ can_continue'[f] = NoWorker
      /\ \A w \in Worker : sema'[w] = IF cur[w] \in T /\ can_continue[cur[w]] = w THEN 1 ELSE sm[w]
  BY <1>3 DEF Completed
<1>7. Beside(f, w0, T)
  <2>1. ASSUME NEW t \in Future \ {f} PROVE IF t \in T THEN Told(t) ELSE SameFuture(t)
    <3>1. CASE t \in T
      <4>1. status[t] = "WAITING_FOR_PRIM" /\ ~Handled(t)
        BY <1>3, <3>1 DEF IInv, FutureOK
      <4>2. ~Handled(t)'
        BY <2>1, <4>1 DEF Handled
      <4> QED
        BY <1>5, <2>1, <3>1, <4>1, <4>2 DEF Told
    <3>2. CASE t \notin T
      BY <1>5, <2>1, <3>2 DEF SameFuture, SameHolders
    <3> QED
      BY <3>1, <3>2
  <2>2. ASSUME NEW w \in Worker \ {w0}
        PROVE  SamePlace(w) /\ sema'[w] = IF cur[w] \in T /\ can_continue[cur[w]] = w THEN 1 ELSE sema[w]
    BY <1>6, <2>2
  <2> QED
    BY <2>1, <2>2 DEF Beside
<1>8. FutureOK(f)'
  <2>1. ~want_lw[f] /\ ~Has(line, f) /\ (prim[f] = "touch" => target[f] # NoFuture)
    BY <1>1 DEF FutureOK
  <2>2. ~want_lw'[f]
    BY <1>6, <2>1
  <2>3. ~Handled(f)' /\ ~Has(line, f)' /\ ~Body(stack, f)'
    BY <2>1 DEF Handled
  <2> QED
    BY <1>6, <2>1, <2>2, <2>3 DEF FutureOK
<1>9. ASSUME NEW w \in Worker, w = w0 \/ (f # NoFuture /\ (cur[w] = f \/ fsemaFt[w] = f)) PROVE WorkerOK(w)'
  <2>1. fsemaFt[w] # f
    BY <1>1, Holder
  <2>2. w = w0
    BY <1>9, <2>1
  <2>3. sema'[w] = 0
    BY <1>6, <2>2
  <2> QED
    BY <2>2, <2>3 DEF WorkerOK
<1>10. Distinct(line') /\ (ready' > 0 => line' = <<>>)
  BY <1>1 DEF Unique
<1>11. Runtime'
  <2>1. CASE rpc' = rpc
    BY <1>1, <1>7, <2>1, RuntimeKeeps
  <2>2. CASE {rpc, rpc'} \subseteq {"run", "atomic", "raise"}
    BY <1>1, <2>2 DEF Runtime
  <2> QED
    BY <2>1, <2>2
<1>12. PendingQueue'
  BY <1>3 DEF Completed
<1>13. /\ w0 \in Worker /\ cur'[w0] # NoFuture => \A w \in Worker \ {w0} : cur[w] # f
       /\ w0 \in Worker /\ fsemaFt'[w0] # NoFuture => \A w \in Worker \ {w0} : fsemaFt[w] # f
  OBVIOUS
<1> QED
  BY <1>1, <1>4, <1>7, <1>8, <1>9, <1>10, <1>11, <1>12, <1>13, StepKeeps

\* A step of the runtime thread that completes the call of t.
LEMMA CompleteKeeps ==
  ASSUME IInv, NEW t \in Future, NEW st \in [Future -> Status], CompleteRtcall(<<t>>, st, sema),
         status[t] = "WAITING_FOR_PRIM" \/ Handled(t),
         st[t] = "HANDLING_PRIM", \A f \in Future \ {t} : st[f] = status[f],
         rpc # "capture", rpc = "rtatomic" => job = t,
         rpc' \in {"run", "atomic", "touch"}, job' = NoFuture, withheld' = withheld,
         ~Call(stack', t),
         \A f \in Future : Body(stack', f) <=> Body(stack, f),
         \A f \in Future \ {t} : Call(stack', f) <=> Call(stack, f),
         suspended_lw' = suspended_lw, prim' = prim, target' = target, line' = line, ready' = ready,
         waiting_lwc' = waiting_lwc, wpc' = wpc, cur' = cur, fsemaFt' = fsemaFt,
         Stacked',
         (status' \in [Future -> Status] /\ queue' \in Seq(Future) /\ pending' \in Nat
          /\ want_lw' \in [Future -> BOOLEAN] /\ can_continue' \in [Future -> Worker \cup {NoWorker}]
          /\ sema' \in [Worker -> 0..1]) => TypeOK'
  PROVE  IInv'
<1>1. /\ TypeOK /\ Unique /\ Runtime /\ FutureOK(t) /\ NoFuture \notin Future /\ NoFuture \in 0..N
      /\ sema \in [Worker -> 0..1] /\ status \in [Future -> Status]
      /\ \A w \in Worker : cur[w] \in Future \cup {NoFuture} /\ fsemaFt[w] \in Future \cup {NoFuture}
      /\ ready > 0 => line = <<>>
  <2>1. sema \in [Worker -> 0..1] /\ status \in [Future -> Status]
    BY DEF IInv, TypeOK
  <2> QED
    BY <2>1, Parts, Numbers
<1>2. status[t] \in {"WAITING_FOR_PRIM", "HANDLING_PRIM"}
  BY <1>1 DEF FutureOK
<1>3. <<t>> \in Seq(Future) /\ Distinct(<<t>>) /\ \A f : Has(<<t>>, f) <=> f = t
  BY OneFacts
<1>4. {f \in Future : Has(<<t>>, f)} = {t}
  BY <1>3
<1>5. Completed({t}, st, sema)
  <2>1. Completed({f \in Future : Has(<<t>>, f)}, st, sema)
    <3>1. \A f \in Future : Has(<<t>>, f) => status[f] # "PENDING" /\ st[f] # "PENDING"
      BY <1>2, <1>3
    <3>2. \A f \in Future : ~Has(<<t>>, f) => (st[f] = "PENDING" <=> status[f] = "PENDING")
      BY <1>3
    <3> QED
      BY <1>1, <1>3, <3>1, <3>2, Completes
  <2> QED
    BY <1>4, <2>1
<1>6. TypeOK' /\ PendingQueue'
  BY <1>5 DEF Completed
<1>7. Beside(NoFuture, NoWorker, {t})
  <2>1. Told(t)
    <3>1. IF suspended_lw[t]
          THEN /\ status'[t] \in {"PENDING", "SUSPENDED"}
               /\ want_lw'[t] = want_lw[t] /\ can_continue'[t] = can_continue[t]
          ELSE status'[t] = "HANDLING_PRIM" /\ ~want_lw'[t] /\ can_continue'[t] = NoWorker
      BY <1>5 DEF Completed
    <3>2. ~Handled(t)'
      BY DEF Handled
    <3> QED
      BY <3>1, <3>2 DEF Told
  <2>2. ASSUME NEW f \in Future \ {t} PROVE SameFuture(f)
    <3>1. status'[f] = status[f] /\ want_lw'[f] = want_lw[f] /\ can_continue'[f] = can_continue[f]
      BY <1>5 DEF Completed
    <3> QED
      BY <3>1 DEF SameFuture, SameHolders
  <2>3. ASSUME NEW w \in Worker
        PROVE  SamePlace(w) /\ sema'[w] = IF cur[w] \in {t} /\ can_continue[cur[w]] = w THEN 1 ELSE sema[w]
    BY <1>5 DEF Completed, SamePlace
  <2> QED
    BY <2>1, <2>2, <2>3, FuturesAssumption DEF Beside
<1>8. Runtime'
  BY <1>1 DEF Runtime
<1>9. Distinct(line') /\ (ready' > 0 => line' = <<>>)
  BY <1>1 DEF Unique
<1>10. {t} \in SUBSET (Future \ {NoFuture})
  BY <1>1
<1> QED
  BY <1>1, <1>6, <1>7, <1>8, <1>9, <1>10, StepKeeps, FuturesAssumption

----------------------------------------------------------------------------
(* The steps of a future thread.                                           *)

\* A future thread at work has its future for itself.
LEMMA Worker1 ==
  ASSUME IInv, NEW w \in Worker, wpc[w] \in {"run", "touch"}, NEW f, cur[w] = f
  PROVE  /\ f \in Future /\ f \in 0..N /\ f # NoFuture /\ status[f] = "RUNNING" /\ sema[w] = 0
         /\ fsemaFt[w] = NoFuture /\ ~suspended_lw[f] /\ can_continue[f] = NoWorker /\ ~want_lw[f]
         /\ ~Body(stack, f) /\ ~Handled(f) /\ ~Has(line, f)
         /\ \A x \in Worker \ {w} : cur[x] # f
         /\ \A x \in Worker : fsemaFt[x] # f
         /\ withheld # w /\ (rpc = "capture" => job # f) /\ (prim[f] = "touch" => target[f] # NoFuture)
<1>1. TypeOK /\ WorkerOK(w) /\ Unique /\ Runtime /\ cur[w] \in 0..N
  BY DEF IInv, TypeOK
<1>2. /\ f \in Future /\ f \in 0..N /\ f # NoFuture /\ status[f] = "RUNNING" /\ sema[w] = 0
      /\ fsemaFt[w] = NoFuture /\ ~suspended_lw[f]
  BY <1>1, FuturesAssumption DEF WorkerOK, Future, NoFuture
<1>3. FutureOK(f) /\ \A x \in Worker : WorkerOK(x)
  BY <1>2 DEF IInv
<1>4. \A x \in Worker \ {w} : cur[x] # f
  BY <1>1, <1>2 DEF Unique
<1>5. \A x \in Worker : fsemaFt[x] # f
  BY <1>1, <1>2, <1>3, Holder
<1>6. ~want_lw[f] /\ ~Body(stack, f) /\ ~Handled(f) /\ ~Has(line, f) /\ (prim[f] = "touch" => target[f] # NoFuture)
  BY <1>2, <1>3 DEF FutureOK
<1>7. can_continue[f] = NoWorker
  BY <1>1, <1>2, <1>3, <1>4 DEF FutureOK, Waits, TypeOK
<1>8. withheld # w /\ (rpc = "capture" => job # f)
  BY <1>1, <1>4, FuturesAssumption DEF Runtime, Waits, TypeOK
<1> QED
  BY <1>2, <1>4, <1>5, <1>6, <1>7, <1>8

\* The types of what a suspended future changes, and the list of those whose
\* continuation is to be captured.
LEMMA SuspendTypes ==
  ASSUME TypeOK, NEW w \in Worker, NEW f \in Future, NEW st \in Status,
         NEW captured \in BOOLEAN, NEW insist \in BOOLEAN,
         NEW free \in {"idle", "fsema"}, NEW blocked \in {"wait", "fwait"},
         Suspend(w, f, st, captured, insist, free, blocked)
  PROVE  /\ status' \in [Future -> Status] /\ suspended_lw' \in [Future -> BOOLEAN]
         /\ cur' \in [Worker -> 0..N] /\ wpc' \in [Worker -> {"idle", "run", "touch", "wait", "fwait", "fsema"}]
         /\ can_continue' \in [Future -> Worker \cup {NoWorker}]
         /\ waiting_lwc' \in Seq(Future) /\ want_lw' \in [Future -> BOOLEAN]
         /\ \A g : Has(waiting_lwc, g) => Has(waiting_lwc', g)
         /\ ~captured /\ insist => Has(waiting_lwc', f) /\ want_lw'[f]
         /\ \A g \in Future \ {f} : want_lw'[g] = want_lw[g]
         /\ captured \/ ~insist => want_lw'[f] = want_lw[f]
<1>1. /\ f \in 0..N /\ 0 \in 0..N
  BY FuturesAssumption DEF Future
<1>2. status' \in [Future -> Status] /\ suspended_lw' \in [Future -> BOOLEAN]
  BY DEF Suspend, TypeOK
<1>3. cur' \in [Worker -> 0..N]
  BY <1>1 DEF Suspend, TypeOK, NoFuture
<1>4. wpc' \in [Worker -> {"idle", "run", "touch", "wait", "fwait", "fsema"}]
  BY DEF Suspend, TypeOK
<1>5. can_continue' \in [Future -> Worker \cup {NoWorker}]
  BY DEF Suspend, TypeOK
<1>6. CASE ~captured /\ insist
  <2>1. /\ waiting_lwc' = IF Has(waiting_lwc, f) THEN waiting_lwc ELSE <<f>> \o waiting_lwc
        /\ want_lw' = [want_lw EXCEPT ![f] = TRUE]
    BY <1>6 DEF Suspend, PushLwc
  <2>2. waiting_lwc' \in Seq(Future) /\ \A g : Has(waiting_lwc, g) \/ g = f => Has(waiting_lwc', g)
    <3>1. waiting_lwc \in Seq(Future) /\ <<f>> \in Seq(Future) /\ \A g : Has(<<f>>, g) <=> g = f
      BY OneFacts DEF TypeOK
    <3>2. <<f>> \o waiting_lwc \in Seq(Future) /\ \A g : Has(<<f>> \o waiting_lwc, g) <=> Has(<<f>>, g) \/ Has(waiting_lwc, g)
      BY <3>1, ConcatFacts
    <3> QED
      BY <2>1, <3>1, <3>2
  <2>3. want_lw' \in [Future -> BOOLEAN] /\ want_lw'[f] /\ \A g \in Future \ {f} : want_lw'[g] = want_lw[g]
    BY <2>1 DEF TypeOK
  <2> QED
    BY <1>2, <1>3, <1>4, <1>5, <1>6, <2>2, <2>3
<1>7. CASE ~(~captured /\ insist)
  <2>1. waiting_lwc' = waiting_lwc /\ want_lw' = want_lw
    BY <1>7 DEF Suspend
  <2> QED
    BY <1>2, <1>3, <1>4, <1>5, <1>7, <2>1 DEF TypeOK
<1> QED
  BY <1>6, <1>7

\* A future thread's runtime call.
LEMMA SuspendKeeps ==
  ASSUME IInv, NEW w \in Worker, wpc[w] \in {"run", "touch"}, NEW f, cur[w] = f,
         NEW captured \in BOOLEAN, NEW insist \in BOOLEAN,
         Suspend(w, f, "WAITING_FOR_PRIM", captured, insist, "idle", "wait"),
         NEW p \in {"atomic", "blocking", "touch"}, prim' = [prim EXCEPT ![f] = p],
         p = "touch" => target[f] # NoFuture,
         in_specific' \in [Future -> BOOLEAN], waiting_touch' \in Seq(Future), waiting_atomic' \in Seq(Future),
         UNCHANGED <<queue, pending, target, no_retval, touching, alive, fsemaVars, fsemaFt, sema,
                     rpc, checkVars, stack>>
  PROVE  IInv'
<1>1. /\ f \in Future /\ f \in 0..N /\ f # NoFuture /\ status[f] = "RUNNING" /\ sema[w] = 0
      /\ fsemaFt[w] = NoFuture /\ ~suspended_lw[f] /\ can_continue[f] = NoWorker /\ ~want_lw[f]
      /\ ~Body(stack, f) /\ ~Handled(f) /\ ~Has(line, f)
      /\ \A x \in Worker \ {w} : cur[x] # f
      /\ \A x \in Worker : fsemaFt[x] # f
      /\ withheld # w /\ (rpc = "capture" => job # f)
  BY Worker1
<1>2. TypeOK /\ Unique /\ Runtime /\ Stacked /\ PendingQueue /\ (ready > 0 => line = <<>>)
  BY DEF IInv
<1>3. /\ queue' = queue /\ pending' = pending /\ target' = target /\ no_retval' = no_retval
      /\ touching' = touching /\ alive' = alive /\ ready' = ready /\ line' = line /\ fsemaFt' = fsemaFt
      /\ sema' = sema /\ rpc' = rpc /\ job' = job /\ other' = other /\ withheld' = withheld /\ stack' = stack
  BY DEF fsemaVars, checkVars
<1>4. /\ status' \in [Future -> Status] /\ suspended_lw' \in [Future -> BOOLEAN]
      /\ cur' \in [Worker -> 0..N] /\ wpc' \in [Worker -> {"idle", "run", "touch", "wait", "fwait", "fsema"}]
      /\ can_continue' \in [Future -> Worker \cup {NoWorker}]
      /\ waiting_lwc' \in Seq(Future) /\ want_lw' \in [Future -> BOOLEAN]
      /\ \A g : Has(waiting_lwc, g) => Has(waiting_lwc', g)
      /\ ~captured /\ insist => Has(waiting_lwc', f) /\ want_lw'[f]
      /\ \A g \in Future \ {f} : want_lw'[g] = want_lw[g]
      /\ captured \/ ~insist => want_lw'[f] = want_lw[f]
  BY <1>1, <1>2, SuspendTypes DEF Status
<1>5. prim' \in [Future -> {"none", "atomic", "blocking", "touch"}] /\ prim'[f] = p
      /\ \A g \in Future \ {f} : prim'[g] = prim[g]
  BY <1>1, <1>2 DEF TypeOK
<1>6. TypeOK'
  <2>1. /\ status' \in [Future -> Status] /\ suspended_lw' \in [Future -> BOOLEAN]
        /\ cur' \in [Worker -> 0..N] /\ wpc' \in [Worker -> {"idle", "run", "touch", "wait", "fwait", "fsema"}]
        /\ can_continue' \in [Future -> Worker \cup {NoWorker}]
        /\ waiting_lwc' \in Seq(Future) /\ want_lw' \in [Future -> BOOLEAN]
        /\ prim' \in [Future -> {"none", "atomic", "blocking", "touch"}]
    BY <1>4, <1>5
  <2> QED
    BY <1>2, <1>3, <2>1 DEF TypeOK
<1>7. /\ status'[f] = "WAITING_FOR_PRIM" /\ suspended_lw'[f] = captured
      /\ can_continue'[f] = IF captured THEN NoWorker ELSE w
      /\ cur'[w] = IF captured THEN NoFuture ELSE f
      /\ wpc'[w] = IF captured THEN "idle" ELSE "wait"
  BY <1>1, <1>2 DEF Suspend, TypeOK
<1>8. ASSUME NEW g \in Future \ {f}
      PROVE  SameFuture(g) /\ status'[g] = status[g]
  <2>1. status'[g] = status[g] /\ suspended_lw'[g] = suspended_lw[g] /\ can_continue'[g] = can_continue[g]
    BY <1>2 DEF Suspend, TypeOK
  <2> QED
    BY <1>3, <1>4, <1>5, <2>1 DEF SameFuture, SameHolders
<1>9. ASSUME NEW x \in Worker \ {w} PROVE SamePlace(x)
  BY <1>2, <1>3 DEF Suspend, TypeOK, SamePlace
<1>10. Beside(f, w, {})
  BY <1>1, <1>3, <1>4, <1>7, <1>8, <1>9 DEF Beside
<1>11. FutureOK(f)' /\ WorkerOK(w)'
  <2>1. ~Body(stack, f)' /\ ~Handled(f)' /\ ~Has(line, f)' /\ (prim'[f] = "touch" => target'[f] # NoFuture)
    BY <1>1, <1>3, <1>5 DEF Handled
  <2>2. CASE captured
    <3>1. /\ suspended_lw'[f] /\ can_continue'[f] = NoWorker /\ cur'[w] = NoFuture /\ wpc'[w] = "idle"
      BY <1>7, <2>2
    <3>2. ~want_lw'[f]
      BY <1>1, <1>4, <2>2
    <3> QED
      BY <1>1, <1>3, <1>7, <2>1, <3>1, <3>2 DEF FutureOK, WorkerOK
  <2>3. CASE ~captured
    <3>1. /\ ~suspended_lw'[f] /\ can_continue'[f] = w /\ cur'[w] = f /\ wpc'[w] = "wait"
      BY <1>7, <2>3
    <3>2. Waits(w, f)' /\ Blocked(w, f)' /\ Blocked(w, cur[w])'
      BY <1>1, <1>3, <3>1 DEF Waits, Blocked
    <3>3. Waits(can_continue[f], f)' /\ sema'[can_continue'[f]] = 0
      BY <1>1, <1>3, <3>1 DEF Waits
    <3>4. FutureOK(f)'
      BY <1>7, <2>1, <3>1, <3>2, <3>3 DEF FutureOK
    <3>5. WorkerOK(w)'
      BY <1>1, <1>3, <1>7, <3>1, <3>2 DEF WorkerOK
    <3> QED
      BY <3>4, <3>5
  <2> QED
    BY <2>2, <2>3
<1>12. PendingQueue'
  <2>1. \A g \in Future : status'[g] = "PENDING" <=> status[g] = "PENDING"
    BY <1>1, <1>7, <1>8
  <2> QED
    BY <1>2, <1>3, <2>1 DEF PendingQueue
<1>13. Runtime'
  BY <1>1, <1>2, <1>3, <1>10, RuntimeKeeps DEF Runtime
<1>14. Stacked' /\ Distinct(line')
  BY <1>2, <1>3 DEF Stacked, Unique
<1> QED
  BY <1>1, <1>2, <1>3, <1>6, <1>10, <1>11, <1>12, <1>13, <1>14, StepKeeps

\* The list of atomic operations, with a future pushed.
LEMMA PushAtomicType ==
  ASSUME TypeOK, NEW f \in Future, PushAtomic(f)
  PROVE  waiting_atomic' \in Seq(Future)
<1>1. waiting_atomic \in Seq(Future) /\ <<f>> \in Seq(Future)
  BY DEF TypeOK
<1>2. ASSUME NEW n PROVE n \in DOMAIN waiting_atomic => SubSeq(waiting_atomic, 1, n) \in Seq(Future)
  BY <1>1
<1>3. CASE Has(waiting_atomic, f)
  <2> DEFINE First(i) == waiting_atomic[i] = f /\ \A j \in 1..(i - 1) : waiting_atomic[j] # f
  <2>1. \E i \in DOMAIN waiting_atomic : First(i)
    <3> DEFINE S == {i \in DOMAIN waiting_atomic : waiting_atomic[i] = f}
    <3>1. S # {} /\ S \subseteq Nat
      BY <1>1, <1>3 DEF Has
    <3>2. PICK i \in S : \A j \in S : i <= j
      BY <3>1, LeastNumber
    <3> QED
      BY <1>1, <3>2
  <2>2. (CHOOSE i \in DOMAIN waiting_atomic : First(i)) \in DOMAIN waiting_atomic
    BY <2>1
  <2>3. waiting_atomic' = <<f>> \o SubSeq(waiting_atomic, 1, CHOOSE i \in DOMAIN waiting_atomic : First(i))
    BY <1>3 DEF PushAtomic
  <2>4. SubSeq(waiting_atomic, 1, CHOOSE i \in DOMAIN waiting_atomic : First(i)) \in Seq(Future)
    BY <1>2, <2>2
  <2> QED
    BY <1>1, <2>3, <2>4, ConcatFacts
<1>4. CASE ~Has(waiting_atomic, f)
  BY <1>1, <1>4 DEF PushAtomic
<1> QED
  BY <1>3, <1>4

\* A step that leaves the futures and the future threads alone.
LEMMA QuietKeeps ==
  ASSUME IInv, TypeOK',
         UNCHANGED <<status, queue, pending, suspended_lw, want_lw, can_continue, prim, target, line,
                     wpc, cur, fsemaFt, sema, withheld>>,
         \A f \in Future : (Body(stack', f) <=> Body(stack, f)) /\ (Call(stack', f) <=> Call(stack, f)),
         \A f \in Future : Has(waiting_lwc, f) /\ want_lw[f] => Has(waiting_lwc', f),
         (rpc' = rpc /\ job' = job) \/ {rpc, rpc'} \cap {"rtatomic", "capture"} = {},
         Stacked', Runtime', ready' > 0 => line' = <<>>
  PROVE  IInv'
<1>1. Beside(NoFuture, NoWorker, {})
  <2>1. ASSUME NEW f \in Future PROVE SameFuture(f)
    BY DEF SameFuture, SameHolders
  <2>2. \A w \in Worker : SamePlace(w) /\ sema'[w] = sema[w]
    BY DEF SamePlace
  <2> QED
    BY <2>1, <2>2, FuturesAssumption DEF Beside
<1>2. PendingQueue'
  <2>1. PendingQueue
    BY Parts
  <2> QED
    BY <2>1 DEF PendingQueue
<1>3. Distinct(line')
  BY Parts
<1> QED
  BY <1>1, <1>2, <1>3, StepKeeps, Numbers, FuturesAssumption

\* worker_thread_future_loop: the future returns.
LEMMA ReturnStep ==
  ASSUME IInv, NEW w \in Worker, NEW f \in Future, Return(w, f)
  PROVE  IInv'
<1>1. wpc[w] = "run" /\ cur[w] = f
  BY DEF Return, Runs, Stands
<1>2. /\ status[f] = "RUNNING" /\ sema[w] = 0 /\ fsemaFt[w] = NoFuture /\ can_continue[f] = NoWorker
      /\ ~Body(stack, f) /\ ~Handled(f)
      /\ \A x \in Worker \ {w} : cur[x] # f
      /\ withheld # w /\ (rpc = "capture" => job # f)
  BY <1>1, Worker1
<1>3. TypeOK /\ Stacked /\ Runtime
  BY Parts
<1>4. /\ Finish(f, sema)
      /\ wpc' = [wpc EXCEPT ![w] = "idle"] /\ cur' = [cur EXCEPT ![w] = NoFuture]
      /\ suspended_lw' = suspended_lw /\ prim' = prim /\ target' = target /\ in_specific' = in_specific
      /\ no_retval' = no_retval /\ waiting_atomic' = waiting_atomic /\ waiting_touch' = waiting_touch
      /\ waiting_lwc' = waiting_lwc /\ alive' = alive /\ ready' = ready /\ line' = line
      /\ fsemaFt' = fsemaFt /\ rpc' = rpc /\ job' = job /\ other' = other /\ withheld' = withheld /\ stack' = stack
  BY DEF Return, fsemaVars, checkVars
<1>5. /\ sema \in [Worker -> 0..1] /\ wpc'[w] = "idle" /\ cur'[w] = NoFuture
      /\ \A x \in Worker \ {w} : SamePlace(x)
  BY <1>3, <1>4 DEF TypeOK, SamePlace
<1>6. rpc \in {"rtatomic", "capture"} => job # f
  BY <1>2 DEF Handled
<1>7. ~Call(stack, f)
  BY <1>2 DEF Handled
<1>8. (status' \in [Future -> Status] /\ queue' \in Seq(Future) /\ pending' \in Nat
       /\ want_lw' \in [Future -> BOOLEAN] /\ can_continue' \in [Future -> Worker \cup {NoWorker}]
       /\ sema' \in [Worker -> 0..1] /\ touching' \in [Future -> Seq(Future)]) => TypeOK'
  BY <1>3, <1>4, Numbers DEF TypeOK
<1>9. Stacked'
  BY <1>3, <1>4 DEF Stacked
<1> QED
  BY <1>1, <1>2, <1>4, <1>5, <1>6, <1>7, <1>8, <1>9, FinishKeeps

\* future_do_runtimecall for an atomic operation.
LEMMA AtomicCallStep ==
  ASSUME IInv, NEW w \in Worker, NEW f \in Future, AtomicCall(w, f)
  PROVE  IInv'
<1>1. wpc[w] = "run" /\ cur[w] = f
  BY DEF AtomicCall, Runs, Stands
<1>2. PICK captured \in BOOLEAN, can_suspend \in BOOLEAN :
        Suspend(w, f, "WAITING_FOR_PRIM", captured, can_suspend /\ ~alive, "idle", "wait")
  BY DEF AtomicCall
<1>3. waiting_atomic' \in Seq(Future)
  BY Parts, PushAtomicType DEF AtomicCall
<1>4. /\ prim' = [prim EXCEPT ![f] = "atomic"] /\ in_specific' = in_specific /\ waiting_touch' = waiting_touch
      /\ UNCHANGED <<queue, pending, target, no_retval, touching, alive, fsemaVars, fsemaFt, sema,
                     rpc, checkVars, stack>>
  BY DEF AtomicCall
<1>5. in_specific' \in [Future -> BOOLEAN] /\ waiting_touch' \in Seq(Future)
  BY <1>4, Parts DEF TypeOK
<1>6. (can_suspend /\ ~alive) \in BOOLEAN
  OBVIOUS
<1> QED
  BY <1>1, <1>2, <1>3, <1>4, <1>5, <1>6, SuspendKeeps

\* future_do_runtimecall for a primitive that may block.
LEMMA BlockingCallStep ==
  ASSUME IInv, NEW w \in Worker, NEW f \in Future, BlockingCall(w, f)
  PROVE  IInv'
<1>1. wpc[w] = "run" /\ cur[w] = f
  BY DEF BlockingCall, Runs, Stands
<1>2. PICK captured \in BOOLEAN :
        Suspend(w, f, "WAITING_FOR_PRIM", captured, TRUE, "idle", "wait")
  BY DEF BlockingCall
<1>3. /\ prim' = [prim EXCEPT ![f] = "blocking"] /\ in_specific' = in_specific
      /\ waiting_touch' = waiting_touch /\ waiting_atomic' = waiting_atomic
      /\ UNCHANGED <<queue, pending, target, no_retval, touching, alive, fsemaVars, fsemaFt, sema,
                     rpc, checkVars, stack>>
  BY DEF BlockingCall
<1>4. in_specific' \in [Future -> BOOLEAN] /\ waiting_touch' \in Seq(Future) /\ waiting_atomic' \in Seq(Future)
  BY <1>3, Parts DEF TypeOK
<1> QED
  BY <1>1, <1>2, <1>3, <1>4, SuspendKeeps

\* future_do_runtimecall for a touch.
LEMMA TouchCallStep ==
  ASSUME IInv, NEW w \in Worker, TouchCall(w)
  PROVE  IInv'
<1>1. wpc[w] = "touch"
  BY DEF TouchCall, Stands
<1>2. cur[w] \in Future /\ target[cur[w]] # NoFuture
  <2>1. cur[w] \in Future
    BY <1>1, Worker1
  <2>2. WorkerOK(w)
    BY Parts
  <2> QED
    BY <1>1, <2>1, <2>2 DEF WorkerOK
<1>3. PICK f \in Future : cur[w] = f
  BY <1>2
<1>4. PICK captured \in BOOLEAN, insist \in BOOLEAN :
        Suspend(w, f, "WAITING_FOR_PRIM", captured, insist, "idle", "wait")
  BY <1>3 DEF TouchCall
<1>5. /\ prim' = [prim EXCEPT ![f] = "touch"] /\ in_specific' = [in_specific EXCEPT ![f] = FALSE]
      /\ waiting_touch' = (IF in_specific[f] \/ Has(waiting_touch, f)
                           THEN waiting_touch ELSE <<f>> \o waiting_touch)
      /\ waiting_atomic' = waiting_atomic
  BY <1>3 DEF TouchCall
<1>6. UNCHANGED <<queue, pending, target, no_retval, touching, alive, fsemaVars, fsemaFt, sema,
                  rpc, checkVars, stack>>
  BY DEF TouchCall
<1>7. PICK p \in {"atomic", "blocking", "touch"} : p = "touch" /\ prim' = [prim EXCEPT ![f] = p]
  BY <1>5
<1>8. /\ in_specific \in [Future -> BOOLEAN] /\ waiting_touch \in Seq(Future)
      /\ waiting_atomic \in Seq(Future)
  BY Parts DEF TypeOK
<1>9. in_specific' \in [Future -> BOOLEAN] /\ waiting_touch' \in Seq(Future) /\ waiting_atomic' \in Seq(Future)
  BY <1>5, <1>8
<1>10. wpc[w] \in {"run", "touch"} /\ (p = "touch" => target[f] # NoFuture)
  BY <1>1, <1>2, <1>3
<1>11. prim' = [prim EXCEPT ![f] = p]
  BY <1>7
<1>12. wpc[w] \in {"run", "touch"}
  BY <1>10
<1>13. p = "touch" => target[f] # NoFuture
  BY <1>10
<1>14. in_specific' \in [Future -> BOOLEAN]
  BY <1>9
<1>15. waiting_touch' \in Seq(Future)
  BY <1>9
<1>16. waiting_atomic' \in Seq(Future)
  BY <1>9
<1> QED
  BY <1>3, <1>4, <1>6, <1>11, <1>12, <1>13, <1>14, <1>15, <1>16, SuspendKeeps, ZenonT(40)

\* touch in a future thread.
LEMMA TouchStep ==
  ASSUME IInv, NEW w \in Worker, NEW f \in Future, NEW g \in Future, Touch(w, f, g)
  PROVE  IInv'
<1>1. wpc[w] = "run" /\ cur[w] = f
  BY DEF Touch, Runs, Stands
<1>2. /\ f \in 0..N /\ f # NoFuture /\ status[f] = "RUNNING" /\ sema[w] = 0
      /\ fsemaFt[w] = NoFuture /\ ~suspended_lw[f] /\ can_continue[f] = NoWorker /\ ~want_lw[f]
      /\ ~Body(stack, f) /\ ~Handled(f) /\ ~Has(line, f)
      /\ \A x \in Worker \ {w} : cur[x] # f
      /\ \A x \in Worker : fsemaFt[x] # f
      /\ withheld # w /\ (rpc = "capture" => job # f)
  BY <1>1, Worker1
<1>3. TypeOK /\ Stacked /\ Runtime /\ PendingQueue /\ Distinct(line) /\ (ready > 0 => line = <<>>)
  BY Parts
<1>4. /\ status' = status /\ queue' = queue /\ pending' = pending /\ suspended_lw' = suspended_lw
      /\ want_lw' = want_lw /\ can_continue' = can_continue /\ prim' = prim /\ no_retval' = no_retval
      /\ waiting_atomic' = waiting_atomic /\ waiting_touch' = waiting_touch /\ waiting_lwc' = waiting_lwc
      /\ alive' = alive /\ ready' = ready /\ line' = line /\ cur' = cur /\ fsemaFt' = fsemaFt
      /\ sema' = sema /\ rpc' = rpc /\ job' = job /\ other' = other /\ withheld' = withheld /\ stack' = stack
  BY DEF Touch, fsemaVars, checkVars
<1>5. Stacked' /\ PendingQueue' /\ Distinct(line')
  BY <1>3, <1>4 DEF Stacked, PendingQueue
<1>6. CASE status[g] = "FINISHED"
  <2>1. wpc' = wpc /\ target' = target /\ touching' = touching /\ in_specific' = in_specific
    BY <1>6 DEF Touch
  <2>2. TypeOK' /\ Runtime'
    BY <1>3, <1>4, <2>1 DEF TypeOK, Runtime, Waits
  <2> QED
    BY <1>3, <1>4, <1>5, <2>1, <2>2, QuietKeeps
<1>7. CASE status[g] # "FINISHED"
  <2>1. /\ wpc' = [wpc EXCEPT ![w] = "touch"] /\ target' = [target EXCEPT ![f] = g]
        /\ \/ /\ touching' = [touching EXCEPT ![g] = <<f>> \o @]
              /\ in_specific' = [in_specific EXCEPT ![f] = TRUE]
           \/ touching' = touching /\ in_specific' = in_specific
    BY <1>7 DEF Touch
  <2>2. touching' \in [Future -> Seq(Future)]
    <3>1. touching[g] \in Seq(Future) /\ <<f>> \o touching[g] \in Seq(Future)
      BY <1>3 DEF TypeOK
    <3> QED
      BY <1>3, <2>1, <3>1 DEF TypeOK
  <2>3. g \in 0..N /\ g # NoFuture
    BY Numbers
  <2>4. TypeOK'
    <3>1. in_specific' \in [Future -> BOOLEAN] /\ target' \in [Future -> 0..N]
          /\ wpc' \in [Worker -> {"idle", "run", "touch", "wait", "fwait", "fsema"}]
      BY <1>3, <2>1, <2>3 DEF TypeOK
    <3> QED
      BY <1>3, <1>4, <2>2, <3>1 DEF TypeOK
  <2>5. wpc'[w] = "touch" /\ target'[f] = g /\ \A h \in Future \ {f} : target'[h] = target[h]
    BY <1>3, <2>1 DEF TypeOK
  <2>6. Beside(f, w, {})
    <3>1. \A x \in Worker \ {w} : wpc'[x] = wpc[x]
      BY <1>3, <2>1 DEF TypeOK
    <3>2. \A h \in Future \ {f} : SameFuture(h)
      BY <1>4, <2>5 DEF SameFuture, SameHolders
    <3>3. \A x \in Worker \ {w} : SamePlace(x)
      BY <1>4, <3>1 DEF SamePlace
    <3> QED
      BY <1>1, <1>2, <1>4, <3>2, <3>3 DEF Beside
  <2>7. FutureOK(f)'
    <3>1. ~Body(stack, f)' /\ ~Handled(f)' /\ ~Has(line, f)' /\ Works(w, f)'
      BY <1>1, <1>2, <1>4, <2>5 DEF Handled, Works
    <3> QED
      BY <1>2, <1>4, <2>3, <2>5, <3>1 DEF FutureOK
  <2>8. WorkerOK(w)'
    BY <1>1, <1>2, <1>4, <2>3, <2>5 DEF WorkerOK
  <2>9. Runtime'
    BY <1>2, <1>4, <2>3, <2>5, <2>6, RuntimeKeeps
  <2> QED
    BY <1>1, <1>2, <1>3, <1>4, <1>5, <2>4, <2>6, <2>7, <2>8, <2>9, StepKeeps
<1> QED
  BY <1>6, <1>7

\* future_do_runtimecall, after mzrt_sema_wait.
LEMMA ContinueStep ==
  ASSUME IInv, NEW w \in Worker, Continue(w)
  PROVE  IInv'
<1>1. wpc[w] = "wait" /\ sema[w] > 0
  BY DEF Continue, Stands
<1>2. TypeOK /\ Stacked /\ Runtime /\ Unique /\ PendingQueue /\ WorkerOK(w) /\ Distinct(line)
      /\ (ready > 0 => line = <<>>) /\ sema[w] \in 0..1 /\ cur[w] \in 0..N
  BY Parts
<1>3. sema[w] = 1 /\ sema[w] - 1 = 0 /\ fsemaFt[w] = NoFuture /\ withheld # w
  BY <1>1, <1>2, FuturesAssumption DEF WorkerOK, Runtime
<1>4. /\ suspended_lw' = suspended_lw /\ prim' = prim /\ target' = target /\ in_specific' = in_specific
      /\ no_retval' = no_retval /\ waiting_atomic' = waiting_atomic /\ waiting_touch' = waiting_touch
      /\ waiting_lwc' = waiting_lwc /\ alive' = alive /\ ready' = ready /\ line' = line
      /\ fsemaFt' = fsemaFt /\ rpc' = rpc /\ job' = job /\ other' = other /\ withheld' = withheld /\ stack' = stack
  BY DEF Continue, fsemaVars, checkVars
<1>5. Stacked' /\ Distinct(line')
  BY <1>2, <1>4 DEF Stacked
<1>6. CASE cur[w] = NoFuture
  <2>1. /\ sema' = [sema EXCEPT ![w] = 0] /\ wpc' = [wpc EXCEPT ![w] = "idle"]
        /\ status' = status /\ queue' = queue /\ pending' = pending /\ want_lw' = want_lw
        /\ can_continue' = can_continue /\ touching' = touching /\ cur' = cur
    BY <1>3, <1>6 DEF Continue
  <2>2. /\ wpc' \in [Worker -> {"idle", "run", "touch", "wait", "fwait", "fsema"}] /\ sema' \in [Worker -> 0..1]
        /\ wpc'[w] = "idle" /\ sema'[w] = 0
        /\ \A x \in Worker \ {w} : wpc'[x] = wpc[x] /\ sema'[x] = sema[x]
    <3>1. wpc \in [Worker -> {"idle", "run", "touch", "wait", "fwait", "fsema"}] /\ sema \in [Worker -> 0..1]
      BY <1>2 DEF TypeOK
    <3>2. /\ wpc' \in [Worker -> {"idle", "run", "touch", "wait", "fwait", "fsema"}] /\ wpc'[w] = "idle"
          /\ \A x \in Worker \ {w} : wpc'[x] = wpc[x]
      BY <2>1, <3>1
    <3>3. sema' \in [Worker -> 0..1] /\ sema'[w] = 0 /\ \A x \in Worker \ {w} : sema'[x] = sema[x]
      BY <2>1, <3>1
    <3> QED
      BY <3>2, <3>3
  <2>3. TypeOK'
    BY <1>2, <1>4, <2>1, <2>2 DEF TypeOK
  <2>4. Beside(NoFuture, w, {})
    <3>1. \A h \in Future : SameFuture(h)
      BY <1>4, <2>1 DEF SameFuture, SameHolders
    <3>2. \A x \in Worker \ {w} : SamePlace(x)
      BY <1>4, <2>1, <2>2 DEF SamePlace
    <3> QED
      BY <1>3, <1>4, <1>6, <2>1, <2>2, <3>1, <3>2 DEF Beside
  <2>5. WorkerOK(w)'
    BY <1>3, <1>4, <1>6, <2>1, <2>2 DEF WorkerOK
  <2>6. Runtime'
    <3>1. rpc = "capture" => job # NoFuture
      BY <1>2 DEF Runtime
    <3> QED
      BY <1>3, <1>4, <2>4, <3>1, RuntimeKeeps, Numbers
  <2>7. PendingQueue'
    BY <1>2, <2>1 DEF PendingQueue
  <2> QED
    BY <1>2, <1>3, <1>4, <1>5, <1>6, <2>1, <2>3, <2>4, <2>5, <2>6, <2>7, Numbers, StepKeeps
<1>7. CASE cur[w] # NoFuture
  <2>1. PICK f \in Future : cur[w] = f
    BY <1>2, <1>7, Numbers
  <2>2. f # NoFuture /\ f \in 0..N /\ FutureOK(f)
    BY Numbers, Parts
  <2>3. status[f] = "HANDLING_PRIM" /\ ~suspended_lw[f]
    BY <1>1, <1>2, <1>3, <2>1, <2>2 DEF WorkerOK, Blocked
  <2>4. \A x \in Worker \ {w} : cur[x] # f
    BY <1>2, <2>1, <2>2 DEF Unique
  <2>5. can_continue[f] = NoWorker
    <3>1. can_continue[f] \in Worker \cup {NoWorker}
      BY Parts
    <3> QED
      BY <1>3, <2>2, <2>4, <3>1 DEF FutureOK, Waits
  <2>6. ~Handled(f) /\ ~want_lw[f] /\ ~Body(stack, f) /\ ~Has(line, f) /\ (prim[f] = "touch" => target[f] # NoFuture)
    BY <2>2, <2>3, <2>5 DEF FutureOK
  <2>7. rpc \in {"rtatomic", "capture"} => job # f
    <3>1. rpc = "capture" => withheld \in Worker /\ cur[withheld] = job
      BY <1>2 DEF Runtime, Waits, TypeOK
    <3> QED
      BY <1>3, <2>4, <2>6, <3>1 DEF Handled
  <2>8. \A x \in Worker : fsemaFt[x] # f
    BY <2>3, Parts, Holder
  <2>9. CASE no_retval[f]
    <3>1. /\ Finish(f, [sema EXCEPT ![w] = 0])
          /\ wpc' = [wpc EXCEPT ![w] = "idle"] /\ cur' = [cur EXCEPT ![w] = NoFuture]
      BY <1>3, <2>1, <2>2, <2>9 DEF Continue
    <3> DEFINE sm == [sema EXCEPT ![w] = 0]
    <3>2. /\ sm \in [Worker -> 0..1] /\ sm[w] = 0 /\ \A x \in Worker \ {w} : sm[x] = sema[x]
          /\ wpc'[w] = "idle" /\ cur'[w] = NoFuture
          /\ \A x \in Worker \ {w} : SamePlace(x)
      BY <1>2, <1>4, <3>1 DEF TypeOK, SamePlace
    <3>3. (status' \in [Future -> Status] /\ queue' \in Seq(Future) /\ pending' \in Nat
           /\ want_lw' \in [Future -> BOOLEAN] /\ can_continue' \in [Future -> Worker \cup {NoWorker}]
           /\ sema' \in [Worker -> 0..1] /\ touching' \in [Future -> Seq(Future)]) => TypeOK'
      BY <1>2, <1>4, <3>1, Numbers DEF TypeOK
    <3> HIDE DEF sm
    <3>4. Finish(f, sm)
      BY <3>1 DEF sm
    <3>5. ~Call(stack, f)
      BY <2>6 DEF Handled
    <3> QED
      BY <1>3, <1>4, <1>5, <2>1, <2>3, <2>4, <2>5, <2>6, <2>7, <3>2, <3>3, <3>4, <3>5, FinishKeeps
  <2>10. CASE ~no_retval[f]
    <3>1. /\ sema' = [sema EXCEPT ![w] = 0] /\ status' = [status EXCEPT ![f] = "RUNNING"]
          /\ wpc' = [wpc EXCEPT ![w] = "run"] /\ want_lw' = [want_lw EXCEPT ![f] = FALSE]
          /\ queue' = queue /\ pending' = pending /\ can_continue' = can_continue /\ touching' = touching
          /\ cur' = cur
      BY <1>3, <2>1, <2>2, <2>10 DEF Continue
    <3>2. /\ wpc' \in [Worker -> {"idle", "run", "touch", "wait", "fwait", "fsema"}] /\ sema' \in [Worker -> 0..1]
          /\ status' \in [Future -> Status] /\ want_lw' \in [Future -> BOOLEAN]
          /\ wpc'[w] = "run" /\ sema'[w] = 0 /\ status'[f] = "RUNNING" /\ ~want_lw'[f]
          /\ \A x \in Worker \ {w} : wpc'[x] = wpc[x] /\ sema'[x] = sema[x]
          /\ \A h \in Future \ {f} : status'[h] = status[h] /\ want_lw'[h] = want_lw[h]
      <4>1. /\ wpc \in [Worker -> {"idle", "run", "touch", "wait", "fwait", "fsema"}]
            /\ sema \in [Worker -> 0..1] /\ status \in [Future -> Status] /\ want_lw \in [Future -> BOOLEAN]
        BY <1>2 DEF TypeOK
      <4>2. /\ wpc' \in [Worker -> {"idle", "run", "touch", "wait", "fwait", "fsema"}] /\ wpc'[w] = "run"
            /\ \A x \in Worker \ {w} : wpc'[x] = wpc[x]
        BY <3>1, <4>1
      <4>3. sema' \in [Worker -> 0..1] /\ sema'[w] = 0 /\ \A x \in Worker \ {w} : sema'[x] = sema[x]
        BY <3>1, <4>1
      <4>4. /\ status' \in [Future -> Status] /\ status'[f] = "RUNNING"
            /\ \A h \in Future \ {f} : status'[h] = status[h]
        BY <3>1, <4>1 DEF Status
      <4>5. /\ want_lw' \in [Future -> BOOLEAN] /\ ~want_lw'[f]
            /\ \A h \in Future \ {f} : want_lw'[h] = want_lw[h]
        BY <3>1, <4>1
      <4> QED
        BY <4>2, <4>3, <4>4, <4>5
    <3>3. TypeOK'
      BY <1>2, <1>4, <3>1, <3>2 DEF TypeOK
    <3>4. Beside(f, w, {})
      <4>1. \A h \in Future \ {f} : SameFuture(h)
        BY <1>4, <3>1, <3>2 DEF SameFuture, SameHolders
      <4>2. \A x \in Worker \ {w} : SamePlace(x)
        BY <1>4, <3>1, <3>2 DEF SamePlace
      <4> QED
        BY <1>3, <1>4, <2>1, <3>1, <3>2, <4>1, <4>2 DEF Beside
    <3>5. FutureOK(f)'
      <4>1. ~Body(stack, f)' /\ ~Handled(f)' /\ ~Has(line, f)' /\ Works(w, f)'
        BY <1>4, <2>1, <2>6, <3>1, <3>2 DEF Handled, Works
      <4> QED
        BY <1>4, <2>5, <2>6, <3>1, <3>2, <4>1 DEF FutureOK
    <3>6. WorkerOK(w)'
      BY <1>3, <1>4, <2>1, <2>2, <2>3, <3>1, <3>2 DEF WorkerOK
    <3>7. Runtime'
      BY <1>2, <1>3, <1>4, <2>2, <2>7, <3>4, RuntimeKeeps DEF Runtime
    <3>8. PendingQueue'
      <4>1. \A h \in Future : status'[h] = "PENDING" <=> status[h] = "PENDING"
        BY <2>3, <3>2
      <4> QED
        BY <1>2, <3>1, <4>1 DEF PendingQueue
    <3> QED
      BY <1>2, <1>3, <1>4, <1>5, <2>1, <2>2, <2>4, <2>8, <3>1, <3>3, <3>4, <3>5, <3>6, <3>7, <3>8, StepKeeps
  <2> QED
    BY <2>9, <2>10
<1> QED
  BY <1>6, <1>7

\* A step that moves only futures that nobody holds.
LEMMA RestKeeps ==
  ASSUME IInv, TypeOK', PendingQueue',
         \A f \in Future : status'[f] = status[f] \/ {status[f], status'[f]} \subseteq Rest,
         UNCHANGED <<futVars, listVars, fsemaVars, workerVars, sema, rpc, checkVars, stack>>
  PROVE  IInv'
<1>1. /\ suspended_lw' = suspended_lw /\ want_lw' = want_lw /\ can_continue' = can_continue
      /\ prim' = prim /\ target' = target /\ waiting_lwc' = waiting_lwc /\ line' = line /\ ready' = ready
      /\ wpc' = wpc /\ cur' = cur /\ fsemaFt' = fsemaFt /\ sema' = sema /\ rpc' = rpc /\ job' = job
      /\ other' = other /\ withheld' = withheld /\ stack' = stack
  BY DEF futVars, listVars, fsemaVars, workerVars, checkVars
<1>2. Beside(NoFuture, NoWorker, {})
  <2>1. ASSUME NEW f \in Future PROVE SameFuture(f) \/ Resting(f)
    BY <1>1 DEF SameFuture, SameHolders, Resting
  <2>2. \A w \in Worker : SamePlace(w) /\ sema'[w] = sema[w]
    BY <1>1 DEF SamePlace
  <2> QED
    BY <1>1, <2>1, <2>2, FuturesAssumption DEF Beside
<1>3. Stacked' /\ Distinct(line') /\ (ready' > 0 => line' = <<>>)
  BY <1>1, Parts DEF Stacked
<1>4. Runtime'
  <2>1. Runtime
    BY Parts
  <2>2. rpc = "capture" => job # NoFuture
    BY <2>1 DEF Runtime
  <2>3. rpc = "capture" => withheld # NoWorker
    BY <2>1 DEF Runtime
  <2> QED
    BY <1>1, <1>2, <2>2, <2>3, RuntimeKeeps, Numbers
<1> QED
  BY <1>2, <1>3, <1>4, StepKeeps, Numbers, FuturesAssumption

\* A future is made.
LEMMA MakeKeeps ==
  ASSUME IInv, NEW g \in Future, MakeFuture(g),
         UNCHANGED <<futVars, listVars, alive, fsemaVars, workerVars, sema, rpc, checkVars, stack>>
  PROVE  IInv'
<1>1. TypeOK /\ PendingQueue
  BY Parts
<1>2. /\ queue \in Seq(Future) /\ pending \in Nat /\ Len(queue) \in Nat /\ Distinct(queue)
      /\ pending >= Len(queue) /\ \A f \in Future : status[f] = "PENDING" <=> Has(queue, f)
      /\ status[g] = "none"
  BY <1>1 DEF TypeOK, PendingQueue, Distinct, MakeFuture, IsNext
<1>3. /\ status' \in [Future -> Status] /\ queue' \in Seq(Future) /\ pending' \in Nat /\ PendingQueue'
      /\ \A f \in Future : status'[f] = status[f] \/ {status[f], status'[f]} \subseteq Rest
  <2>1. CASE status' = [status EXCEPT ![g] = "PENDING"] /\ Enqueue(<<g>>)
    <3>1. <<g>> \in Seq(Future) /\ Len(<<g>>) = 1 /\ Distinct(<<g>>) /\ \A x : Has(<<g>>, x) <=> x = g
      BY OneFacts
    <3>2. queue' = queue \o <<g>> /\ pending' = pending + 1
      BY <2>1, <3>1 DEF Enqueue
    <3>3. \A x \in Future : ~(Has(queue, x) /\ Has(<<g>>, x))
      BY <1>2, <3>1
    <3>4. /\ queue' \in Seq(Future) /\ Len(queue') = Len(queue) + 1 /\ Distinct(queue')
          /\ \A x : Has(queue', x) <=> Has(queue, x) \/ x = g
      <4>1. PICK s \in Seq(Future) : s = <<g>>
        BY <3>1
      <4>2. Len(s) = 1 /\ Distinct(s) /\ (\A x : Has(s, x) <=> x = g) /\ queue' = queue \o s
            /\ \A x \in Future : ~(Has(queue, x) /\ Has(s, x))
        BY <3>1, <3>2, <3>3, <4>1
      <4>3. /\ queue \o s \in Seq(Future) /\ Len(queue \o s) = Len(queue) + Len(s) /\ Distinct(queue \o s)
            /\ \A x : Has(queue \o s, x) <=> Has(queue, x) \/ Has(s, x)
        BY <1>2, <4>2, ConcatFacts
      <4> QED
        BY <4>2, <4>3
    <3>5. /\ status' \in [Future -> Status] /\ status'[g] = "PENDING"
          /\ \A f \in Future \ {g} : status'[f] = status[f]
      BY <1>1, <2>1 DEF TypeOK, Status
    <3>6. \A f \in Future : status'[f] = "PENDING" <=> Has(queue', f)
      BY <1>2, <3>4, <3>5
    <3>7. pending' \in Nat /\ pending' >= Len(queue')
      BY <1>2, <3>2, <3>4
    <3> QED
      BY <1>2, <3>4, <3>5, <3>6, <3>7 DEF PendingQueue, Distinct, Rest
  <2>2. CASE status' = [status EXCEPT ![g] = "PENDING_OVERSIZE"] /\ UNCHANGED <<queue, pending>>
    <3>1. /\ status' \in [Future -> Status] /\ status'[g] = "PENDING_OVERSIZE"
          /\ \A f \in Future \ {g} : status'[f] = status[f]
      BY <1>1, <2>2 DEF TypeOK, Status
    <3>2. \A f \in Future : status'[f] = "PENDING" <=> status[f] = "PENDING"
      BY <1>2, <3>1
    <3> QED
      BY <1>1, <1>2, <2>2, <3>1, <3>2 DEF PendingQueue, Rest
  <2> QED
    BY <2>1, <2>2 DEF MakeFuture
<1>4. TypeOK'
  BY <1>1, <1>3 DEF TypeOK, futVars, listVars, fsemaVars, workerVars, checkVars
<1> QED
  BY <1>3, <1>4, RestKeeps

\* A future thread makes a future.
LEMMA FutureMakesFutureStep ==
  ASSUME IInv, NEW w \in Worker, NEW f \in Future, NEW g \in Future, FutureMakesFuture(w, f, g)
  PROVE  IInv'
<1>1. MakeFuture(g) /\ UNCHANGED <<futVars, listVars, alive, fsemaVars, workerVars, sema, rpc, checkVars, stack>>
  BY DEF FutureMakesFuture, MakeFuture
<1> QED
  BY <1>1, MakeKeeps

\* worker_thread_future_loop: a future is taken from the queue, or all of them
\* are given up.
LEMMA TakeStep ==
  ASSUME IInv, NEW w \in Worker, Take(w)
  PROVE  IInv'
<1>1. /\ TypeOK /\ PendingQueue /\ WorkerOK(w) /\ Stacked /\ Distinct(line) /\ (ready > 0 => line = <<>>)
      /\ Runtime
  BY Parts
<1>2. /\ queue \in Seq(Future) /\ pending \in Nat /\ Len(queue) \in Nat /\ Distinct(queue)
      /\ pending >= Len(queue) /\ \A f \in Future : status[f] = "PENDING" <=> Has(queue, f)
  BY <1>1 DEF TypeOK, PendingQueue, Distinct
<1>3. wpc[w] = "idle" /\ pending > 0 /\ pending' = pending - 1
  BY DEF Take, Stands
<1>4. /\ want_lw' = want_lw /\ can_continue' = can_continue /\ prim' = prim /\ target' = target
      /\ in_specific' = in_specific /\ no_retval' = no_retval /\ touching' = touching
      /\ waiting_atomic' = waiting_atomic /\ waiting_touch' = waiting_touch /\ waiting_lwc' = waiting_lwc
      /\ alive' = alive /\ ready' = ready /\ line' = line /\ fsemaFt' = fsemaFt /\ sema' = sema
      /\ rpc' = rpc /\ job' = job /\ other' = other /\ withheld' = withheld /\ stack' = stack
  BY DEF Take, listVars, fsemaVars, checkVars
<1>5. CASE alive /\ queue # <<>>
  <2>1. PICK f \in Future : f = Head(queue)
    BY <1>2, <1>5, TailFacts
  <2>2. /\ queue' = Tail(queue) /\ status' = [status EXCEPT ![f] = "RUNNING"]
        /\ suspended_lw' = [suspended_lw EXCEPT ![f] = FALSE]
        /\ cur' = [cur EXCEPT ![w] = f] /\ wpc' = [wpc EXCEPT ![w] = "run"]
    BY <1>5, <2>1 DEF Take
  <2>3. /\ queue' \in Seq(Future) /\ Len(queue') = Len(queue) - 1 /\ Distinct(queue') /\ Has(queue, f)
        /\ ~Has(queue', f) /\ \A x : Has(queue, x) <=> x = f \/ Has(queue', x)
    BY <1>2, <1>5, <2>1, <2>2, TailFacts
  <2>4. status[f] = "PENDING"
    BY <1>2, <2>3
  <2>5. /\ can_continue[f] = NoWorker /\ ~want_lw[f]
        /\ \A x \in Worker : cur[x] # f /\ fsemaFt[x] # f
        /\ ~Body(stack, f) /\ ~Handled(f) /\ ~Has(line, f) /\ ~(rpc = "capture" /\ job = f)
    BY <2>4, Unheld
  <2>6. f # NoFuture /\ f \in 0..N /\ FutureOK(f)
    BY Numbers, Parts
  <2>7. /\ status' \in [Future -> Status] /\ suspended_lw' \in [Future -> BOOLEAN]
        /\ cur' \in [Worker -> 0..N] /\ wpc' \in [Worker -> {"idle", "run", "touch", "wait", "fwait", "fsema"}]
        /\ status'[f] = "RUNNING" /\ ~suspended_lw'[f] /\ cur'[w] = f /\ wpc'[w] = "run"
        /\ \A h \in Future \ {f} : status'[h] = status[h] /\ suspended_lw'[h] = suspended_lw[h]
        /\ \A x \in Worker \ {w} : cur'[x] = cur[x] /\ wpc'[x] = wpc[x]
    BY <1>1, <2>2, <2>6 DEF TypeOK, Status
  <2>8. pending' \in Nat /\ pending' >= Len(queue')
    BY <1>2, <1>3, <2>3
  <2>9. TypeOK'
    BY <1>1, <1>4, <2>3, <2>7, <2>8 DEF TypeOK
  <2>10. PendingQueue'
    <3>1. \A h \in Future : status'[h] = "PENDING" <=> Has(queue', h)
      BY <1>2, <2>3, <2>7
    <3> QED
      BY <2>3, <2>8, <3>1 DEF PendingQueue, Distinct
  <2>11. cur[w] = NoFuture /\ fsemaFt[w] = NoFuture /\ sema[w] = 0
    BY <1>1, <1>3 DEF WorkerOK
  <2>12. withheld # w
    BY <1>1, <1>3, FuturesAssumption DEF Runtime, Waits
  <2>13. Beside(f, w, {})
    <3>1. \A h \in Future \ {f} : SameFuture(h)
      BY <1>4, <2>7 DEF SameFuture, SameHolders
    <3>2. \A x \in Worker \ {w} : SamePlace(x)
      BY <1>4, <2>7 DEF SamePlace
    <3> QED
      BY <1>4, <2>7, <2>11, <3>1, <3>2 DEF Beside
  <2>14. FutureOK(f)'
    <3>1. ~Body(stack, f)' /\ ~Handled(f)' /\ ~Has(line, f)' /\ Works(w, f)'
          /\ (prim'[f] = "touch" => target'[f] # NoFuture)
      BY <1>4, <2>5, <2>6, <2>7 DEF Handled, Works, FutureOK
    <3> QED
      BY <1>4, <2>5, <2>7, <3>1 DEF FutureOK
  <2>15. WorkerOK(w)'
    BY <1>4, <2>6, <2>7, <2>11 DEF WorkerOK
  <2>16. Runtime'
    BY <1>1, <1>4, <2>5, <2>6, <2>12, <2>13, RuntimeKeeps DEF Runtime
  <2>17. Stacked'
    BY <1>1, <1>4 DEF Stacked
  <2> QED
    BY <1>1, <1>4, <2>5, <2>6, <2>9, <2>10, <2>11, <2>13, <2>14, <2>15, <2>16, <2>17, StepKeeps
<1>6. CASE ~(alive /\ queue # <<>>)
  <2>1. /\ queue' = <<>> /\ suspended_lw' = suspended_lw /\ cur' = cur /\ wpc' = wpc
        /\ status' = [f \in Future |-> IF Has(queue, f) THEN "SUSPENDED" ELSE status[f]]
    BY <1>6 DEF Take
  <2>2. /\ status' \in [Future -> Status]
        /\ \A f \in Future : status'[f] = IF Has(queue, f) THEN "SUSPENDED" ELSE status[f]
    BY <1>1, <2>1 DEF TypeOK, Status
  <2>3. \A f \in Future : status'[f] = status[f] \/ {status[f], status'[f]} \subseteq Rest
    BY <1>2, <2>2 DEF Rest
  <2>4. queue' \in Seq(Future) /\ Len(queue') = 0 /\ Distinct(queue') /\ \A f : ~Has(queue', f)
    BY <1>2, <2>1, EmptyFacts
  <2>5. pending' \in Nat /\ pending' >= Len(queue')
    BY <1>2, <1>3, <2>4
  <2>6. PendingQueue'
    <3>1. \A f \in Future : status'[f] # "PENDING"
      BY <1>2, <2>2
    <3> QED
      BY <2>4, <2>5, <3>1 DEF PendingQueue, Distinct
  <2>7. TypeOK'
    BY <1>1, <1>4, <2>1, <2>2, <2>4, <2>5 DEF TypeOK
  <2> QED
    BY <1>4, <2>1, <2>3, <2>6, <2>7, RestKeeps DEF futVars, listVars, fsemaVars, workerVars, checkVars
<1> QED
  BY <1>5, <1>6

\* scheme_fsemaphore_post.
LEMMA PostKeeps ==
  ASSUME IInv, Post,
         UNCHANGED <<futVars, listVars, alive, workerVars, sema, rpc, checkVars, stack>>
  PROVE  IInv'
<1>1. TypeOK /\ PendingQueue /\ Stacked /\ Runtime /\ Unique /\ Distinct(line) /\ (ready > 0 => line = <<>>)
  BY Parts
<1>2. /\ suspended_lw' = suspended_lw /\ want_lw' = want_lw /\ can_continue' = can_continue
      /\ prim' = prim /\ target' = target /\ in_specific' = in_specific /\ no_retval' = no_retval
      /\ touching' = touching /\ waiting_atomic' = waiting_atomic /\ waiting_touch' = waiting_touch
      /\ waiting_lwc' = waiting_lwc /\ alive' = alive /\ wpc' = wpc /\ cur' = cur /\ fsemaFt' = fsemaFt
      /\ sema' = sema /\ rpc' = rpc /\ job' = job /\ other' = other /\ withheld' = withheld /\ stack' = stack
  BY DEF futVars, listVars, workerVars, checkVars
<1>3. ready \in Int /\ line \in Seq(Future)
  BY <1>1 DEF TypeOK
<1>4. Stacked'
  BY <1>1, <1>2 DEF Stacked
<1>5. CASE ready = 0 /\ line # <<>>
  <2>1. PICK f \in Future : f = Head(line)
    BY <1>3, <1>5, TailFacts
  <2>2. line' = Tail(line) /\ Requeue(<<f>>, status) /\ ready' = ready
    BY <1>5, <2>1 DEF Post
  <2>3. /\ line' \in Seq(Future) /\ Distinct(line') /\ Has(line, f) /\ ~Has(line', f)
        /\ \A x : Has(line, x) <=> x = f \/ Has(line', x)
    BY <1>1, <1>3, <1>5, <2>1, <2>2, TailFacts
  <2>4. FutureOK(f) /\ f # NoFuture /\ f \in 0..N
    BY Parts, Numbers
  <2>5. /\ status[f] = "WAITING_FOR_FSEMA" /\ suspended_lw[f] /\ \A w \in Worker : fsemaFt[w] # f
        /\ ~Handled(f) /\ ~Body(stack, f) /\ (prim[f] = "touch" => target[f] # NoFuture)
    BY <2>3, <2>4 DEF FutureOK
  <2>6. \A w \in Worker : cur[w] # f
    BY <2>5, Holder, Parts
  <2>7. can_continue[f] = NoWorker /\ ~want_lw[f]
    <3>1. can_continue[f] \in Worker \cup {NoWorker}
      BY Parts
    <3> QED
      BY <2>4, <2>6, <3>1 DEF FutureOK, Waits
  <2>8. <<f>> \in Seq(Future) /\ Distinct(<<f>>) /\ \A x : Has(<<f>>, x) <=> x = f
    BY OneFacts
  <2>9. PICK s \in Seq(Future) : s = <<f>>
    BY <2>8
  <2>10. Distinct(s) /\ (\A x : Has(s, x) <=> x = f) /\ Requeue(s, status)
    BY <2>2, <2>8, <2>9
  <2>11. /\ status' \in [Future -> Status] /\ queue' \in Seq(Future) /\ pending' \in Nat
         /\ PendingQueue'
         /\ \A h \in Future : IF Has(s, h) THEN status'[h] \in {"PENDING", "SUSPENDED"} ELSE status'[h] = status[h]
    <3>1. status \in [Future -> Status]
      BY <1>1 DEF TypeOK
    <3>2. \A h \in Future : Has(s, h) => status[h] # "PENDING"
      BY <2>5, <2>10
    <3> QED
      BY <1>1, <2>10, <3>1, <3>2, Requeues
  <2>12. TypeOK'
    BY <1>1, <1>2, <1>3, <2>2, <2>3, <2>11 DEF TypeOK
  <2>13. Beside(f, NoWorker, {})
    <3>1. \A h \in Future \ {f} : SameFuture(h)
      BY <1>2, <2>3, <2>10, <2>11 DEF SameFuture, SameHolders
    <3>2. \A x \in Worker : SamePlace(x)
      BY <1>2 DEF SamePlace
    <3> QED
      BY <1>2, <3>1, <3>2, FuturesAssumption DEF Beside
  <2>14. FutureOK(f)'
    <3>1. ~Body(stack, f)' /\ ~Handled(f)' /\ ~Has(line, f)' /\ status'[f] \in {"PENDING", "SUSPENDED"}
      BY <1>2, <2>3, <2>5, <2>10, <2>11 DEF Handled
    <3> QED
      BY <1>2, <2>5, <2>7, <3>1 DEF FutureOK
  <2>15. Runtime'
    <3>1. rpc = "capture" => job # f /\ withheld # NoWorker
      BY <1>1, <2>6 DEF Runtime, Waits, TypeOK
    <3> QED
      BY <1>2, <2>4, <2>13, <3>1, RuntimeKeeps
  <2> QED
    BY <1>2, <1>4, <1>5, <2>2, <2>3, <2>4, <2>5, <2>6, <2>11, <2>12, <2>13, <2>14, <2>15, StepKeeps, FuturesAssumption
<1>6. CASE ~(ready = 0 /\ line # <<>>)
  <2>1. ready' = ready + 1 /\ line' = line /\ status' = status /\ queue' = queue /\ pending' = pending
    BY <1>6 DEF Post
  <2>2. TypeOK' /\ Runtime'
    <3>1. TypeOK'
      <4>1. /\ ready' \in Int /\ line' = line
            /\ status' = status /\ queue' = queue /\ pending' = pending
        BY <1>3, <2>1
      <4> QED
        BY <1>1, <1>2, <4>1 DEF TypeOK
    <3>2. Runtime'
      BY <1>1, <1>2, <2>1 DEF Runtime, Waits
    <3> QED
      BY <3>1, <3>2
  <2>3. ready' > 0 => line' = <<>>
    BY <1>1, <1>3, <1>6, <2>1
  <2> QED
    BY <1>2, <1>4, <2>1, <2>2, <2>3, QuietKeeps
<1> QED
  BY <1>5, <1>6

\* fsemaphore-wait in a future thread.
LEMMA FutureWaitsStep ==
  ASSUME IInv, NEW w \in Worker, NEW f \in Future, FutureWaits(w, f)
  PROVE  IInv'
<1>1. wpc[w] = "run" /\ cur[w] = f
  BY DEF FutureWaits, Runs, Stands
<1>2. /\ f \in 0..N /\ f # NoFuture /\ status[f] = "RUNNING" /\ sema[w] = 0
      /\ fsemaFt[w] = NoFuture /\ ~suspended_lw[f] /\ can_continue[f] = NoWorker /\ ~want_lw[f]
      /\ ~Body(stack, f) /\ ~Handled(f) /\ ~Has(line, f)
      /\ \A x \in Worker \ {w} : cur[x] # f
      /\ \A x \in Worker : fsemaFt[x] # f
      /\ withheld # w /\ (rpc = "capture" => job # f) /\ (prim[f] = "touch" => target[f] # NoFuture)
  BY <1>1, Worker1
<1>3. TypeOK /\ Stacked /\ Runtime /\ PendingQueue /\ Distinct(line) /\ (ready > 0 => line = <<>>)
  BY Parts
<1>4. /\ queue' = queue /\ pending' = pending /\ prim' = prim /\ target' = target
      /\ in_specific' = in_specific /\ no_retval' = no_retval /\ touching' = touching
      /\ waiting_atomic' = waiting_atomic /\ waiting_touch' = waiting_touch
      /\ alive' = alive /\ line' = line
      /\ sema' = sema /\ rpc' = rpc /\ job' = job /\ other' = other /\ withheld' = withheld /\ stack' = stack
  BY DEF FutureWaits, checkVars
<1>5. Stacked' /\ Distinct(line')
  BY <1>3, <1>4 DEF Stacked
<1>6. CASE ready # 0
  <2>1. /\ ready' = ready - 1 /\ status' = status /\ suspended_lw' = suspended_lw /\ cur' = cur /\ wpc' = wpc
        /\ can_continue' = can_continue /\ waiting_lwc' = waiting_lwc /\ want_lw' = want_lw /\ fsemaFt' = fsemaFt
    BY <1>6 DEF FutureWaits
  <2>2. ready \in Int
    BY <1>3 DEF TypeOK
  <2>3. TypeOK' /\ Runtime' /\ (ready' > 0 => line' = <<>>)
    <3>1. ready' \in Int /\ (ready' > 0 => ready > 0)
      BY <2>1, <2>2
    <3>2. TypeOK'
      BY <1>3, <1>4, <2>1, <3>1 DEF TypeOK
    <3>3. Runtime'
      BY <1>3, <1>4, <2>1 DEF Runtime, Waits
    <3> QED
      BY <1>3, <1>4, <3>1, <3>2, <3>3
  <2> QED
    BY <1>4, <1>5, <2>1, <2>3, QuietKeeps
<1>7. CASE ready = 0
  <2>1. PICK captured \in BOOLEAN :
          Suspend(w, f, "WAITING_FOR_FSEMA", captured, TRUE, "fsema", "fwait")
    BY <1>7 DEF FutureWaits
  <2>2. fsemaFt' = [fsemaFt EXCEPT ![w] = f] /\ ready' = ready
    BY <1>7 DEF FutureWaits
  <2>3. /\ status' \in [Future -> Status] /\ suspended_lw' \in [Future -> BOOLEAN]
        /\ cur' \in [Worker -> 0..N] /\ wpc' \in [Worker -> {"idle", "run", "touch", "wait", "fwait", "fsema"}]
        /\ can_continue' \in [Future -> Worker \cup {NoWorker}]
        /\ waiting_lwc' \in Seq(Future) /\ want_lw' \in [Future -> BOOLEAN]
        /\ \A g : Has(waiting_lwc, g) => Has(waiting_lwc', g)
        /\ ~captured => Has(waiting_lwc', f) /\ want_lw'[f]
        /\ \A g \in Future \ {f} : want_lw'[g] = want_lw[g]
        /\ captured => want_lw'[f] = want_lw[f]
    <3>1. "WAITING_FOR_FSEMA" \in Status
      BY DEF Status
    <3>2. PICK st \in Status, insist \in BOOLEAN, free \in {"idle", "fsema"}, blocked \in {"wait", "fwait"} :
            insist /\ Suspend(w, f, st, captured, insist, free, blocked)
      BY <2>1, <3>1
    <3>3. /\ status' \in [Future -> Status] /\ suspended_lw' \in [Future -> BOOLEAN]
          /\ cur' \in [Worker -> 0..N] /\ wpc' \in [Worker -> {"idle", "run", "touch", "wait", "fwait", "fsema"}]
          /\ can_continue' \in [Future -> Worker \cup {NoWorker}]
          /\ waiting_lwc' \in Seq(Future) /\ want_lw' \in [Future -> BOOLEAN]
          /\ \A g : Has(waiting_lwc, g) => Has(waiting_lwc', g)
          /\ ~captured /\ insist => Has(waiting_lwc', f) /\ want_lw'[f]
          /\ \A g \in Future \ {f} : want_lw'[g] = want_lw[g]
          /\ captured \/ ~insist => want_lw'[f] = want_lw[f]
      <4>1. TypeOK
        BY <1>3
      <4>2. Suspend(w, f, st, captured, insist, free, blocked)
        BY <3>2
      <4> QED
        BY <4>1, <4>2, SuspendTypes
    <3> QED
      BY <3>2, <3>3
  <2>4. /\ fsemaFt' \in [Worker -> 0..N] /\ fsemaFt'[w] = f /\ \A x \in Worker \ {w} : fsemaFt'[x] = fsemaFt[x]
    BY <1>2, <1>3, <2>2 DEF TypeOK
  <2>5. TypeOK'
    BY <1>3, <1>4, <2>2, <2>3, <2>4 DEF TypeOK
  <2>6. /\ status'[f] = "WAITING_FOR_FSEMA" /\ suspended_lw'[f] = captured
        /\ can_continue'[f] = IF captured THEN NoWorker ELSE w
        /\ cur'[w] = IF captured THEN NoFuture ELSE f
        /\ wpc'[w] = IF captured THEN "fsema" ELSE "fwait"
    BY <1>2, <1>3, <2>1 DEF Suspend, TypeOK
  <2>7. ASSUME NEW g \in Future \ {f}
        PROVE  SameFuture(g) /\ status'[g] = status[g]
    <3>1. status'[g] = status[g] /\ suspended_lw'[g] = suspended_lw[g] /\ can_continue'[g] = can_continue[g]
      BY <1>3, <2>1 DEF Suspend, TypeOK
    <3> QED
      BY <1>4, <2>3, <3>1 DEF SameFuture, SameHolders
  <2>8. ASSUME NEW x \in Worker \ {w} PROVE SamePlace(x)
    BY <1>3, <1>4, <2>1, <2>4 DEF Suspend, TypeOK, SamePlace
  <2>9. Beside(f, w, {})
    BY <1>1, <1>2, <1>4, <2>3, <2>4, <2>6, <2>7, <2>8 DEF Beside
  <2>10. FutureOK(f)' /\ WorkerOK(w)'
    <3>1. ~Body(stack, f)' /\ ~Handled(f)' /\ ~Has(line, f)' /\ (prim'[f] = "touch" => target'[f] # NoFuture)
      BY <1>2, <1>4 DEF Handled
    <3>2. CASE captured
      <4>1. /\ suspended_lw'[f] /\ can_continue'[f] = NoWorker /\ cur'[w] = NoFuture /\ wpc'[w] = "fsema"
        BY <2>6, <3>2
      <4>2. ~want_lw'[f]
        BY <1>2, <2>3, <3>2
      <4>3. FutureOK(f)'
        BY <2>4, <2>6, <3>1, <4>1, <4>2 DEF FutureOK
      <4>4. WorkerOK(w)'
        BY <1>2, <1>4, <2>4, <2>6, <4>1 DEF WorkerOK
      <4> QED
        BY <4>3, <4>4
    <3>3. CASE ~captured
      <4>1. /\ ~suspended_lw'[f] /\ can_continue'[f] = w /\ cur'[w] = f /\ wpc'[w] = "fwait"
        BY <2>6, <3>3
      <4>2. Waits(w, f)' /\ Blocked(w, f)' /\ Blocked(w, cur[w])'
        BY <1>2, <1>4, <4>1 DEF Waits, Blocked
      <4>3. Waits(can_continue[f], f)' /\ sema'[can_continue'[f]] = 0
        BY <1>2, <1>4, <4>1 DEF Waits
      <4>4. FutureOK(f)'
        BY <2>4, <2>6, <3>1, <4>1, <4>2, <4>3 DEF FutureOK
      <4>5. want_lw'[f] /\ Has(waiting_lwc, cur[w])'
        BY <2>3, <3>3, <4>1
      <4>6. WorkerOK(w)'
        BY <1>2, <1>4, <2>4, <2>6, <4>1, <4>2, <4>5 DEF WorkerOK
      <4> QED
        BY <4>4, <4>6
    <3> QED
      BY <3>2, <3>3
  <2>11. PendingQueue'
    <3>1. \A g \in Future : status'[g] = "PENDING" <=> status[g] = "PENDING"
      BY <1>2, <2>6, <2>7
    <3> QED
      BY <1>3, <1>4, <3>1 DEF PendingQueue
  <2>12. Runtime'
    BY <1>2, <1>3, <1>4, <2>9, RuntimeKeeps DEF Runtime
  <2> QED
    BY <1>2, <1>3, <1>4, <1>5, <1>7, <2>2, <2>5, <2>9, <2>10, <2>11, <2>12, StepKeeps
<1> QED
  BY <1>6, <1>7

\* A future thread posts.
LEMMA FuturePostsStep ==
  ASSUME IInv, NEW w \in Worker, NEW f \in Future, FuturePosts(w, f)
  PROVE  IInv'
<1>1. Post /\ UNCHANGED <<futVars, listVars, alive, workerVars, sema, rpc, checkVars, stack>>
  BY DEF FuturePosts
<1> QED
  BY <1>1, PostKeeps

\* A future that its future thread is to put in line is held by nobody else.
LEMMA Lining ==
  ASSUME IInv, NEW w \in Worker, NEW f \in Future, fsemaFt[w] = f, cur[w] = NoFuture
  PROVE  /\ f \in 0..N /\ f # NoFuture /\ status[f] = "WAITING_FOR_FSEMA" /\ suspended_lw[f]
         /\ can_continue[f] = NoWorker /\ ~want_lw[f] /\ ~Handled(f) /\ ~Body(stack, f) /\ ~Has(line, f)
         /\ (prim[f] = "touch" => target[f] # NoFuture)
         /\ \A x \in Worker : cur[x] # f
         /\ \A x \in Worker \ {w} : fsemaFt[x] # f
         /\ (rpc = "capture" => job # f)
<1>1. TypeOK /\ Unique /\ Runtime /\ WorkerOK(w) /\ FutureOK(f) /\ \A x \in Worker : WorkerOK(x)
  BY Parts
<1>2. f # NoFuture /\ f \in 0..N
  BY Numbers
<1>3. status[f] = "WAITING_FOR_FSEMA" /\ wpc[w] \in {"fwait", "fsema"}
  BY <1>1, Holder
<1>4. suspended_lw[f]
  BY <1>1, <1>3 DEF WorkerOK
<1>5. \A x \in Worker : cur[x] # f
  BY <1>1, <1>4, Holder
<1>6. \A x \in Worker \ {w} : fsemaFt[x] # f
  BY <1>1, <1>2 DEF Unique
<1>7. can_continue[f] \in Worker \cup {NoWorker}
  BY Parts
<1>8. can_continue[f] = NoWorker /\ ~want_lw[f]
  BY <1>1, <1>5, <1>7 DEF FutureOK, Waits
<1>9. ~Handled(f) /\ ~Body(stack, f) /\ ~Has(line, f) /\ (prim[f] = "touch" => target[f] # NoFuture)
  BY <1>1, <1>3 DEF FutureOK
<1>10. rpc = "capture" => job # f
  BY <1>1, <1>5 DEF Runtime, Waits, TypeOK
<1> QED
  BY <1>2, <1>3, <1>4, <1>5, <1>6, <1>8, <1>9, <1>10

\* The runtime thread has captured the continuation of a future in fsemaphore-wait.
LEMMA FutureCapturedStep ==
  ASSUME IInv, NEW w \in Worker, FutureCaptured(w)
  PROVE  IInv'
<1>1. /\ TypeOK /\ PendingQueue /\ WorkerOK(w) /\ Stacked /\ Distinct(line) /\ (ready > 0 => line = <<>>)
      /\ Runtime /\ sema[w] \in 0..1 /\ fsemaFt[w] \in 0..N
  BY Parts
<1>2. wpc[w] = "fwait" /\ sema[w] > 0
  BY DEF FutureCaptured, Stands
<1>3. sema[w] = 1 /\ cur[w] = NoFuture /\ fsemaFt[w] # NoFuture
  BY <1>1, <1>2 DEF WorkerOK, Blocked
<1>4. PICK f \in Future : fsemaFt[w] = f
  BY <1>1, <1>3, Numbers
<1>5. /\ f \in 0..N /\ f # NoFuture /\ status[f] = "WAITING_FOR_FSEMA" /\ suspended_lw[f]
      /\ can_continue[f] = NoWorker /\ ~want_lw[f] /\ ~Handled(f) /\ ~Body(stack, f) /\ ~Has(line, f)
      /\ (prim[f] = "touch" => target[f] # NoFuture)
      /\ \A x \in Worker : cur[x] # f
      /\ \A x \in Worker \ {w} : fsemaFt[x] # f
      /\ (rpc = "capture" => job # f)
  BY <1>3, <1>4, Lining
<1>6. withheld # w
  BY <1>1, <1>3, FuturesAssumption DEF Runtime
<1>7. /\ sema' = [sema EXCEPT ![w] = 0] /\ wpc' = [wpc EXCEPT ![w] = "fsema"]
      /\ UNCHANGED <<status, queue, pending, futVars, listVars, alive, fsemaVars, cur, fsemaFt, rpc,
                     checkVars, stack>>
  BY <1>3 DEF FutureCaptured
<1>8. /\ status' = status /\ queue' = queue /\ pending' = pending /\ suspended_lw' = suspended_lw
      /\ want_lw' = want_lw /\ can_continue' = can_continue
      /\ prim' = prim /\ target' = target /\ in_specific' = in_specific /\ no_retval' = no_retval
      /\ touching' = touching /\ waiting_atomic' = waiting_atomic /\ waiting_touch' = waiting_touch
      /\ waiting_lwc' = waiting_lwc /\ alive' = alive /\ ready' = ready /\ line' = line
      /\ cur' = cur /\ fsemaFt' = fsemaFt
      /\ rpc' = rpc /\ job' = job /\ other' = other /\ withheld' = withheld /\ stack' = stack
  BY <1>7 DEF futVars, listVars, fsemaVars, checkVars
<1>9. /\ wpc' \in [Worker -> {"idle", "run", "touch", "wait", "fwait", "fsema"}] /\ sema' \in [Worker -> 0..1]
      /\ wpc'[w] = "fsema" /\ sema'[w] = 0
      /\ \A x \in Worker \ {w} : wpc'[x] = wpc[x] /\ sema'[x] = sema[x]
  <2>1. wpc \in [Worker -> {"idle", "run", "touch", "wait", "fwait", "fsema"}] /\ sema \in [Worker -> 0..1]
    BY <1>1 DEF TypeOK
  <2>2. /\ wpc' \in [Worker -> {"idle", "run", "touch", "wait", "fwait", "fsema"}] /\ wpc'[w] = "fsema"
        /\ \A x \in Worker \ {w} : wpc'[x] = wpc[x]
    BY <1>7, <2>1
  <2>3. sema' \in [Worker -> 0..1] /\ sema'[w] = 0 /\ \A x \in Worker \ {w} : sema'[x] = sema[x]
    BY <1>7, <2>1
  <2> QED
    BY <2>2, <2>3
<1>10. TypeOK'
  BY <1>1, <1>8, <1>9 DEF TypeOK
<1>11. Beside(f, w, {})
  <2>1. \A h \in Future \ {f} : SameFuture(h)
    BY <1>8 DEF SameFuture, SameHolders
  <2>2. \A x \in Worker \ {w} : SamePlace(x)
    BY <1>8, <1>9 DEF SamePlace
  <2> QED
    BY <1>3, <1>4, <1>8, <1>9, <2>1, <2>2 DEF Beside
<1>12. FutureOK(f)'
  <2>1. ~Body(stack, f)' /\ ~Handled(f)' /\ ~Has(line, f)'
    BY <1>5, <1>8 DEF Handled
  <2> QED
    BY <1>4, <1>5, <1>8, <2>1 DEF FutureOK
<1>13. WorkerOK(w)'
  BY <1>3, <1>4, <1>5, <1>8, <1>9 DEF WorkerOK
<1>14. Runtime'
  BY <1>1, <1>5, <1>6, <1>8, <1>11, RuntimeKeeps DEF Runtime
<1>15. Stacked' /\ PendingQueue'
  BY <1>1, <1>8 DEF Stacked, PendingQueue
<1> QED
  BY <1>1, <1>3, <1>4, <1>5, <1>8, <1>10, <1>11, <1>12, <1>13, <1>14, <1>15, StepKeeps

\* A future thread puts a future in line, or in the queue if the semaphore is
\* ready by now.
LEMMA FutureInLineStep ==
  ASSUME IInv, NEW w \in Worker, FutureInLine(w)
  PROVE  IInv'
<1>1. /\ TypeOK /\ PendingQueue /\ WorkerOK(w) /\ Stacked /\ Distinct(line) /\ (ready > 0 => line = <<>>)
      /\ Runtime /\ fsemaFt[w] \in 0..N
  BY Parts
<1>2. wpc[w] = "fsema"
  BY DEF FutureInLine, Stands
<1>3. sema[w] = 0 /\ cur[w] = NoFuture /\ fsemaFt[w] # NoFuture
  BY <1>1, <1>2 DEF WorkerOK
<1>4. PICK f \in Future : fsemaFt[w] = f
  BY <1>1, <1>3, Numbers
<1>5. /\ f \in 0..N /\ f # NoFuture /\ status[f] = "WAITING_FOR_FSEMA" /\ suspended_lw[f]
      /\ can_continue[f] = NoWorker /\ ~want_lw[f] /\ ~Handled(f) /\ ~Body(stack, f) /\ ~Has(line, f)
      /\ (prim[f] = "touch" => target[f] # NoFuture)
      /\ \A x \in Worker : cur[x] # f
      /\ \A x \in Worker \ {w} : fsemaFt[x] # f
      /\ (rpc = "capture" => job # f)
  BY <1>3, <1>4, Lining
<1>6. withheld # w
  BY <1>1, <1>2, FuturesAssumption DEF Runtime, Waits
<1>7. /\ wpc' = [wpc EXCEPT ![w] = "idle"] /\ fsemaFt' = [fsemaFt EXCEPT ![w] = NoFuture]
      /\ suspended_lw' = suspended_lw /\ want_lw' = want_lw /\ can_continue' = can_continue
      /\ prim' = prim /\ target' = target /\ in_specific' = in_specific /\ no_retval' = no_retval
      /\ touching' = touching /\ waiting_atomic' = waiting_atomic /\ waiting_touch' = waiting_touch
      /\ waiting_lwc' = waiting_lwc /\ alive' = alive /\ cur' = cur /\ sema' = sema
      /\ rpc' = rpc /\ job' = job /\ other' = other /\ withheld' = withheld /\ stack' = stack
  BY DEF FutureInLine, futVars, listVars, checkVars
<1>8. /\ wpc' \in [Worker -> {"idle", "run", "touch", "wait", "fwait", "fsema"}] /\ fsemaFt' \in [Worker -> 0..N]
      /\ wpc'[w] = "idle" /\ fsemaFt'[w] = NoFuture
      /\ \A x \in Worker \ {w} : wpc'[x] = wpc[x] /\ fsemaFt'[x] = fsemaFt[x]
  BY <1>1, <1>7, Numbers DEF TypeOK
<1>9. \A x \in Worker : fsemaFt'[x] # f
  BY <1>5, <1>8
<1>10. ready \in Int /\ line \in Seq(Future) /\ status \in [Future -> Status]
  BY <1>1 DEF TypeOK
<1>11. /\ status' \in [Future -> Status] /\ queue' \in Seq(Future) /\ pending' \in Nat /\ PendingQueue'
       /\ line' \in Seq(Future) /\ ready' \in Int /\ Distinct(line') /\ (ready' > 0 => line' = <<>>)
       /\ \A h \in Future \ {f} : status'[h] = status[h] /\ (Has(line', h) <=> Has(line, h))
       /\ \/ status'[f] \in {"PENDING", "SUSPENDED"} /\ ~Has(line', f)
          \/ status'[f] = "WAITING_FOR_FSEMA" /\ Has(line', f)
  <2>1. CASE ready # 0
    <3>1. ready' = ready - 1 /\ Requeue(<<f>>, status) /\ line' = line
      BY <1>4, <2>1 DEF FutureInLine
    <3>2. <<f>> \in Seq(Future) /\ Distinct(<<f>>) /\ \A x : Has(<<f>>, x) <=> x = f
      BY OneFacts
    <3>3. PICK s \in Seq(Future) : s = <<f>>
      BY <3>2
    <3>4. Distinct(s) /\ (\A x : Has(s, x) <=> x = f) /\ Requeue(s, status)
      BY <3>1, <3>2, <3>3
    <3>5. \A h \in Future : Has(s, h) => status[h] # "PENDING"
      BY <1>5, <3>4
    <3>6. /\ status' \in [Future -> Status] /\ queue' \in Seq(Future) /\ pending' \in Nat
          /\ PendingQueue'
          /\ \A h \in Future : IF Has(s, h) THEN status'[h] \in {"PENDING", "SUSPENDED"} ELSE status'[h] = status[h]
      BY <1>1, <1>10, <3>4, <3>5, Requeues
    <3>7. ready' \in Int /\ (ready' > 0 => ready > 0)
      BY <1>10, <3>1
    <3> QED
      BY <1>1, <1>5, <1>10, <3>1, <3>4, <3>6, <3>7
  <2>2. CASE ready = 0
    <3>1. line' = Append(line, f) /\ ready' = ready /\ status' = status /\ queue' = queue /\ pending' = pending
      BY <1>4, <2>2 DEF FutureInLine
    <3>2. line' \in Seq(Future) /\ Distinct(line') /\ \A h : Has(line', h) <=> Has(line, h) \/ h = f
      BY <1>1, <1>5, <1>10, <3>1, AppendFacts
    <3>3. queue' \in Seq(Future) /\ pending' \in Nat
      BY <1>1, <3>1 DEF TypeOK
    <3>4. PendingQueue'
      BY <1>1, <3>1 DEF PendingQueue
    <3> QED
      BY <1>5, <1>10, <2>2, <3>1, <3>2, <3>3, <3>4
  <2> QED
    BY <2>1, <2>2
<1>12. TypeOK'
  BY <1>1, <1>7, <1>8, <1>11 DEF TypeOK
<1>13. Beside(f, w, {})
  <2>1. \A h \in Future \ {f} : SameFuture(h)
    BY <1>7, <1>11 DEF SameFuture, SameHolders
  <2>2. \A x \in Worker \ {w} : SamePlace(x)
    BY <1>7, <1>8 DEF SamePlace
  <2> QED
    BY <1>3, <1>4, <1>7, <1>8, <2>1, <2>2 DEF Beside
<1>14. FutureOK(f)'
  <2>1. ~Body(stack, f)' /\ ~Handled(f)'
    BY <1>5, <1>7 DEF Handled
  <2>2. CASE status'[f] \in {"PENDING", "SUSPENDED"} /\ ~Has(line', f)
    BY <1>5, <1>7, <2>1, <2>2 DEF FutureOK
  <2>3. CASE status'[f] = "WAITING_FOR_FSEMA" /\ Has(line', f)
    BY <1>5, <1>7, <1>9, <2>1, <2>3 DEF FutureOK
  <2> QED
    BY <1>11, <2>2, <2>3
<1>15. WorkerOK(w)'
  BY <1>3, <1>7, <1>8 DEF WorkerOK
<1>16. Runtime'
  BY <1>1, <1>5, <1>6, <1>7, <1>13, RuntimeKeeps DEF Runtime
<1>17. Stacked'
  BY <1>1, <1>7 DEF Stacked
<1> QED
  BY <1>3, <1>4, <1>5, <1>7, <1>8, <1>11, <1>12, <1>13, <1>14, <1>15, <1>16, <1>17, StepKeeps

----------------------------------------------------------------------------
(* The steps of the runtime thread.                                        *)

Plain == {"run", "raise", "atomic", "touch", "lwc"}

\* The stack, and what the runtime thread has when it works for no future.
LEMMA RuntimeFacts ==
  ASSUME IInv
  PROVE  /\ stack \in Seq(FrameSet) /\ WellStacked(stack)
         /\ rpc = "raise" => \A i \in DOMAIN stack : stack[i].k \notin Blocking
         /\ rpc \in Plain => job = NoFuture /\ withheld = NoWorker
         /\ ready \in Int /\ TypeOK /\ PendingQueue /\ (ready > 0 => line = <<>>) /\ Distinct(line)
         /\ stack # <<>> => 1 \in DOMAIN stack /\ stack[1] \in FrameSet
<1>1. TypeOK /\ Stacked /\ Runtime /\ PendingQueue /\ (ready > 0 => line = <<>>) /\ Distinct(line)
  BY Parts
<1>2. stack \in Seq(FrameSet) /\ ready \in Int
  BY <1>1 DEF TypeOK, FrameSet, Kinds
<1>3. stack # <<>> => 1 \in DOMAIN stack /\ stack[1] \in FrameSet
  BY <1>2, EmptyFacts
<1> QED
  BY <1>1, <1>2, <1>3 DEF Stacked, Runtime, Plain

\* A frame is a frame.
LEMMA FrameFacts ==
  ASSUME NEW k \in Kinds, NEW f \in 0..N
  PROVE  Frame(k, f) \in FrameSet /\ Frame(k, f).k = k /\ Frame(k, f).f = f
BY DEF Frame, FrameSet

\* A step of the runtime thread that leaves the futures alone.
LEMMA QuietRuntime ==
  ASSUME IInv, TypeOK', rpc \in Plain, rpc' \in Plain,
         UNCHANGED <<status, queue, pending, suspended_lw, want_lw, can_continue, prim, target, line,
                     wpc, cur, fsemaFt, sema, withheld, job, other>>,
         \A f \in Future : Has(waiting_lwc, f) /\ want_lw[f] => Has(waiting_lwc', f),
         WellStacked(stack'), rpc' = "raise" => \A i \in DOMAIN stack' : stack'[i].k \notin Blocking,
         \A f : (Body(stack', f) <=> Body(stack, f)) /\ (Call(stack', f) <=> Call(stack, f)),
         ready' > 0 => line' = <<>>
  PROVE  IInv'
<1>1. job = NoFuture /\ withheld = NoWorker
  BY RuntimeFacts
<1>2. Runtime'
  BY <1>1 DEF Runtime, Plain
<1>3. Stacked'
  BY DEF Stacked, Plain
<1>4. {rpc, rpc'} \cap {"rtatomic", "capture"} = {}
  BY DEF Plain
<1> QED
  BY <1>2, <1>3, <1>4, QuietKeeps

\* The program, or the body of a future, makes a future.
LEMMA RuntimeMakesFutureStep ==
  ASSUME IInv, NEW f \in 0..N, NEW g \in Future, RuntimeMakesFuture(f, g)
  PROVE  IInv'
<1>1. MakeFuture(g) /\ UNCHANGED <<futVars, listVars, alive, fsemaVars, workerVars, sema, rpc, checkVars, stack>>
  BY DEF RuntimeMakesFuture
<1> QED
  BY <1>1, MakeKeeps

\* It posts.
LEMMA RuntimePostsStep ==
  ASSUME IInv, NEW f \in 0..N, RuntimePosts(f)
  PROVE  IInv'
<1>1. Post /\ UNCHANGED <<futVars, listVars, alive, workerVars, sema, rpc, checkVars, stack>>
  BY DEF RuntimePosts
<1> QED
  BY <1>1, PostKeeps

\* The program, or the body of a future, pushes a frame.
LEMMA ProgramPushes ==
  ASSUME IInv, NEW f \in 0..N, InProgram(f), NEW k \in {"touch", "fsema"}, NEW g \in 0..N,
         k = "touch" => g # NoFuture, stack' = <<Frame(k, g)>> \o stack
  PROVE  /\ rpc = "run" /\ stack' \in Seq(FrameSet) /\ WellStacked(stack')
         /\ \A h : (Body(stack', h) <=> Body(stack, h)) /\ (Call(stack', h) <=> Call(stack, h))
<1>1. stack \in Seq(FrameSet) /\ WellStacked(stack)
  BY RuntimeFacts
<1>2. rpc = "run" /\ (stack # <<>> => stack[1].k = "body")
  BY DEF InProgram, Top, Frame
<1>3. PICK e \in FrameSet : e = Frame(k, g) /\ e.k = k /\ e.f = g
  BY FrameFacts DEF Kinds
<1>4. /\ stack # <<>> => stack[1].k \notin Blocking
      /\ e.k \notin Blocking => e.f # NoFuture
      /\ e.k \notin Busy
  BY <1>2, <1>3 DEF Blocking, Busy
<1>5. /\ <<e>> \o stack \in Seq(FrameSet) /\ WellStacked(<<e>> \o stack)
      /\ \A h : Body(<<e>> \o stack, h) <=> Body(stack, h) \/ (e.k = "body" /\ e.f = h)
      /\ \A h : Call(<<e>> \o stack, h) <=> Call(stack, h) \/ (e.k \in Calling /\ e.f = h)
  BY <1>1, <1>4, PushFacts
<1>6. e.k # "body" /\ e.k \notin Calling
  BY <1>3 DEF Calling
<1> QED
  BY <1>2, <1>3, <1>5, <1>6

\* It touches a future.
LEMMA RuntimeTouchesStep ==
  ASSUME IInv, NEW f \in 0..N, NEW g \in Future, RuntimeTouches(f, g)
  PROVE  IInv'
<1>1. /\ InProgram(f) /\ stack' = <<Frame("touch", g)>> \o stack
      /\ UNCHANGED <<status, queue, pending, futVars, listVars, alive, fsemaVars, workerVars, sema,
                     rpc, checkVars>>
  BY DEF RuntimeTouches
<1>2. /\ rpc = "run" /\ stack' \in Seq(FrameSet) /\ WellStacked(stack')
      /\ \A h : (Body(stack', h) <=> Body(stack, h)) /\ (Call(stack', h) <=> Call(stack, h))
  BY <1>1, ProgramPushes, Numbers
<1>3. TypeOK /\ (ready > 0 => line = <<>>)
  BY Parts
<1>4. TypeOK'
  BY <1>1, <1>2, <1>3 DEF TypeOK, FrameSet, Kinds, futVars, listVars, fsemaVars, workerVars, checkVars
<1> QED
  BY <1>1, <1>2, <1>3, <1>4, QuietRuntime DEF Plain, futVars, listVars, fsemaVars, workerVars, checkVars

\* It waits for a future semaphore.
LEMMA RuntimeWaitsStep ==
  ASSUME IInv, NEW f \in 0..N, RuntimeWaits(f)
  PROVE  IInv'
<1>1. /\ InProgram(f)
      /\ IF ready # 0 THEN ready' = ready - 1 /\ UNCHANGED stack
                      ELSE stack' = <<Frame("fsema", NoFuture)>> \o stack /\ UNCHANGED ready
      /\ UNCHANGED <<status, queue, pending, futVars, listVars, alive, line, workerVars, sema,
                     rpc, checkVars>>
  BY DEF RuntimeWaits
<1>2. /\ TypeOK /\ (ready > 0 => line = <<>>) /\ ready \in Int
      /\ stack \in Seq(FrameSet) /\ WellStacked(stack)
  BY RuntimeFacts
<1>3. /\ rpc = "run" /\ stack' \in Seq(FrameSet) /\ WellStacked(stack')
      /\ \A h : (Body(stack', h) <=> Body(stack, h)) /\ (Call(stack', h) <=> Call(stack, h))
      /\ ready' \in Int /\ (ready' > 0 => ready > 0)
  <2>1. CASE ready # 0
    <3>1. stack' = stack /\ ready' = ready - 1
      BY <1>1, <2>1
    <3>2. ready' \in Int /\ (ready' > 0 => ready > 0)
      BY <1>2, <3>1
    <3>3. rpc = "run"
      BY <1>1 DEF InProgram
    <3> QED
      BY <1>2, <3>1, <3>2, <3>3
  <2>2. CASE ready = 0
    <3>1. stack' = <<Frame("fsema", NoFuture)>> \o stack /\ ready' = ready
      BY <1>1, <2>2
    <3>2. /\ rpc = "run" /\ stack' \in Seq(FrameSet) /\ WellStacked(stack')
          /\ \A h : (Body(stack', h) <=> Body(stack, h)) /\ (Call(stack', h) <=> Call(stack, h))
      BY <1>1, <3>1, ProgramPushes, Numbers
    <3> QED
      BY <1>2, <3>1, <3>2
  <2> QED
    BY <2>1, <2>2
<1>4. TypeOK'
  BY <1>1, <1>2, <1>3 DEF TypeOK, FrameSet, Kinds, futVars, listVars, workerVars, checkVars
<1> QED
  BY <1>1, <1>2, <1>3, <1>4, QuietRuntime DEF Plain, futVars, listVars, workerVars, checkVars

\* The innermost frame is one of the runtime thread's calls.
LEMMA TopFacts ==
  ASSUME IInv, NEW k \in Kinds, NEW f \in 0..N, Top(k, f)
  PROVE  /\ rpc = "run" /\ stack # <<>> /\ stack[1].k = k /\ stack[1].f = f
         /\ job = NoFuture /\ withheld = NoWorker
         /\ stack \in Seq(FrameSet) /\ WellStacked(stack)
         /\ Tail(stack) \in Seq(FrameSet) /\ WellStacked(Tail(stack))
         /\ \A i \in DOMAIN Tail(stack) : Tail(stack)[i].k \notin Blocking
         /\ k \in Busy => Tail(stack) # <<>> /\ Tail(stack)[1].k = "touch"
         /\ \A h : Body(Tail(stack), h) <=> Body(stack, h) /\ ~(k = "body" /\ f = h)
         /\ \A h : Call(Tail(stack), h) <=> Call(stack, h) /\ ~(k \in Calling /\ f = h)
         /\ k = "body" => Body(stack, f)
         /\ k \in Calling => Call(stack, f)
         /\ k \notin Blocking => f # NoFuture
<1>1. rpc = "run" /\ stack # <<>> /\ stack[1].k = k /\ stack[1].f = f
  BY FrameFacts DEF Top
<1>2. stack \in Seq(FrameSet) /\ WellStacked(stack) /\ job = NoFuture /\ withheld = NoWorker
  BY <1>1, RuntimeFacts DEF Plain
<1> QED
  BY <1>1, <1>2, PopFacts

\* fsemaphore_ready.
LEMMA FsemaphoreReadyStep ==
  ASSUME IInv, FsemaphoreReady
  PROVE  IInv'
<1>1. /\ Top("fsema", NoFuture)
      /\ IF ready # 0 THEN stack' = <<Frame("ready", NoFuture)>> \o Tail(stack) /\ rpc' = rpc
                      ELSE rpc' = "atomic" /\ stack' = stack
      /\ UNCHANGED <<status, queue, pending, futVars, listVars, alive, fsemaVars, workerVars, sema, checkVars>>
  BY DEF FsemaphoreReady
<1>2. TypeOK /\ (ready > 0 => line = <<>>)
  BY Parts
<1>3. /\ rpc = "run" /\ stack # <<>> /\ stack \in Seq(FrameSet) /\ WellStacked(stack)
      /\ Tail(stack) \in Seq(FrameSet) /\ WellStacked(Tail(stack))
      /\ \A i \in DOMAIN Tail(stack) : Tail(stack)[i].k \notin Blocking
      /\ \A h : Body(Tail(stack), h) <=> Body(stack, h)
      /\ \A h : Call(Tail(stack), h) <=> Call(stack, h)
  <2>1. "fsema" \in Kinds /\ "fsema" \notin Calling /\ NoFuture \in 0..N
    BY Numbers DEF Kinds, Calling
  <2> QED
    BY <1>1, <2>1, TopFacts
<1>4. /\ stack' \in Seq(FrameSet) /\ WellStacked(stack')
      /\ \A h : (Body(stack', h) <=> Body(stack, h)) /\ (Call(stack', h) <=> Call(stack, h))
  <2>1. CASE ready # 0
    <3>1. PICK e \in FrameSet : e = Frame("ready", NoFuture) /\ e.k = "ready"
      BY FrameFacts, Numbers DEF Kinds
    <3>2. PICK s \in Seq(FrameSet) : s = Tail(stack)
      BY <1>3
    <3>3. s # <<>> => s[1].k \notin Blocking
      BY <1>3, <3>2, EmptyFacts
    <3>4. e.k \in Blocking /\ e.k \notin Busy /\ e.k # "body" /\ e.k \notin Calling
      BY <3>1 DEF Blocking, Busy, Calling
    <3>5. /\ <<e>> \o s \in Seq(FrameSet) /\ WellStacked(<<e>> \o s)
          /\ \A h : Body(<<e>> \o s, h) <=> Body(s, h) \/ (e.k = "body" /\ e.f = h)
          /\ \A h : Call(<<e>> \o s, h) <=> Call(s, h) \/ (e.k \in Calling /\ e.f = h)
      BY <1>3, <3>2, <3>3, <3>4, PushFacts
    <3> QED
      BY <1>1, <1>3, <2>1, <3>1, <3>2, <3>4, <3>5
  <2>2. CASE ready = 0
    BY <1>1, <1>3, <2>2
  <2> QED
    BY <2>1, <2>2
<1>5. rpc' \in {"run", "atomic"}
  BY <1>1, <1>3
<1>6. TypeOK'
  BY <1>1, <1>2, <1>4, <1>5 DEF TypeOK, FrameSet, Kinds, futVars, listVars, fsemaVars, workerVars, checkVars
<1> QED
  BY <1>1, <1>2, <1>3, <1>4, <1>5, <1>6, QuietRuntime DEF Plain, futVars, listVars, fsemaVars, workerVars, checkVars

\* ... and the count is taken.
LEMMA TakeReadyStep ==
  ASSUME IInv, TakeReady
  PROVE  IInv'
<1>1. /\ Top("ready", NoFuture) /\ ready' = ready - 1 /\ stack' = Tail(stack)
      /\ UNCHANGED <<status, queue, pending, futVars, listVars, alive, line, workerVars, sema, rpc, checkVars>>
  BY DEF TakeReady
<1>2. TypeOK /\ (ready > 0 => line = <<>>) /\ ready \in Int
  BY RuntimeFacts
<1>3. /\ rpc = "run" /\ Tail(stack) \in Seq(FrameSet) /\ WellStacked(Tail(stack))
      /\ \A h : Body(Tail(stack), h) <=> Body(stack, h)
      /\ \A h : Call(Tail(stack), h) <=> Call(stack, h)
  <2>1. "ready" \in Kinds /\ "ready" \notin Calling /\ NoFuture \in 0..N
    BY Numbers DEF Kinds, Calling
  <2> QED
    BY <1>1, <2>1, TopFacts
<1>4. ready' \in Int /\ (ready' > 0 => ready > 0)
  BY <1>1, <1>2
<1>5. TypeOK'
  BY <1>1, <1>2, <1>3, <1>4 DEF TypeOK, FrameSet, Kinds, futVars, listVars, workerVars, checkVars
<1> QED
  BY <1>1, <1>2, <1>3, <1>4, <1>5, QuietRuntime DEF Plain, futVars, listVars, workerVars, checkVars

\* The custodian is shut down.
LEMMA ShutdownStep ==
  ASSUME IInv, Shutdown
  PROVE  IInv'
<1>1. /\ rpc = "run" /\ alive' = FALSE
      /\ UNCHANGED <<status, queue, pending, futVars, listVars, fsemaVars, workerVars, sema, rpc, checkVars, stack>>
  BY DEF Shutdown, InProgram
<1>2. TypeOK /\ (ready > 0 => line = <<>>) /\ WellStacked(stack)
  BY RuntimeFacts
<1>3. TypeOK'
  BY <1>1, <1>2 DEF TypeOK, futVars, listVars, fsemaVars, workerVars, checkVars
<1> QED
  BY <1>1, <1>2, <1>3, QuietRuntime DEF Plain, futVars, listVars, fsemaVars, workerVars, checkVars

\* The program is out of fuel.
LEMMA YieldStep ==
  ASSUME IInv, Yield
  PROVE  IInv'
<1>1. /\ rpc = "run" /\ rpc' = "atomic"
      /\ UNCHANGED <<status, queue, pending, futVars, listVars, alive, fsemaVars, workerVars, sema, checkVars, stack>>
  BY DEF Yield, InProgram
<1>2. TypeOK /\ (ready > 0 => line = <<>>) /\ WellStacked(stack)
  BY RuntimeFacts
<1>3. TypeOK'
  BY <1>1, <1>2 DEF TypeOK, futVars, listVars, fsemaVars, workerVars, checkVars
<1> QED
  BY <1>1, <1>2, <1>3, QuietRuntime DEF Plain, futVars, listVars, fsemaVars, workerVars, checkVars

\* The body of a future, or a primitive, raises an exception.
LEMMA RaiseStep ==
  ASSUME IInv, NEW f \in Future, Raise(f)
  PROVE  IInv'
<1>1. /\ Top("body", f) \/ Top("prim", f)
      /\ rpc' = "raise"
      /\ UNCHANGED <<status, queue, pending, futVars, listVars, alive, fsemaVars, workerVars, sema, checkVars, stack>>
  BY DEF Raise
<1>2. TypeOK /\ (ready > 0 => line = <<>>) /\ WellStacked(stack)
  BY RuntimeFacts
<1>3. rpc = "run" /\ stack # <<>> /\ stack[1].k \in {"body", "prim"}
  BY <1>1 DEF Top, Frame
<1>4. \A i \in DOMAIN stack : stack[i].k \notin Blocking
  BY <1>2, <1>3 DEF WellStacked, Blocking
<1>5. TypeOK'
  BY <1>1, <1>2 DEF TypeOK, futVars, listVars, fsemaVars, workerVars, checkVars
<1> QED
  BY <1>1, <1>2, <1>3, <1>4, <1>5, QuietRuntime DEF Plain, futVars, listVars, fsemaVars, workerVars, checkVars

\* A sequence without an element.
LEMMA WithoutFacts ==
  ASSUME NEW S, NEW s \in Seq(S), NEW x, Distinct(s)
  PROVE  /\ Without(s, x) \in Seq(S) /\ Len(Without(s, x)) <= Len(s) /\ Distinct(Without(s, x))
         /\ \A y : Has(Without(s, x), y) <=> Has(s, y) /\ y # x
<1> DEFINE P == {i \in DOMAIN s : s[i] # x}
<1>1. Without(s, x) = At(s, P)
  BY DEF Without
<1>2. P \in SUBSET DOMAIN s
  OBVIOUS
<1>3. \A i, j \in P : s[i] = s[j] => i = j
  BY DEF Distinct
<1>4. \A y : (\E i \in P : s[i] = y) <=> Has(s, y) /\ y # x
  BY DEF Has
<1> HIDE DEF P
<1>5. /\ At(s, P) \in Seq(S) /\ Len(At(s, P)) <= Len(s)
      /\ \A y : Has(At(s, P), y) <=> \E i \in P : s[i] = y
      /\ (\A i, j \in P : s[i] = s[j] => i = j) => Distinct(At(s, P))
  BY <1>2, AtFacts
<1> QED
  BY <1>1, <1>3, <1>4, <1>5

\* general_touch of a future that nobody runs.
LEMMA RunInRuntimeStep ==
  ASSUME IInv, NEW f \in Future, Top("touch", f), RunInRuntime(f),
         UNCHANGED <<pending, can_continue, prim, target, in_specific, no_retval, listVars, alive,
                     fsemaVars, workerVars, sema, checkVars>>
  PROVE  IInv'
<1>1. /\ status[f] \in {"PENDING", "PENDING_OVERSIZE", "SUSPENDED"}
      /\ status' = [status EXCEPT ![f] = "RUNNING"] /\ queue' = Without(queue, f)
      /\ suspended_lw' = [suspended_lw EXCEPT ![f] = FALSE]
      /\ stack' = <<Frame("body", f)>> \o stack /\ rpc' \in {"run", "atomic"} /\ want_lw' = want_lw
  BY DEF RunInRuntime, MayYield
<1>2. /\ pending' = pending /\ can_continue' = can_continue /\ prim' = prim /\ target' = target
      /\ in_specific' = in_specific /\ no_retval' = no_retval /\ touching' = touching
      /\ waiting_atomic' = waiting_atomic /\ waiting_touch' = waiting_touch /\ waiting_lwc' = waiting_lwc
      /\ alive' = alive /\ ready' = ready /\ line' = line /\ wpc' = wpc /\ cur' = cur
      /\ fsemaFt' = fsemaFt /\ sema' = sema /\ job' = job /\ other' = other /\ withheld' = withheld
  BY DEF listVars, fsemaVars, workerVars, checkVars
<1>3. /\ TypeOK /\ PendingQueue /\ FutureOK(f) /\ f \in 0..N /\ f # NoFuture /\ Distinct(line)
      /\ ready > 0 => line = <<>>
  BY Parts, Numbers
<1>4. /\ can_continue[f] = NoWorker /\ ~want_lw[f]
      /\ \A w \in Worker : cur[w] # f /\ fsemaFt[w] # f
      /\ ~Body(stack, f) /\ ~Handled(f) /\ ~Has(line, f)
  BY <1>1, Unheld
<1>5. /\ rpc = "run" /\ stack # <<>> /\ stack[1].k = "touch" /\ job = NoFuture /\ withheld = NoWorker
      /\ stack \in Seq(FrameSet) /\ WellStacked(stack)
  <2>1. "touch" \in Kinds
    BY DEF Kinds
  <2> QED
    BY <1>3, <2>1, TopFacts
<1>6. /\ stack' \in Seq(FrameSet) /\ WellStacked(stack')
      /\ \A h : Body(stack', h) <=> Body(stack, h) \/ h = f
      /\ \A h : Call(stack', h) <=> Call(stack, h)
  <2>1. PICK e \in FrameSet : e = Frame("body", f) /\ e.k = "body" /\ e.f = f
    BY <1>3, FrameFacts DEF Kinds
  <2>2. stack[1].k \notin Blocking /\ e.k \notin Blocking /\ e.k \notin Calling
    BY <1>5, <2>1 DEF Blocking, Calling
  <2>3. ~Body(stack, e.f) /\ ~Call(stack, e.f) /\ e.f # NoFuture
    BY <1>3, <1>4, <2>1 DEF Handled
  <2>4. /\ <<e>> \o stack \in Seq(FrameSet) /\ WellStacked(<<e>> \o stack)
        /\ \A h : Body(<<e>> \o stack, h) <=> Body(stack, h) \/ (e.k = "body" /\ e.f = h)
        /\ \A h : Call(<<e>> \o stack, h) <=> Call(stack, h) \/ (e.k \in Calling /\ e.f = h)
    BY <1>5, <2>2, <2>3, PushFacts
  <2> QED
    BY <1>1, <2>1, <2>2, <2>4
<1>7. /\ queue' \in Seq(Future) /\ Len(queue') <= Len(queue) /\ Distinct(queue')
      /\ \A y : Has(queue', y) <=> Has(queue, y) /\ y # f
  <2>1. queue \in Seq(Future) /\ Distinct(queue)
    BY <1>3 DEF TypeOK, PendingQueue, Distinct
  <2> QED
    BY <1>1, <2>1, WithoutFacts
<1>8. status'[f] = "RUNNING" /\ ~suspended_lw'[f]
  BY <1>1, <1>3 DEF TypeOK
<1>9. \A g \in Future \ {f} : status'[g] = status[g] /\ suspended_lw'[g] = suspended_lw[g]
  BY <1>1, <1>3 DEF TypeOK
<1>10. status' \in [Future -> Status] /\ suspended_lw' \in [Future -> BOOLEAN]
  BY <1>1, <1>3 DEF TypeOK, Status
<1>11. TypeOK'
  BY <1>1, <1>2, <1>3, <1>6, <1>7, <1>10 DEF TypeOK, FrameSet, Kinds
<1>12. PendingQueue'
  <2>1. \A g \in Future : status'[g] = "PENDING" <=> Has(queue', g)
    BY <1>3, <1>7, <1>8, <1>9 DEF PendingQueue
  <2>2. pending' >= Len(queue')
    <3>1. pending \in Nat /\ Len(queue) \in Nat /\ Len(queue') \in Nat /\ pending >= Len(queue)
      BY <1>3, <1>7 DEF TypeOK, PendingQueue
    <3> QED
      BY <1>2, <1>7, <3>1
  <2> QED
    BY <1>7, <2>1, <2>2 DEF PendingQueue, Distinct
<1>13. Beside(f, NoWorker, {})
  <2>1. ASSUME NEW g \in Future \ {f} PROVE SameFuture(g)
    BY <1>1, <1>2, <1>5, <1>6, <1>9 DEF SameFuture, SameHolders
  <2>2. \A w \in Worker : SamePlace(w) /\ sema'[w] = sema[w]
    BY <1>2 DEF SamePlace
  <2> QED
    BY <1>2, <2>1, <2>2, FuturesAssumption DEF Beside
<1>14. FutureOK(f)'
  <2>1. ~Handled(f)'
    BY <1>1, <1>4, <1>6 DEF Handled
  <2>2. Body(stack, f)' /\ ~want_lw'[f] /\ can_continue'[f] = NoWorker /\ ~Has(line', f)
    BY <1>1, <1>2, <1>4, <1>6 DEF Body
  <2>3. prim'[f] = "touch" => target'[f] # NoFuture
    BY <1>2, <1>3 DEF FutureOK
  <2>4. \A w \in Worker : cur'[w] # f
    BY <1>2, <1>4
  <2> QED
    BY <1>8, <2>1, <2>2, <2>3, <2>4 DEF FutureOK
<1>15. Stacked' /\ Runtime'
  BY <1>1, <1>2, <1>5, <1>6 DEF Stacked, Runtime
<1>16. \A w \in Worker : w # NoWorker /\ ~(cur[w] = f \/ fsemaFt[w] = f)
  BY <1>4, FuturesAssumption
<1> QED
  BY <1>2, <1>3, <1>11, <1>12, <1>13, <1>14, <1>15, <1>16, StepKeeps, FuturesAssumption

\* The runtime thread begins to work for f, which waits.
LEMMA HandleKeeps ==
  ASSUME IInv, NEW f \in Future, TypeOK', status[f] = "WAITING_FOR_PRIM", rpc \in Plain,
         status' = [status EXCEPT ![f] = "HANDLING_PRIM"], want_lw' = [want_lw EXCEPT ![f] = FALSE],
         UNCHANGED <<queue, pending, suspended_lw, can_continue, prim, target, ready, line, wpc, cur,
                     fsemaFt, sema, other, withheld, waiting_lwc>>,
         Handled(f)', rpc' # "capture", rpc' = "rtatomic" => job' = f,
         \A h : Body(stack', h) <=> Body(stack, h),
         \A h : h # f => (Call(stack', h) <=> Call(stack, h)),
         Stacked', Runtime'
  PROVE  IInv'
<1>1. /\ TypeOK /\ PendingQueue /\ FutureOK(f) /\ f \in 0..N /\ f # NoFuture /\ Distinct(line)
      /\ (ready > 0 => line = <<>>) /\ NoFuture \notin Future
      /\ \A w \in Worker : WorkerOK(w)
  BY Parts, Numbers
<1>2. withheld = NoWorker
  BY RuntimeFacts
<1>3. status'[f] = "HANDLING_PRIM" /\ ~want_lw'[f]
  BY <1>1 DEF TypeOK
<1>4. \A g \in Future \ {f} : status'[g] = status[g] /\ want_lw'[g] = want_lw[g]
  BY <1>1 DEF TypeOK
<1>5. \A w \in Worker : fsemaFt[w] # f
  BY <1>1, Holder
<1>6. ASSUME NEW w \in Worker, cur[w] = f
      PROVE  wpc[w] = "wait" /\ fsemaFt[w] = NoFuture /\ sema[w] = 0 /\ can_continue[f] = w /\ ~suspended_lw[f]
  <2>1. wpc[w] = "wait" /\ fsemaFt[w] = NoFuture /\ ~suspended_lw[f]
    BY <1>1, <1>6, Holder
  <2>2. Blocked(w, f)
    BY <1>1, <1>6, <2>1 DEF WorkerOK
  <2> QED
    BY <1>2, <2>1, <2>2, FuturesAssumption DEF Blocked
<1>7. ~Body(stack, f) /\ ~Has(line, f)
  BY <1>1 DEF FutureOK
<1>8. FutureOK(f)'
  <2>1. suspended_lw[f] \/ \E w \in Worker : cur[w] = f /\ wpc[w] = "wait"
    BY <1>1 DEF FutureOK
  <2>2. suspended_lw[f] \/ can_continue[f] # NoWorker
    BY <1>6, <2>1, FuturesAssumption
  <2>3. prim'[f] = "touch" => target'[f] # NoFuture
    BY <1>1 DEF FutureOK
  <2>4. can_continue'[f] # NoWorker => Waits(can_continue[f], f)' /\ sema'[can_continue'[f]] = 0
    BY <1>1 DEF FutureOK, Waits
  <2>5. ~Body(stack, f)' /\ ~Has(line, f)'
    BY <1>7 DEF Body
  <2> QED
    BY <1>3, <2>1, <2>2, <2>3, <2>4, <2>5 DEF FutureOK
<1>9. ASSUME NEW w \in Worker, cur[w] = f PROVE WorkerOK(w)'
  <2>1. Blocked(w, f)'
    BY <1>6, <1>9 DEF Blocked
  <2>2. wpc'[w] = "wait" /\ fsemaFt'[w] = NoFuture /\ cur'[w] = f /\ ~suspended_lw'[f]
    BY <1>6, <1>9
  <2> QED
    BY <1>1, <1>3, <2>1, <2>2 DEF WorkerOK
<1>10. Beside(f, NoWorker, {})
  <2>1. ASSUME NEW g \in Future \ {f} PROVE SameFuture(g)
    BY <1>4 DEF SameFuture, SameHolders, Plain
  <2>2. \A w \in Worker : SamePlace(w) /\ sema'[w] = sema[w]
    BY DEF SamePlace
  <2> QED
    BY <2>1, <2>2, FuturesAssumption DEF Beside
<1>11. PendingQueue'
  <2>1. \A g \in Future : status'[g] = "PENDING" <=> status[g] = "PENDING"
    BY <1>3, <1>4
  <2> QED
    BY <1>1, <2>1 DEF PendingQueue
<1>12. \A w \in Worker : w = NoWorker \/ (f # NoFuture /\ (cur[w] = f \/ fsemaFt[w] = f)) => WorkerOK(w)'
  BY <1>5, <1>9, FuturesAssumption
<1> QED
  BY <1>1, <1>8, <1>10, <1>11, <1>12, StepKeeps, FuturesAssumption

\* general_touch of a future that waits for a primitive.
LEMMA InvokeRtcallStep ==
  ASSUME IInv, NEW f \in Future, Top("touch", f), InvokeRtcall(f),
         UNCHANGED <<pending, can_continue, prim, target, in_specific, no_retval, listVars, alive,
                     fsemaVars, workerVars, sema, checkVars>>
  PROVE  IInv'
<1>1. /\ status[f] = "WAITING_FOR_PRIM"
      /\ status' = [status EXCEPT ![f] = "HANDLING_PRIM"] /\ want_lw' = [want_lw EXCEPT ![f] = FALSE]
      /\ stack' = <<Frame("prim", f)>> \o stack /\ rpc' \in {"run", "atomic"}
      /\ queue' = queue /\ suspended_lw' = suspended_lw
  BY DEF InvokeRtcall, MayYield
<1>2. /\ pending' = pending /\ can_continue' = can_continue /\ prim' = prim /\ target' = target
      /\ in_specific' = in_specific /\ no_retval' = no_retval /\ touching' = touching
      /\ waiting_atomic' = waiting_atomic /\ waiting_touch' = waiting_touch /\ waiting_lwc' = waiting_lwc
      /\ alive' = alive /\ ready' = ready /\ line' = line /\ wpc' = wpc /\ cur' = cur
      /\ fsemaFt' = fsemaFt /\ sema' = sema /\ job' = job /\ other' = other /\ withheld' = withheld
  BY DEF listVars, fsemaVars, workerVars, checkVars
<1>3. TypeOK /\ FutureOK(f) /\ f \in 0..N /\ f # NoFuture
  BY Parts, Numbers
<1>4. /\ rpc = "run" /\ stack # <<>> /\ stack[1].k = "touch" /\ job = NoFuture /\ withheld = NoWorker
      /\ stack \in Seq(FrameSet) /\ WellStacked(stack)
  <2>1. "touch" \in Kinds
    BY DEF Kinds
  <2> QED
    BY <1>3, <2>1, TopFacts
<1>5. ~Body(stack, f) /\ ~Handled(f)
  BY <1>1, <1>3 DEF FutureOK
<1>6. /\ stack' \in Seq(FrameSet) /\ WellStacked(stack')
      /\ \A h : Body(stack', h) <=> Body(stack, h)
      /\ \A h : Call(stack', h) <=> Call(stack, h) \/ h = f
  <2>1. PICK e \in FrameSet : e = Frame("prim", f) /\ e.k = "prim" /\ e.f = f
    BY <1>3, FrameFacts DEF Kinds
  <2>2. stack[1].k \notin Blocking /\ e.k \notin Blocking /\ e.k \in Calling /\ e.k # "body"
    BY <1>4, <2>1 DEF Blocking, Calling
  <2>3. ~Body(stack, e.f) /\ ~Call(stack, e.f) /\ e.f # NoFuture
    BY <1>3, <1>5, <2>1 DEF Handled
  <2>4. /\ <<e>> \o stack \in Seq(FrameSet) /\ WellStacked(<<e>> \o stack)
        /\ \A h : Body(<<e>> \o stack, h) <=> Body(stack, h) \/ (e.k = "body" /\ e.f = h)
        /\ \A h : Call(<<e>> \o stack, h) <=> Call(stack, h) \/ (e.k \in Calling /\ e.f = h)
    BY <1>4, <2>2, <2>3, PushFacts
  <2> QED
    BY <1>1, <2>1, <2>2, <2>4
<1>7. status' \in [Future -> Status] /\ want_lw' \in [Future -> BOOLEAN]
  BY <1>1, <1>3 DEF TypeOK, Status
<1>8. TypeOK'
  BY <1>1, <1>2, <1>3, <1>6, <1>7 DEF TypeOK, FrameSet, Kinds
<1>9. Handled(f)'
  BY <1>6 DEF Handled, Call
<1>10. Stacked' /\ Runtime'
  BY <1>1, <1>2, <1>4, <1>6 DEF Stacked, Runtime
<1>11. rpc \in Plain /\ rpc' # "capture" /\ rpc' # "rtatomic"
  BY <1>1, <1>4 DEF Plain
<1> QED
  BY <1>1, <1>2, <1>6, <1>8, <1>9, <1>10, <1>11, HandleKeeps

\* One turn of general_touch.
LEMMA TouchTurnStep ==
  ASSUME IInv, NEW f \in Future, TouchTurn(f)
  PROVE  IInv'
<1>1. /\ Top("touch", f)
      /\ UNCHANGED <<pending, can_continue, prim, target, in_specific, no_retval, listVars, alive,
                     fsemaVars, workerVars, sema, checkVars>>
  BY DEF TouchTurn
<1>2. CASE RunInRuntime(f)
  BY <1>1, <1>2, RunInRuntimeStep
<1>3. CASE InvokeRtcall(f)
  BY <1>1, <1>3, InvokeRtcallStep
<1>4. ASSUME rpc' \in {"run", "raise", "atomic"}, rpc' = "raise" => stack' = Tail(stack),
             stack' \in {stack, Tail(stack)}, UNCHANGED <<status, queue, suspended_lw, want_lw>>
      PROVE  IInv'
  <2>1. TypeOK /\ (ready > 0 => line = <<>>) /\ f \in 0..N
    BY Parts, Numbers
  <2>2. /\ rpc = "run" /\ stack \in Seq(FrameSet) /\ WellStacked(stack)
        /\ Tail(stack) \in Seq(FrameSet) /\ WellStacked(Tail(stack))
        /\ \A i \in DOMAIN Tail(stack) : Tail(stack)[i].k \notin Blocking
        /\ \A h : Body(Tail(stack), h) <=> Body(stack, h)
        /\ \A h : Call(Tail(stack), h) <=> Call(stack, h)
    <3>1. "touch" \in Kinds /\ "touch" \notin Calling
      BY DEF Kinds, Calling
    <3> QED
      BY <1>1, <2>1, <3>1, TopFacts
  <2>3. /\ stack' \in Seq(FrameSet) /\ WellStacked(stack')
        /\ rpc' = "raise" => \A i \in DOMAIN stack' : stack'[i].k \notin Blocking
        /\ \A h : (Body(stack', h) <=> Body(stack, h)) /\ (Call(stack', h) <=> Call(stack, h))
    BY <1>4, <2>2
  <2>4. TypeOK'
    BY <1>1, <1>4, <2>1, <2>3 DEF TypeOK, FrameSet, Kinds, listVars, fsemaVars, workerVars, checkVars
  <2>5. /\ UNCHANGED <<status, queue, pending, suspended_lw, want_lw, can_continue, prim, target, line,
                       wpc, cur, fsemaFt, sema, withheld, job, other>>
        /\ waiting_lwc' = waiting_lwc /\ ready' = ready
    BY <1>1, <1>4 DEF listVars, fsemaVars, workerVars, checkVars
  <2>6. rpc \in Plain /\ rpc' \in Plain
    BY <1>4, <2>2 DEF Plain
  <2> QED
    BY <2>1, <2>3, <2>4, <2>5, <2>6, QuietRuntime
<1>5. CASE ~RunInRuntime(f) /\ ~InvokeRtcall(f)
  <2>1. \/ /\ rpc' = IF no_retval[f] THEN "raise" ELSE "run"
           /\ stack' = Tail(stack)
           /\ UNCHANGED <<status, queue, suspended_lw, want_lw>>
        \/ rpc' = "atomic" /\ UNCHANGED <<status, queue, suspended_lw, want_lw, stack>>
    BY <1>5 DEF TouchTurn
  <2> QED
    BY <1>4, <2>1
<1> QED
  BY <1>2, <1>3, <1>5

\* A future whose body the runtime thread runs.
LEMMA BodyFacts ==
  ASSUME IInv, NEW f \in Future, Body(stack, f)
  PROVE  /\ status[f] = "RUNNING" /\ can_continue[f] = NoWorker /\ ~Call(stack, f)
         /\ \A w \in Worker : cur[w] # f
<1>1. FutureOK(f) /\ can_continue[f] \in Worker \cup {NoWorker}
  BY Parts
<1>2. status[f] = "RUNNING" /\ (\A w \in Worker : cur[w] # f) /\ ~Handled(f)
  BY <1>1 DEF FutureOK
<1>3. can_continue[f] = NoWorker
  BY <1>1, <1>2 DEF FutureOK, Waits
<1> QED
  BY <1>2, <1>3 DEF Handled

\* A future that the runtime thread works for, in a call.
LEMMA CallFacts ==
  ASSUME IInv, NEW f \in Future, Call(stack, f)
  PROVE  /\ status[f] = "HANDLING_PRIM" /\ ~Body(stack, f) /\ ~want_lw[f]
         /\ suspended_lw[f] => can_continue[f] = NoWorker /\ \A w \in Worker : cur[w] # f
         /\ ~suspended_lw[f] => can_continue[f] \in Worker /\ cur[can_continue[f]] = f
                                /\ sema[can_continue[f]] = 0
<1>1. TypeOK /\ FutureOK(f) /\ can_continue[f] \in Worker \cup {NoWorker} /\ \A w \in Worker : WorkerOK(w)
  BY Parts
<1>2. status[f] = "HANDLING_PRIM" /\ (suspended_lw[f] \/ can_continue[f] # NoWorker)
  BY <1>1 DEF FutureOK, Handled
<1>3. ~Body(stack, f) /\ ~want_lw[f]
  BY <1>1, <1>2 DEF FutureOK
<1>4. suspended_lw[f] => \A w \in Worker : cur[w] # f
  BY <1>1, Holder
<1>5. can_continue[f] # NoWorker =>
        can_continue[f] \in Worker /\ cur[can_continue[f]] = f /\ sema[can_continue[f]] = 0
  BY <1>1 DEF FutureOK, Waits
<1> QED
  BY <1>2, <1>3, <1>4, <1>5

\* A step of the runtime thread in which a future finishes that it runs or
\* works for.
LEMMA FrameFinishes ==
  ASSUME IInv, NEW f \in Future, Finish(f, sema),
         Body(stack, f) \/ (Call(stack, f) /\ suspended_lw[f]),
         rpc \in {"run", "raise"}, rpc' \in {"run", "atomic", "raise"},
         ~Body(stack', f), ~Call(stack', f),
         \A t \in Future \ {f} : /\ Body(stack', t) <=> Body(stack, t)
                                 /\ Call(stack', t) <=> Call(stack, t)
                                 /\ suspended_lw'[t] = suspended_lw[t],
         stack' \in Seq(FrameSet), WellStacked(stack'),
         rpc' = "raise" => \A i \in DOMAIN stack' : stack'[i].k \notin Blocking,
         suspended_lw' \in [Future -> BOOLEAN], no_retval' \in [Future -> BOOLEAN],
         UNCHANGED <<prim, target, in_specific, waiting_atomic, waiting_touch, waiting_lwc, alive,
                     ready, line, wpc, cur, fsemaFt, job, other, withheld>>
  PROVE  IInv'
<1>1. /\ status[f] \in {"RUNNING", "HANDLING_PRIM"} /\ can_continue[f] = NoWorker
      /\ \A w \in Worker : cur[w] # f
  BY BodyFacts, CallFacts
<1>2. TypeOK /\ sema \in [Worker -> 0..1]
  BY DEF IInv, TypeOK
<1>3. \A w \in Worker : SamePlace(w)
  BY DEF SamePlace
<1>4. (status' \in [Future -> Status] /\ queue' \in Seq(Future) /\ pending' \in Nat
       /\ want_lw' \in [Future -> BOOLEAN] /\ can_continue' \in [Future -> Worker \cup {NoWorker}]
       /\ sema' \in [Worker -> 0..1] /\ touching' \in [Future -> Seq(Future)]) => TypeOK'
  BY <1>2 DEF TypeOK, FrameSet, Kinds
<1>5. Stacked'
  BY DEF Stacked
<1>6. NoWorker \notin Worker /\ rpc \notin {"rtatomic", "capture"}
  BY FuturesAssumption
<1>7. {rpc, rpc'} \subseteq {"run", "atomic", "raise"}
  OBVIOUS
<1> QED
  BY <1>1, <1>2, <1>3, <1>4, <1>5, <1>6, <1>7, FinishKeeps

\* A stack without two frames.
LEMMA TwoFrames ==
  ASSUME NEW S, NEW s \in Seq(S), s # <<>>, Tail(s) # <<>>
  PROVE  SubSeq(s, 3, Len(s)) = Tail(Tail(s))
<1>1. Len(s) \in Nat /\ Len(s) >= 2
  OBVIOUS
<1>2. Tail(s) \in Seq(S) /\ Len(Tail(s)) = Len(s) - 1 /\ \A i \in 1..(Len(s) - 1) : Tail(s)[i] = s[i + 1]
  OBVIOUS
<1> DEFINE t == Tail(s)
<1> HIDE DEF t
<1>3. Tail(t) \in Seq(S) /\ Len(Tail(t)) = Len(s) - 2 /\ \A i \in 1..(Len(s) - 2) : Tail(t)[i] = t[i + 1]
  BY <1>1, <1>2 DEF t
<1>4. \A i \in 1..(Len(s) - 2) : i + 1 \in 1..(Len(s) - 1) /\ (i + 1) + 1 = i + 2
  BY <1>1
<1>5. \A i \in 1..(Len(s) - 2) : Tail(t)[i] = s[i + 2]
  BY <1>2, <1>3, <1>4 DEF t
<1>6. /\ SubSeq(s, 3, Len(s)) \in Seq(S) /\ Len(SubSeq(s, 3, Len(s))) = Len(s) - 2
      /\ \A i \in 1..(Len(s) - 2) : SubSeq(s, 3, Len(s))[i] = s[i + 2]
  <2> DEFINE n == Len(s)
  <2>1. n \in Nat /\ n >= 2 /\ n = Len(s) /\ \A i \in 3..n : i \in 1..n
    BY <1>1
  <2> HIDE DEF n
  <2>2. SubSeq(s, 3, n) \in Seq(S)
    BY <2>1
  <2>3. Len(SubSeq(s, 3, n)) = n - 2
    BY <2>1
  <2>4. ASSUME NEW i \in 1..(n - 2) PROVE SubSeq(s, 3, n)[i] = s[i + 2]
    BY <2>1
  <2> QED
    BY <2>1, <2>2, <2>3, <2>4
<1>7. /\ Len(SubSeq(s, 3, Len(s))) = Len(Tail(t))
      /\ \A i \in 1..Len(Tail(t)) : SubSeq(s, 3, Len(s))[i] = Tail(t)[i]
  BY <1>3, <1>5, <1>6
<1>8. ASSUME NEW a \in Seq(S), NEW b \in Seq(S), Len(a) = Len(b), \A i \in 1..Len(b) : a[i] = b[i]
      PROVE  a = b
  BY <1>8
<1> QED
  BY <1>3, <1>6, <1>7, <1>8 DEF t

\* The body of a future returns, and so does the touch.
LEMMA BodyReturnsStep ==
  ASSUME IInv, NEW f \in Future, BodyReturns(f)
  PROVE  IInv'
<1>1. /\ Top("body", f) /\ Finish(f, sema) /\ stack' = SubSeq(stack, 3, Len(stack))
      /\ rpc' \in {"run", "atomic"}
      /\ UNCHANGED <<suspended_lw, prim, target, in_specific, no_retval, waiting_atomic, waiting_touch,
                     waiting_lwc, alive, ready, line, wpc, cur, fsemaFt, job, other, withheld>>
  BY DEF BodyReturns, MayYield, fsemaVars, workerVars, checkVars
<1>2. "body" \in Kinds /\ "body" \in Busy /\ "body" \notin Calling /\ f \in 0..N
  BY Numbers DEF Kinds, Busy, Calling
<1>3. /\ rpc = "run" /\ stack # <<>> /\ stack \in Seq(FrameSet) /\ Body(stack, f)
      /\ Tail(stack) \in Seq(FrameSet) /\ WellStacked(Tail(stack))
      /\ Tail(stack) # <<>> /\ Tail(stack)[1].k = "touch"
      /\ \A h : Body(Tail(stack), h) <=> Body(stack, h) /\ f # h
      /\ \A h : Call(Tail(stack), h) <=> Call(stack, h)
  BY <1>1, <1>2, TopFacts
<1>4. PICK s \in Seq(FrameSet) : s = Tail(stack)
  BY <1>3
<1>5. stack' = Tail(s)
  BY <1>1, <1>3, <1>4, TwoFrames
<1>6. /\ Tail(s) \in Seq(FrameSet) /\ WellStacked(Tail(s))
      /\ \A h : Body(Tail(s), h) <=> Body(s, h) /\ ~(s[1].k = "body" /\ s[1].f = h)
      /\ \A h : Call(Tail(s), h) <=> Call(s, h) /\ ~(s[1].k \in Calling /\ s[1].f = h)
  BY <1>3, <1>4, PopFacts
<1>7. s[1].k # "body" /\ s[1].k \notin Calling
  BY <1>3, <1>4 DEF Calling
<1>8. /\ stack' \in Seq(FrameSet) /\ WellStacked(stack')
      /\ \A h : Body(stack', h) <=> Body(stack, h) /\ f # h
      /\ \A h : Call(stack', h) <=> Call(stack, h)
  BY <1>3, <1>4, <1>5, <1>6, <1>7
<1>9. ~Call(stack, f)
  BY <1>3, BodyFacts
<1>10. suspended_lw' \in [Future -> BOOLEAN] /\ no_retval' \in [Future -> BOOLEAN]
  BY <1>1 DEF IInv, TypeOK
<1> QED
  BY <1>1, <1>3, <1>8, <1>9, <1>10, FrameFinishes

\* do_invoke_rtcall.
LEMMA DoInvokeRtcallStep ==
  ASSUME IInv, NEW f \in Future, DoInvokeRtcall(f)
  PROVE  IInv'
<1>1. UNCHANGED <<suspended_lw, prim, target, in_specific, no_retval, touching, waiting_atomic,
                  waiting_touch, waiting_lwc, alive, ready, line, wpc, cur, fsemaFt, job, other, withheld>>
  BY DEF DoInvokeRtcall, listVars, fsemaVars, workerVars, checkVars
<1>2. PICK k \in Calling : Top(k, f)
  BY DEF DoInvokeRtcall, Calling
<1>3. k \in Kinds /\ k \in Busy /\ k # "body" /\ k \notin Blocking /\ f \in 0..N
  BY Numbers DEF Kinds, Busy, Calling, Blocking
<1>4. /\ rpc = "run" /\ stack # <<>> /\ stack \in Seq(FrameSet) /\ Call(stack, f) /\ f # NoFuture
      /\ Tail(stack) \in Seq(FrameSet) /\ WellStacked(Tail(stack)) /\ job = NoFuture
      /\ Tail(stack) # <<>> /\ Tail(stack)[1].k = "touch"
      /\ \A h : Body(Tail(stack), h) <=> Body(stack, h)
      /\ \A h : Call(Tail(stack), h) <=> Call(stack, h) /\ f # h
  BY <1>2, <1>3, TopFacts
<1>5. TypeOK /\ (ready > 0 => line = <<>>) /\ FutureOK(f) /\ ~Body(stack, f) /\ status[f] = "HANDLING_PRIM"
  BY <1>4, Parts, CallFacts
<1>6. CASE Top("prim", f) /\ prim[f] = "touch"
  <2>1. /\ stack' = <<Frame("touch", target[f]), Frame("touched", f)>> \o Tail(stack)
        /\ UNCHANGED <<status, queue, pending, want_lw, can_continue, sema, rpc>>
    BY <1>6 DEF DoInvokeRtcall
  <2>2. target[f] \in 0..N /\ target[f] # NoFuture
    BY <1>5, <1>6 DEF TypeOK, FutureOK
  <2>3. PICK a \in FrameSet : a = Frame("touch", target[f]) /\ a.k = "touch" /\ a.f = target[f]
    BY <2>2, FrameFacts DEF Kinds
  <2>4. PICK b \in FrameSet : b = Frame("touched", f) /\ b.k = "touched" /\ b.f = f
    BY <1>3, FrameFacts DEF Kinds
  <2>5. PICK s \in Seq(FrameSet) : s = Tail(stack)
    BY <1>4
  <2>6. /\ b.k \notin Blocking /\ b.k # "body" /\ b.k \in Calling /\ s[1].k \notin Blocking
        /\ a.k \notin Blocking /\ a.k \notin Busy /\ a.k # "body" /\ a.k \notin Calling
    BY <1>4, <2>3, <2>4, <2>5 DEF Blocking, Busy, Calling
  <2>7. ~Body(s, b.f) /\ ~Call(s, b.f) /\ b.f # NoFuture /\ s # <<>> /\ s[1].k = "touch" /\ WellStacked(s)
    BY <1>4, <1>5, <2>4, <2>5
  <2>8. /\ <<b>> \o s \in Seq(FrameSet) /\ WellStacked(<<b>> \o s)
        /\ (<<b>> \o s)[1] = b /\ <<b>> \o s # <<>>
        /\ \A h : Body(<<b>> \o s, h) <=> Body(s, h) \/ (b.k = "body" /\ b.f = h)
        /\ \A h : Call(<<b>> \o s, h) <=> Call(s, h) \/ (b.k \in Calling /\ b.f = h)
    BY <2>6, <2>7, PushFacts
  <2>9. PICK q \in Seq(FrameSet) : q = <<b>> \o s
    BY <2>8
  <2>10. /\ <<a>> \o q \in Seq(FrameSet) /\ WellStacked(<<a>> \o q)
         /\ \A h : Body(<<a>> \o q, h) <=> Body(q, h) \/ (a.k = "body" /\ a.f = h)
         /\ \A h : Call(<<a>> \o q, h) <=> Call(q, h) \/ (a.k \in Calling /\ a.f = h)
    <3>1. q # <<>> => q[1].k \notin Blocking
      BY <2>6, <2>8, <2>9
    <3>2. WellStacked(q) /\ a.f # NoFuture
      BY <2>2, <2>3, <2>8, <2>9
    <3> QED
      BY <2>6, <3>1, <3>2, PushFacts
  <2>11. stack' = <<a>> \o q
    <3>1. stack' = <<a, b>> \o s
      BY <2>1, <2>3, <2>4, <2>5
    <3>2. <<a, b>> \o s = <<a>> \o (<<b>> \o s)
      OBVIOUS
    <3> QED
      BY <2>9, <3>1, <3>2
  <2>12. /\ stack' \in Seq(FrameSet) /\ WellStacked(stack')
         /\ \A h : (Body(stack', h) <=> Body(stack, h)) /\ (Call(stack', h) <=> Call(stack, h))
    BY <1>4, <2>4, <2>5, <2>6, <2>8, <2>9, <2>10, <2>11
  <2>13. TypeOK'
    BY <1>1, <1>5, <2>1, <2>12 DEF TypeOK, FrameSet, Kinds
  <2>14. rpc \in Plain /\ rpc' = "run" /\ rpc' \in Plain
    BY <1>4, <2>1 DEF Plain
  <2> QED
    BY <1>1, <1>5, <2>1, <2>12, <2>13, <2>14, QuietRuntime
<1>7. CASE ~(Top("prim", f) /\ prim[f] = "touch")
  <2>1. CompleteRtcall(<<f>>, status, sema) /\ stack' = Tail(stack) /\ rpc' \in {"run", "atomic"}
    BY <1>7 DEF DoInvokeRtcall, MayYield
  <2>2. Handled(f) /\ status \in [Future -> Status]
    BY <1>4, <1>5 DEF Handled, TypeOK
  <2>3. Stacked'
    BY <1>4, <2>1 DEF Stacked
  <2>4. (status' \in [Future -> Status] /\ queue' \in Seq(Future) /\ pending' \in Nat
         /\ want_lw' \in [Future -> BOOLEAN] /\ can_continue' \in [Future -> Worker \cup {NoWorker}]
         /\ sema' \in [Worker -> 0..1]) => TypeOK'
    BY <1>1, <1>4, <1>5, <2>1 DEF TypeOK, FrameSet, Kinds
  <2> QED
    BY <1>1, <1>4, <1>5, <2>1, <2>2, <2>3, <2>4, CompleteKeeps
<1> QED
  BY <1>6, <1>7

\* A future thread that waits is told that the primitive has failed.
LEMMA FailKeeps ==
  ASSUME IInv, NEW f \in Future, Call(stack, f), ~suspended_lw[f], TypeOK', rpc = "raise", rpc' = "raise",
         sema' = [sema EXCEPT ![can_continue[f]] = @ + 1],
         can_continue' = [can_continue EXCEPT ![f] = NoWorker],
         ~Call(stack', f), \A h : Body(stack', h) <=> Body(stack, h),
         \A h : h # f => (Call(stack', h) <=> Call(stack, h)), Stacked',
         UNCHANGED <<status, queue, pending, suspended_lw, want_lw, prim, target, waiting_lwc, ready, line,
                     wpc, cur, fsemaFt, job, other, withheld>>
  PROVE  IInv'
<1>1. /\ TypeOK /\ PendingQueue /\ Runtime /\ NoFuture \notin Future /\ NoFuture \in 0..N /\ Distinct(line)
      /\ ready > 0 => line = <<>>
      /\ \A w, x \in Worker : cur[w] = cur[x] /\ cur[w] # NoFuture => w = x
  BY Parts, Numbers DEF Unique
<1>2. /\ status[f] = "HANDLING_PRIM" /\ ~want_lw[f] /\ can_continue[f] \in Worker
      /\ cur[can_continue[f]] = f /\ sema[can_continue[f]] = 0
  BY CallFacts
<1>3. /\ can_continue'[f] = NoWorker
      /\ \A g \in Future \ {f} : can_continue'[g] = can_continue[g]
  BY <1>1 DEF TypeOK
<1>4. ASSUME NEW w \in Worker
      PROVE  sema'[w] = IF cur[w] \in {f} /\ can_continue[cur[w]] = w THEN 1 ELSE sema[w]
  <2>1. sema'[w] = IF w = can_continue[f] THEN sema[w] + 1 ELSE sema[w]
    BY <1>1 DEF TypeOK
  <2> QED
    BY <1>2, <2>1
<1>5. Beside(NoFuture, NoWorker, {f})
  <2>1. Told(f)
    BY <1>2, <1>3 DEF Told, Handled
  <2>2. ASSUME NEW g \in Future \ {f} PROVE SameFuture(g)
    BY <1>3 DEF SameFuture, SameHolders
  <2>3. \A w \in Worker : SamePlace(w)
    BY DEF SamePlace
  <2> QED
    BY <1>4, <2>1, <2>2, <2>3, FuturesAssumption DEF Beside
<1>6. Runtime' /\ PendingQueue'
  BY <1>1 DEF Runtime, PendingQueue
<1>7. {f} \in SUBSET (Future \ {NoFuture}) /\ NoWorker \notin Worker
  BY <1>1, FuturesAssumption
<1> QED
  BY <1>1, <1>5, <1>6, <1>7, StepKeeps

\* An exception leaves a frame.
LEMMA UnwindStep ==
  ASSUME IInv, Unwind
  PROVE  IInv'
<1>1. /\ rpc = "raise"
      /\ UNCHANGED <<prim, target, in_specific, waiting_atomic, waiting_touch, waiting_lwc, alive,
                     ready, line, wpc, cur, fsemaFt, job, other, withheld>>
  BY DEF Unwind, fsemaVars, workerVars, checkVars
<1>2. /\ stack \in Seq(FrameSet) /\ WellStacked(stack) /\ TypeOK /\ (ready > 0 => line = <<>>)
      /\ \A i \in DOMAIN stack : stack[i].k \notin Blocking
  BY <1>1, RuntimeFacts
<1>3. CASE stack = <<>>
  <2>1. /\ rpc' = "run"
        /\ UNCHANGED <<status, queue, pending, suspended_lw, want_lw, can_continue, no_retval, touching, sema, stack>>
    BY <1>3 DEF Unwind
  <2>2. TypeOK'
    BY <1>1, <1>2, <2>1 DEF TypeOK
  <2>3. rpc \in Plain /\ rpc' \in Plain
    BY <1>1, <2>1 DEF Plain
  <2> QED
    BY <1>1, <1>2, <2>1, <2>2, <2>3, QuietRuntime
<1>4. CASE stack # <<>>
  <2>1. /\ Tail(stack) \in Seq(FrameSet) /\ WellStacked(Tail(stack)) /\ stack[1] \in FrameSet
        /\ stack[1].k \notin Blocking => stack[1].f # NoFuture
        /\ \A i \in DOMAIN Tail(stack) : Tail(stack)[i].k \notin Blocking
        /\ \A h : Body(Tail(stack), h) <=> Body(stack, h) /\ ~(stack[1].k = "body" /\ stack[1].f = h)
        /\ \A h : Call(Tail(stack), h) <=> Call(stack, h) /\ ~(stack[1].k \in Calling /\ stack[1].f = h)
        /\ stack[1].k = "body" => Body(stack, stack[1].f)
        /\ stack[1].k \in Calling => Call(stack, stack[1].f)
    BY <1>2, <1>4, PopFacts
  <2>2. 1 \in DOMAIN stack
    BY <1>2, <1>4, EmptyFacts
  <2>3. PICK k \in {"touch", "body", "prim", "touched"} : k = stack[1].k
    BY <1>2, <2>1, <2>2 DEF FrameSet, Kinds, Blocking
  <2>4. PICK f \in Future : f = stack[1].f
    <3>1. stack[1].f \in 0..N /\ stack[1].f # NoFuture
      BY <1>2, <2>1, <2>2 DEF FrameSet
    <3> QED
      BY <3>1, Numbers
  <2>5. /\ stack' = Tail(stack) /\ rpc' = rpc
        /\ no_retval' = IF k = "touch" THEN no_retval ELSE [no_retval EXCEPT ![f] = TRUE]
        /\ CASE k = "touch" ->
                  UNCHANGED <<status, queue, pending, suspended_lw, want_lw, can_continue, touching, sema>>
             [] k = "body" -> Finish(f, sema) /\ UNCHANGED suspended_lw
             [] k \in {"prim", "touched"} /\ suspended_lw[f] ->
                  /\ Finish(f, sema)
                  /\ suspended_lw' = [suspended_lw EXCEPT ![f] = FALSE]
             [] OTHER ->
                  /\ sema' = [sema EXCEPT ![can_continue[f]] = @ + 1]
                  /\ can_continue' = [can_continue EXCEPT ![f] = NoWorker]
                  /\ UNCHANGED <<status, queue, pending, suspended_lw, want_lw, touching>>
    BY <1>4, <2>3, <2>4 DEF Unwind
  <2>6. no_retval' \in [Future -> BOOLEAN]
    BY <1>2, <2>5 DEF TypeOK
  <2>7. /\ stack' \in Seq(FrameSet) /\ WellStacked(stack') /\ \A i \in DOMAIN stack' : stack'[i].k \notin Blocking
        /\ \A h : Body(stack', h) <=> Body(stack, h) /\ ~(k = "body" /\ f = h)
        /\ \A h : Call(stack', h) <=> Call(stack, h) /\ ~(k \in Calling /\ f = h)
        /\ k = "body" => Body(stack, f)
        /\ k \in Calling => Call(stack, f)
    BY <2>1, <2>3, <2>4, <2>5
  <2>8. rpc' = "raise"
    BY <1>1, <2>5
  <2>9. CASE k = "touch"
    <3>1. UNCHANGED <<status, queue, pending, suspended_lw, want_lw, can_continue, touching, sema>>
      BY <2>5, <2>9
    <3>2. TypeOK'
      BY <1>1, <1>2, <2>6, <2>7, <2>8, <3>1 DEF TypeOK, FrameSet, Kinds
    <3>3. k # "body" /\ k \notin Calling
      BY <2>9 DEF Calling
    <3>4. rpc \in Plain /\ rpc' \in Plain
      BY <1>1, <2>8 DEF Plain
    <3>5. \A h : (Body(stack', h) <=> Body(stack, h)) /\ (Call(stack', h) <=> Call(stack, h))
      BY <2>7, <3>3
    <3> QED
      BY <1>1, <1>2, <2>7, <2>8, <3>1, <3>2, <3>4, <3>5, QuietRuntime
  <2>10. CASE k = "body"
    <3>1. Finish(f, sema) /\ suspended_lw' = suspended_lw
      BY <2>5, <2>10
    <3>2. Body(stack, f) /\ ~Call(stack, f) /\ k \notin Calling
      BY <2>7, <2>10, BodyFacts DEF Calling
    <3>3. suspended_lw' \in [Future -> BOOLEAN]
      BY <1>2, <3>1 DEF TypeOK
    <3>4. ~Body(stack', f) /\ ~Call(stack', f)
      BY <2>7, <2>10, <3>2
    <3>5. \A t \in Future \ {f} : /\ Body(stack', t) <=> Body(stack, t)
                                  /\ Call(stack', t) <=> Call(stack, t)
                                  /\ suspended_lw'[t] = suspended_lw[t]
      BY <2>7, <3>1
    <3> QED
      BY <1>1, <2>6, <2>7, <2>8, <3>1, <3>2, <3>3, <3>4, <3>5, FrameFinishes
  <2>11. CASE k \in {"prim", "touched"} /\ suspended_lw[f]
    <3>1. Finish(f, sema) /\ suspended_lw' = [suspended_lw EXCEPT ![f] = FALSE]
      BY <2>5, <2>11
    <3>2. Call(stack, f) /\ ~Body(stack, f) /\ k \in Calling
      <4>1. k \in Calling
        BY <2>11 DEF Calling
      <4> QED
        BY <2>7, <4>1, CallFacts
    <3>3. suspended_lw' \in [Future -> BOOLEAN]
      BY <1>2, <3>1 DEF TypeOK
    <3>4. ~Body(stack', f) /\ ~Call(stack', f)
      BY <2>7, <3>2
    <3>5. \A t \in Future \ {f} : /\ Body(stack', t) <=> Body(stack, t)
                                  /\ Call(stack', t) <=> Call(stack, t)
                                  /\ suspended_lw'[t] = suspended_lw[t]
      BY <1>2, <2>7, <3>1 DEF TypeOK
    <3> QED
      BY <1>1, <2>6, <2>7, <2>8, <2>11, <3>1, <3>2, <3>3, <3>4, <3>5, FrameFinishes
  <2>12. CASE k \in {"prim", "touched"} /\ ~suspended_lw[f]
    <3>1. /\ sema' = [sema EXCEPT ![can_continue[f]] = @ + 1]
          /\ can_continue' = [can_continue EXCEPT ![f] = NoWorker]
          /\ UNCHANGED <<status, queue, pending, suspended_lw, want_lw, touching>>
      BY <2>5, <2>12
    <3>2. Call(stack, f) /\ k \in Calling /\ k # "body"
      BY <2>7, <2>12 DEF Calling
    <3>3. can_continue[f] \in Worker /\ sema[can_continue[f]] = 0
      BY <2>12, <3>2, CallFacts
    <3>4. sema' \in [Worker -> 0..1]
      BY <1>2, <3>1, <3>3 DEF TypeOK
    <3>5. can_continue' \in [Future -> Worker \cup {NoWorker}]
      BY <1>2, <3>1 DEF TypeOK
    <3>6. TypeOK'
      BY <1>1, <1>2, <2>6, <2>7, <2>8, <3>1, <3>4, <3>5 DEF TypeOK, FrameSet, Kinds
    <3>7. Stacked'
      BY <2>7, <2>8 DEF Stacked
    <3>8. /\ ~Call(stack', f) /\ \A h : Body(stack', h) <=> Body(stack, h)
          /\ \A h : h # f => (Call(stack', h) <=> Call(stack, h))
      BY <2>7, <3>2
    <3> QED
      BY <1>1, <2>8, <2>12, <3>1, <3>2, <3>6, <3>7, <3>8, FailKeeps
  <2> QED
    BY <2>9, <2>10, <2>11, <2>12
<1> QED
  BY <1>3, <1>4

\* scheme_check_future_work: the atomic operations.
LEMMA CheckAtomicStep ==
  ASSUME IInv, CheckAtomic
  PROVE  IInv'
<1>1. /\ rpc = "atomic"
      /\ UNCHANGED <<queue, pending, suspended_lw, can_continue, prim, target, in_specific, no_retval,
                     touching, waiting_touch, waiting_lwc, alive, ready, line, wpc, cur, fsemaFt, sema,
                     other, withheld, stack>>
  BY DEF CheckAtomic, fsemaVars, workerVars
<1>2. TypeOK /\ (ready > 0 => line = <<>>) /\ WellStacked(stack) /\ job = NoFuture /\ withheld = NoWorker
  BY <1>1, RuntimeFacts DEF Plain
<1>3. waiting_atomic \in Seq(Future)
  BY <1>2 DEF TypeOK
<1>4. ASSUME waiting_atomic' \in Seq(Future), UNCHANGED <<status, want_lw, job, other>>, rpc' \in {"atomic", "touch"}
      PROVE  IInv'
  <2>1. TypeOK'
    BY <1>1, <1>2, <1>4 DEF TypeOK
  <2>2. rpc \in Plain /\ rpc' \in Plain /\ rpc' # "raise"
    BY <1>1, <1>4 DEF Plain
  <2> QED
    BY <1>1, <1>2, <1>4, <2>1, <2>2, QuietRuntime
<1>5. CASE waiting_atomic = <<>>
  BY <1>3, <1>4, <1>5 DEF CheckAtomic
<1>6. CASE waiting_atomic # <<>>
  <2>1. waiting_atomic' = Tail(waiting_atomic) /\ Tail(waiting_atomic) \in Seq(Future)
    BY <1>3, <1>6, TailFacts DEF CheckAtomic
  <2>2. PICK f \in Future : f = Head(waiting_atomic)
    BY <1>3, <1>6, TailFacts
  <2>3. CASE status[f] = "WAITING_FOR_PRIM" /\ prim[f] = "atomic"
    <3>1. /\ status' = [status EXCEPT ![f] = "HANDLING_PRIM"] /\ want_lw' = [want_lw EXCEPT ![f] = FALSE]
          /\ rpc' = "rtatomic" /\ job' = f
      BY <1>6, <2>2, <2>3 DEF CheckAtomic
    <3>2. status' \in [Future -> Status] /\ want_lw' \in [Future -> BOOLEAN] /\ job' \in 0..N /\ f # NoFuture
      BY <1>2, <3>1, Numbers DEF TypeOK, Status
    <3>3. TypeOK'
      BY <1>1, <1>2, <2>1, <3>1, <3>2 DEF TypeOK
    <3>4. ~Call(stack, f)
      <4>1. FutureOK(f)
        BY Parts
      <4> QED
        BY <2>3, <4>1 DEF FutureOK, Handled
    <3>5. Stacked'
      BY <1>1, <1>2, <3>1, <3>4 DEF Stacked, Call
    <3>6. Runtime'
      BY <1>1, <1>2, <3>1, <3>2 DEF Runtime
    <3>7. Handled(f)' /\ rpc \in Plain
      BY <1>1, <3>1 DEF Handled, Plain
    <3> QED
      BY <1>1, <2>3, <3>1, <3>3, <3>5, <3>6, <3>7, HandleKeeps
  <2>4. CASE ~(status[f] = "WAITING_FOR_PRIM" /\ prim[f] = "atomic")
    <3>1. UNCHANGED <<status, want_lw, rpc, job, other>>
      BY <1>6, <2>2, <2>4 DEF CheckAtomic
    <3> QED
      BY <1>1, <1>4, <2>1, <3>1
  <2> QED
    BY <2>3, <2>4
<1> QED
  BY <1>5, <1>6

\* ... one of which is done.
LEMMA AtomicDoneStep ==
  ASSUME IInv, AtomicDone
  PROVE  IInv'
<1>1. /\ rpc = "rtatomic" /\ CompleteRtcall(<<job>>, status, sema) /\ rpc' = "atomic" /\ job' = NoFuture
      /\ UNCHANGED <<suspended_lw, prim, target, in_specific, no_retval, touching, waiting_atomic,
                     waiting_touch, waiting_lwc, alive, ready, line, wpc, cur, fsemaFt, other, withheld, stack>>
  BY DEF AtomicDone, listVars, fsemaVars, workerVars
<1>2. TypeOK /\ Stacked /\ Runtime
  BY Parts
<1>3. PICK t \in Future : t = job
  BY <1>1, <1>2, Numbers DEF TypeOK, Runtime
<1>4. Handled(t) /\ ~Call(stack, t) /\ FutureOK(t)
  BY <1>1, <1>2, <1>3, Parts DEF Handled, Stacked
<1>5. status[t] = "HANDLING_PRIM" /\ status \in [Future -> Status]
  BY <1>2, <1>4 DEF FutureOK, TypeOK
<1>6. Stacked'
  BY <1>1, <1>2 DEF Stacked
<1>7. (status' \in [Future -> Status] /\ queue' \in Seq(Future) /\ pending' \in Nat
       /\ want_lw' \in [Future -> BOOLEAN] /\ can_continue' \in [Future -> Worker \cup {NoWorker}]
       /\ sema' \in [Worker -> 0..1]) => TypeOK'
  BY <1>1, <1>2, Numbers DEF TypeOK
<1> QED
  BY <1>1, <1>3, <1>4, <1>5, <1>6, <1>7, CompleteKeeps

\* The touches.
LEMMA CheckTouchStep ==
  ASSUME IInv, CheckTouch
  PROVE  IInv'
<1>1. /\ rpc = "touch"
      /\ UNCHANGED <<status, queue, pending, suspended_lw, want_lw, can_continue, prim, target,
                     in_specific, no_retval, touching, waiting_atomic, waiting_lwc, alive, ready, line,
                     wpc, cur, fsemaFt, sema, withheld, stack>>
  BY DEF CheckTouch, futVars, fsemaVars, workerVars
<1>2. TypeOK /\ (ready > 0 => line = <<>>) /\ WellStacked(stack) /\ job = NoFuture /\ withheld = NoWorker
  BY <1>1, RuntimeFacts DEF Plain
<1>3. waiting_touch \in Seq(Future)
  BY <1>2 DEF TypeOK
<1>4. ASSUME waiting_touch' \in Seq(Future), job' = job, other' = other, rpc' \in {"touch", "lwc"}
      PROVE  IInv'
  <2>1. TypeOK'
    BY <1>1, <1>2, <1>4 DEF TypeOK
  <2>2. rpc \in Plain /\ rpc' \in Plain /\ rpc' # "raise"
    BY <1>1, <1>4 DEF Plain
  <2> QED
    BY <1>1, <1>2, <1>4, <2>1, <2>2, QuietRuntime
<1>5. CASE waiting_touch = <<>>
  BY <1>3, <1>4, <1>5 DEF CheckTouch
<1>6. CASE waiting_touch # <<>>
  <2>1. waiting_touch' = Tail(waiting_touch) /\ Tail(waiting_touch) \in Seq(Future)
    BY <1>3, <1>6, TailFacts DEF CheckTouch
  <2>2. PICK f \in Future : f = Head(waiting_touch)
    BY <1>3, <1>6, TailFacts
  <2>3. CASE WaitsForTouch(f, target[f])
    <3>1. rpc' = "chain" /\ job' = f /\ other' = target[f]
      BY <1>6, <2>2, <2>3 DEF CheckTouch
    <3>2. job' \in 0..N /\ f # NoFuture /\ other' \in 0..N
      BY <1>2, <3>1, Numbers DEF TypeOK
    <3>3. TypeOK'
      BY <1>1, <1>2, <2>1, <3>1, <3>2 DEF TypeOK
    <3>4. target[f] # NoFuture
      <4>1. FutureOK(f)
        BY Parts
      <4> QED
        BY <2>3, <4>1 DEF FutureOK, WaitsForTouch
    <3>5. Stacked' /\ Runtime'
      BY <1>1, <1>2, <3>1, <3>2, <3>4 DEF Stacked, Runtime
    <3>6. {rpc, rpc'} \cap {"rtatomic", "capture"} = {}
      BY <1>1, <3>1
    <3> QED
      BY <1>1, <1>2, <3>3, <3>5, <3>6, QuietKeeps
  <2>4. CASE ~WaitsForTouch(f, target[f])
    <3>1. UNCHANGED <<rpc, job, other>>
      BY <1>6, <2>2, <2>4 DEF CheckTouch
    <3> QED
      BY <1>1, <1>4, <2>1, <3>1
  <2> QED
    BY <2>3, <2>4
<1> QED
  BY <1>5, <1>6

\* ... one of which is chained, or complete.
LEMMA ChainStep ==
  ASSUME IInv, Chain, rpc' # "twice"
  PROVE  IInv'
<1>1. /\ rpc = "chain" /\ rpc' = "touch" /\ job' = NoFuture /\ other' = NoFuture
      /\ UNCHANGED <<suspended_lw, prim, target, in_specific, no_retval, waiting_atomic,
                     waiting_touch, waiting_lwc, alive, ready, line, wpc, cur, fsemaFt, withheld, stack>>
  BY DEF Chain, fsemaVars, workerVars
<1>2. TypeOK /\ Stacked /\ Runtime /\ (ready > 0 => line = <<>>)
  BY Parts
<1>3. PICK t \in Future : t = job
  BY <1>1, <1>2, Numbers DEF TypeOK, Runtime
<1>4. PICK g \in Future : g = other
  BY <1>1, <1>2, Numbers DEF TypeOK, Runtime
<1>5. Stacked' /\ NoFuture \in 0..N
  BY <1>1, <1>2, Numbers DEF Stacked
<1>6. CASE status[g] = "FINISHED"
  <2>1. CompleteRtcall(<<t>>, [status EXCEPT ![t] = "HANDLING_PRIM"], sema) /\ touching' = touching
    BY <1>3, <1>4, <1>6 DEF Chain
  <2>2. status[t] = "WAITING_FOR_PRIM" /\ FutureOK(t)
    BY <1>3, <1>4, <1>6, Parts DEF Chain
  <2>3. ~Call(stack, t)
    BY <2>2 DEF FutureOK, Handled
  <2>4. PICK st \in [Future -> Status] : st = [status EXCEPT ![t] = "HANDLING_PRIM"]
    BY <1>2 DEF TypeOK, Status
  <2>5. st[t] = "HANDLING_PRIM" /\ \A f \in Future \ {t} : st[f] = status[f]
    BY <1>2, <2>4 DEF TypeOK
  <2>6. (status' \in [Future -> Status] /\ queue' \in Seq(Future) /\ pending' \in Nat
         /\ want_lw' \in [Future -> BOOLEAN] /\ can_continue' \in [Future -> Worker \cup {NoWorker}]
         /\ sema' \in [Worker -> 0..1]) => TypeOK'
    BY <1>1, <1>2, <1>5, <2>1 DEF TypeOK
  <2>7. CompleteRtcall(<<t>>, st, sema)
    BY <2>1, <2>4
  <2> QED
    BY <1>1, <1>3, <1>5, <2>2, <2>3, <2>5, <2>6, <2>7, CompleteKeeps
<1>7. CASE status[g] # "FINISHED"
  <2>1. /\ touching' = [touching EXCEPT ![g] = <<t>> \o @]
        /\ UNCHANGED <<status, queue, pending, want_lw, can_continue, sema>>
    BY <1>3, <1>4, <1>7 DEF Chain
  <2>2. touching \in [Future -> Seq(Future)] /\ touching[g] \in Seq(Future) /\ <<t>> \o touching[g] \in Seq(Future)
    BY <1>2 DEF TypeOK
  <2>3. touching' \in [Future -> Seq(Future)]
    BY <2>1, <2>2
  <2>4. TypeOK'
    BY <1>1, <1>2, <1>5, <2>1, <2>3 DEF TypeOK
  <2>5. Runtime'
    BY <1>1, <1>2 DEF Runtime
  <2>6. {rpc, rpc'} \cap {"rtatomic", "capture"} = {}
    BY <1>1
  <2> QED
    BY <1>1, <1>2, <1>5, <2>1, <2>4, <2>5, <2>6, QuietKeeps
<1> QED
  BY <1>6, <1>7

\* ... or is complete a second time, which leaves no more than the types.
LEMMA ChainTwice ==
  ASSUME IInv, Chain, rpc' = "twice"
  PROVE  TypeOK'
<1>1. /\ rpc = "chain" /\ job' = NoFuture /\ other' = NoFuture
      /\ UNCHANGED <<suspended_lw, prim, target, in_specific, no_retval, waiting_atomic,
                     waiting_touch, waiting_lwc, alive, ready, line, wpc, cur, fsemaFt, withheld, stack>>
  BY DEF Chain, fsemaVars, workerVars
<1>2. TypeOK /\ Runtime /\ NoFuture \in 0..N /\ \A f \in Future : FutureOK(f)
  BY Parts, Numbers
<1>3. PICK t \in Future : t = job
  BY <1>1, <1>2, Numbers DEF TypeOK, Runtime
<1>4. PICK st \in [Future -> Status] : st = [status EXCEPT ![t] = "HANDLING_PRIM"]
  BY <1>2 DEF TypeOK, Status
<1>5. PICK fs \in Seq(Future) : fs = <<t>>
  BY OneFacts
<1>6. CompleteRtcall(fs, st, sema) /\ touching' = touching
  BY <1>3, <1>4, <1>5 DEF Chain
<1>7. PICK blocked \in SUBSET {t} : blocked = {f \in Future : Has(fs, f) /\ ~suspended_lw[f]}
  BY <1>5, OneFacts
<1>8. PICK rs \in Seq(Future) : rs = At(fs, {i \in DOMAIN fs : suspended_lw[fs[i]]})
  BY AtFacts
<1>9. /\ Requeue(rs, st)
      /\ want_lw' = [f \in Future |-> want_lw[f] /\ f \notin blocked]
      /\ can_continue' = [f \in Future |-> IF f \in blocked THEN NoWorker ELSE can_continue[f]]
      /\ sema' = [w \in Worker |-> sema[w] + Cardinality({f \in blocked : can_continue[f] = w})]
  BY <1>6, <1>7, <1>8 DEF CompleteRtcall
<1>10. status' \in [Future -> Status] /\ queue' \in Seq(Future) /\ pending' \in Nat
  <2>1. status' \in [Future -> Status]
    BY <1>9 DEF Requeue, Status
  <2>2. queue \in Seq(Future) /\ pending \in Nat /\ Len(rs) \in Nat
    BY <1>2 DEF TypeOK
  <2>3. CASE alive
    <3>1. queue' = queue \o rs /\ pending' = pending + Len(rs)
      BY <1>9, <2>3 DEF Requeue, Enqueue
    <3> QED
      BY <2>1, <2>2, <3>1
  <2>4. CASE ~alive
    BY <1>9, <2>1, <2>2, <2>4 DEF Requeue
  <2> QED
    BY <2>3, <2>4
<1>11. want_lw' \in [Future -> BOOLEAN] /\ can_continue' \in [Future -> Worker \cup {NoWorker}]
  BY <1>2, <1>9 DEF TypeOK
<1>12. sema' \in [Worker -> 0..1]
  <2>1. ASSUME NEW w \in Worker PROVE sema[w] + Cardinality({f \in blocked : can_continue[f] = w}) \in 0..1
    <3>1. sema[w] \in 0..1
      BY <1>2 DEF TypeOK
    <3>2. CASE {f \in blocked : can_continue[f] = w} = {}
      <4>1. Cardinality({f \in blocked : can_continue[f] = w}) = 0
        BY <3>2, FS_EmptySet, Zenon
      <4> QED
        BY <3>1, <4>1
    <3>3. CASE {f \in blocked : can_continue[f] = w} # {}
      <4>1. {f \in blocked : can_continue[f] = w} = {t} /\ can_continue[t] = w
        BY <1>7, <3>3
      <4>2. sema[w] = 0
        BY <1>2, <4>1, FuturesAssumption DEF FutureOK
      <4>3. Cardinality({f \in blocked : can_continue[f] = w}) = 1
        BY <4>1, FS_Singleton
      <4> QED
        BY <4>2, <4>3
    <3> QED
      BY <3>2, <3>3
  <2> QED
    BY <1>9, <2>1
<1> QED
  BY <1>1, <1>2, <1>6, <1>10, <1>11, <1>12 DEF TypeOK

\* The continuations that are to be captured.
LEMMA CheckLwcStep ==
  ASSUME IInv, CheckLwc
  PROVE  IInv'
<1>1. /\ rpc = "lwc"
      /\ UNCHANGED <<status, queue, pending, suspended_lw, want_lw, prim, target, in_specific, no_retval,
                     touching, waiting_atomic, waiting_touch, alive, ready, line, wpc, cur, fsemaFt, sema, other,
                     stack>>
  BY DEF CheckLwc, fsemaVars, workerVars
<1>2. /\ TypeOK /\ (ready > 0 => line = <<>>) /\ WellStacked(stack) /\ job = NoFuture /\ withheld = NoWorker
      /\ PendingQueue /\ Distinct(line)
  BY <1>1, RuntimeFacts DEF Plain
<1>3. waiting_lwc \in Seq(Future)
  BY <1>2 DEF TypeOK
<1>4. ASSUME waiting_lwc' \in Seq(Future), UNCHANGED <<job, other, withheld, can_continue>>, rpc' = "run",
             \A f \in Future : Has(waiting_lwc, f) /\ want_lw[f] => Has(waiting_lwc', f)
      PROVE  IInv'
  <2>1. TypeOK'
    BY <1>1, <1>2, <1>4 DEF TypeOK
  <2>2. rpc \in Plain /\ rpc' \in Plain /\ rpc' # "raise"
    BY <1>1, <1>4 DEF Plain
  <2> QED
    BY <1>1, <1>2, <1>4, <2>1, <2>2, QuietRuntime
<1>5. CASE waiting_lwc = <<>>
  BY <1>3, <1>4, <1>5 DEF CheckLwc
<1>6. CASE waiting_lwc # <<>>
  <2>1. /\ waiting_lwc' = Tail(waiting_lwc) /\ Tail(waiting_lwc) \in Seq(Future)
        /\ \A x : Has(waiting_lwc, x) <=> x = Head(waiting_lwc) \/ Has(waiting_lwc', x)
    BY <1>3, <1>6, TailFacts DEF CheckLwc
  <2>2. PICK f \in Future : f = Head(waiting_lwc)
    BY <1>3, <1>6, TailFacts
  <2>3. CASE ~want_lw[f]
    <3>1. rpc' = "run" /\ UNCHANGED <<job, other, withheld, can_continue>>
      BY <1>6, <2>2, <2>3 DEF CheckLwc
    <3>2. \A g \in Future : Has(waiting_lwc, g) /\ want_lw[g] => Has(waiting_lwc', g)
      BY <2>1, <2>2, <2>3
    <3> QED
      BY <1>4, <2>1, <3>1, <3>2
  <2>4. CASE want_lw[f]
    <3>1. /\ rpc' = "capture" /\ job' = f /\ withheld' = can_continue[f]
          /\ can_continue' = [can_continue EXCEPT ![f] = NoWorker]
      BY <1>6, <2>2, <2>4 DEF CheckLwc
    <3>2. /\ FutureOK(f) /\ f \in 0..N /\ f # NoFuture /\ Unique
          /\ \A x \in Worker : WorkerOK(x)
      BY Parts, Numbers
    <3>3. PICK w \in Worker : Waits(w, f) /\ Blocked(w, f)
      BY <2>4, <3>2 DEF FutureOK
    <3>4. /\ cur[w] = f /\ wpc[w] \in {"wait", "fwait"} /\ sema[w] = 0 /\ can_continue[f] = w
          /\ status[f] \in {"WAITING_FOR_PRIM", "WAITING_FOR_FSEMA"}
      BY <1>2, <2>4, <3>2, <3>3, FuturesAssumption DEF Waits, Blocked, FutureOK
    <3>5. ~suspended_lw[f] /\ (wpc[w] = "fwait" => fsemaFt[w] = f) /\ (wpc[w] = "wait" => fsemaFt[w] = NoFuture)
      BY <1>2, <3>2, <3>4, Holder
    <3>6. \A x \in Worker \ {w} : cur[x] # f /\ fsemaFt[x] # f
      <4>1. ASSUME NEW x \in Worker, fsemaFt[x] = f PROVE x = w
        <5>1. status[f] = "WAITING_FOR_FSEMA"
          BY <1>2, <3>2, <4>1, Holder
        <5>2. wpc[w] = "fwait"
          BY <1>2, <3>2, <3>4, <5>1, Holder
        <5> QED
          BY <3>2, <3>5, <4>1, <5>2 DEF Unique
      <4> QED
        BY <3>2, <3>4, <4>1 DEF Unique
    <3>7. /\ withheld' = w /\ can_continue'[f] = NoWorker
          /\ \A g \in Future \ {f} : can_continue'[g] = can_continue[g]
      BY <1>2, <3>1, <3>4 DEF TypeOK
    <3>8. can_continue' \in [Future -> Worker \cup {NoWorker}]
      BY <1>2, <3>1 DEF TypeOK
    <3>9. TypeOK'
      BY <1>1, <1>2, <2>1, <3>1, <3>2, <3>7, <3>8 DEF TypeOK
    <3>10. ~Call(stack, f) /\ ~Body(stack, f)
      BY <3>2, <3>4 DEF FutureOK, Handled
    <3>11. Waits(w, f)' /\ Blocked(w, f)'
      BY <1>1, <3>4, <3>7 DEF Waits, Blocked
    <3>12. FutureOK(f)'
      <4>1. ~Handled(f)' /\ ~Body(stack, f)'
        BY <1>1, <3>1, <3>10 DEF Handled, Call, Body
      <4>2. /\ prim'[f] = "touch" => target'[f] # NoFuture
            /\ status[f] \in {"WAITING_FOR_PRIM", "HANDLING_PRIM"} =>
                 suspended_lw'[f] \/ \E x \in Worker : cur'[x] = f /\ wpc'[x] = "wait"
            /\ status[f] = "WAITING_FOR_FSEMA" => Has(line', f) \/ \E x \in Worker : fsemaFt'[x] = f
            /\ ~Has(line', f)
        BY <1>1, <3>2, <3>5 DEF FutureOK
      <4>3. status'[f] = status[f]
        BY <1>1
      <4> QED
        BY <3>4, <3>7, <3>11, <4>1, <4>2, <4>3 DEF FutureOK
    <3>13. WorkerOK(w)'
      <4>1. status'[f] = status[f] /\ want_lw'[f] /\ ~suspended_lw'[f]
        BY <1>1, <2>4, <3>5
      <4>2. /\ wpc'[w] = wpc[w] /\ cur'[w] = f /\ fsemaFt'[w] = fsemaFt[w] /\ sema'[w] = 0
            /\ can_continue'[f] # w
        BY <1>1, <3>4, <3>7, FuturesAssumption
      <4>3. wpc[w] = "wait" => status[f] = "WAITING_FOR_PRIM"
        BY <1>2, <3>2, <3>4, Holder
      <4>4. wpc[w] = "fwait" => status[f] = "WAITING_FOR_FSEMA"
        BY <1>2, <3>2, <3>4, Holder
      <4>5. CASE wpc[w] = "wait"
        BY <3>2, <3>5, <3>11, <4>1, <4>2, <4>3, <4>5 DEF WorkerOK
      <4>6. CASE wpc[w] = "fwait"
        BY <3>2, <3>5, <3>11, <4>1, <4>2, <4>4, <4>6 DEF WorkerOK
      <4> QED
        BY <3>4, <4>5, <4>6
    <3>14. Beside(f, w, {})
      <4>1. ASSUME NEW g \in Future \ {f} PROVE SameFuture(g)
        BY <1>1, <3>1, <3>7 DEF SameFuture, SameHolders
      <4>2. ASSUME NEW x \in Worker \ {w} PROVE SamePlace(x) /\ sema'[x] = sema[x]
        BY <1>1, <1>2, <3>7, FuturesAssumption DEF SamePlace
      <4>3. \A g \in Future : Has(waiting_lwc, g) /\ want_lw[g] /\ g # f => Has(waiting_lwc', g)
        BY <2>1, <2>2
      <4>4. /\ cur[w] \in {f, NoFuture} /\ cur'[w] \in {f, NoFuture}
            /\ fsemaFt[w] \in {f, NoFuture} /\ fsemaFt'[w] \in {f, NoFuture}
        BY <1>1, <3>4, <3>5
      <4> QED
        BY <4>1, <4>2, <4>3, <4>4 DEF Beside
    <3>15. Stacked'
      BY <1>1, <1>2, <3>1 DEF Stacked
    <3>16. Runtime'
      <4>1. want_lw'[f]
        BY <1>1, <2>4
      <4>2. sema'[w] = 0 /\ w # NoWorker
        BY <1>1, <3>4, FuturesAssumption
      <4> QED
        BY <3>1, <3>2, <3>7, <3>11, <4>1, <4>2 DEF Runtime
    <3>17. PendingQueue'
      BY <1>1, <1>2 DEF PendingQueue
    <3>18. \A x \in Worker : x = w \/ (f # NoFuture /\ (cur[x] = f \/ fsemaFt[x] = f)) => WorkerOK(x)'
      BY <3>6, <3>13
    <3>19. Distinct(line') /\ (ready' > 0 => line' = <<>>)
      BY <1>1, <1>2
    <3> QED
      BY <3>2, <3>6, <3>9, <3>12, <3>14, <3>15, <3>16, <3>17, <3>18, <3>19, StepKeeps
  <2> QED
    BY <2>3, <2>4
<1> QED
  BY <1>5, <1>6

\* capture_future_continuation.
LEMMA CaptureStep ==
  ASSUME IInv, Capture
  PROVE  IInv'
<1>1. /\ rpc = "capture" /\ rpc' = "lwc" /\ job' = NoFuture /\ withheld' = NoWorker
      /\ UNCHANGED <<status, queue, pending, can_continue, prim, target, in_specific, no_retval, touching,
                     waiting_atomic, waiting_touch, waiting_lwc, alive, ready, line, wpc, fsemaFt, other, stack>>
  BY DEF Capture, listVars, fsemaVars
<1>2. /\ TypeOK /\ (ready > 0 => line = <<>>) /\ Stacked /\ Runtime /\ PendingQueue /\ Distinct(line) /\ Unique
      /\ \A x \in Worker : WorkerOK(x)
  BY Parts
<1>3. PICK f \in Future : f = job
  BY <1>1, <1>2, Numbers DEF TypeOK, Runtime
<1>4. PICK w \in Worker : w = withheld
  BY <1>1, <1>2 DEF TypeOK, Runtime
<1>5. /\ FutureOK(f) /\ f \in 0..N /\ f # NoFuture /\ NoFuture \in 0..N
  BY Parts, Numbers
<1>6. /\ cur[w] = f /\ wpc[w] \in {"wait", "fwait"} /\ sema[w] = 0 /\ can_continue[f] = NoWorker
      /\ want_lw[f] \/ status[f] = "HANDLING_PRIM"
  BY <1>1, <1>2, <1>3, <1>4 DEF Runtime, Waits
<1>7. /\ ~suspended_lw[f] /\ (wpc[w] = "fwait" => fsemaFt[w] = f /\ status[f] = "WAITING_FOR_FSEMA")
      /\ wpc[w] = "wait" => fsemaFt[w] = NoFuture /\ status[f] \in {"WAITING_FOR_PRIM", "HANDLING_PRIM"}
  BY <1>2, <1>6, Holder
<1>8. \A x \in Worker \ {w} : cur[x] # f /\ fsemaFt[x] # f
  <2>1. ASSUME NEW x \in Worker, fsemaFt[x] = f PROVE x = w
    <3>1. status[f] = "WAITING_FOR_FSEMA"
      BY <1>2, <2>1, Holder
    <3>2. wpc[w] = "fwait"
      BY <1>6, <1>7, <3>1
    <3> QED
      BY <1>2, <1>5, <1>7, <2>1, <3>2 DEF Unique
  <2> QED
    BY <1>2, <1>5, <1>6, <2>1 DEF Unique
<1>9. /\ want_lw' = [want_lw EXCEPT ![f] = FALSE]
      /\ suspended_lw' = [suspended_lw EXCEPT ![f] = want_lw[f]]
      /\ cur' = IF want_lw[f] THEN [cur EXCEPT ![w] = NoFuture] ELSE cur
      /\ sema' = [sema EXCEPT ![w] = @ + 1]
  BY <1>3, <1>4 DEF Capture
<1>10. /\ ~want_lw'[f] /\ \A g \in Future \ {f} : want_lw'[g] = want_lw[g]
       /\ want_lw' \in [Future -> BOOLEAN]
  BY <1>2, <1>9 DEF TypeOK
<1>11. /\ suspended_lw'[f] = want_lw[f] /\ \A g \in Future \ {f} : suspended_lw'[g] = suspended_lw[g]
  BY <1>2, <1>9 DEF TypeOK
<1>12. suspended_lw' \in [Future -> BOOLEAN]
  BY <1>2, <1>9 DEF TypeOK
<1>13. /\ want_lw[f] => cur'[w] = NoFuture
       /\ ~want_lw[f] => cur'[w] = f
       /\ \A x \in Worker \ {w} : cur'[x] = cur[x]
       /\ cur' \in [Worker -> 0..N]
  BY <1>2, <1>5, <1>6, <1>9 DEF TypeOK
<1>14. /\ sema'[w] = 1 /\ \A x \in Worker \ {w} : sema'[x] = sema[x]
       /\ sema' \in [Worker -> 0..1]
  BY <1>2, <1>6, <1>9 DEF TypeOK
<1>15. TypeOK'
  BY <1>1, <1>2, <1>5, <1>10, <1>12, <1>13, <1>14 DEF TypeOK
<1>16. want_lw[f] => status[f] \in {"WAITING_FOR_PRIM", "WAITING_FOR_FSEMA"}
  BY <1>5 DEF FutureOK
<1>17. ~Handled(f) /\ ~Body(stack, f) /\ ~Has(line, f)
  BY <1>5, <1>6, <1>7 DEF FutureOK
<1>18. ~Handled(f)' /\ ~Body(stack, f)' /\ ~Has(line', f)
  BY <1>1, <1>17 DEF Handled, Body, Call
<1>19. FutureOK(f)'
  <2>1. /\ prim'[f] = "touch" => target'[f] # NoFuture
        /\ status'[f] = status[f] /\ can_continue'[f] = NoWorker /\ wpc'[w] = wpc[w] /\ fsemaFt'[w] = fsemaFt[w]
    BY <1>1, <1>5, <1>6 DEF FutureOK
  <2>2. CASE want_lw[f]
    <3>1. suspended_lw'[f]
      BY <1>11, <2>2
    <3>2. status[f] = "WAITING_FOR_FSEMA" => fsemaFt'[w] = f
      BY <1>6, <1>7, <2>1
    <3> QED
      BY <1>10, <1>16, <1>18, <2>1, <2>2, <3>1, <3>2 DEF FutureOK
  <2>3. CASE ~want_lw[f]
    <3>1. status[f] = "HANDLING_PRIM"
      BY <1>6, <2>3
    <3>2. wpc'[w] = "wait" /\ cur'[w] = f /\ sema'[w] = 1
      BY <1>6, <1>7, <1>13, <1>14, <2>1, <2>3, <3>1
    <3> QED
      BY <1>10, <1>18, <2>1, <3>1, <3>2 DEF FutureOK
  <2> QED
    BY <2>2, <2>3
<1>20. WorkerOK(w)'
  <2>1. status'[f] = status[f] /\ wpc'[w] = wpc[w] /\ fsemaFt'[w] = fsemaFt[w]
    BY <1>1
  <2>2. CASE want_lw[f]
    <3>1. suspended_lw'[f] /\ cur'[w] = NoFuture
      BY <1>11, <1>13, <2>2
    <3>2. CASE wpc[w] = "wait"
      BY <1>7, <1>14, <2>1, <3>1, <3>2 DEF WorkerOK
    <3>3. CASE wpc[w] = "fwait"
      BY <1>5, <1>7, <1>14, <2>1, <3>1, <3>3 DEF WorkerOK
    <3> QED
      BY <1>6, <3>2, <3>3
  <2>3. CASE ~want_lw[f]
    <3>1. ~suspended_lw'[f] /\ cur'[w] = f /\ status[f] = "HANDLING_PRIM"
      BY <1>6, <1>11, <1>13, <2>3
    <3>2. wpc'[w] = "wait"
      BY <1>6, <1>7, <2>1, <3>1
    <3> QED
      BY <1>5, <1>7, <1>14, <2>1, <3>1, <3>2 DEF WorkerOK
  <2> QED
    BY <2>2, <2>3
<1>21. Beside(f, w, {})
  <2>1. ASSUME NEW g \in Future \ {f} PROVE SameFuture(g)
    BY <1>1, <1>3, <1>10, <1>11 DEF SameFuture, SameHolders
  <2>2. ASSUME NEW x \in Worker \ {w} PROVE SamePlace(x) /\ sema'[x] = sema[x]
    BY <1>1, <1>4, <1>13, <1>14, FuturesAssumption DEF SamePlace
  <2>3. /\ cur[w] \in {f, NoFuture} /\ cur'[w] \in {f, NoFuture}
        /\ fsemaFt[w] \in {f, NoFuture} /\ fsemaFt'[w] \in {f, NoFuture}
    BY <1>1, <1>6, <1>7, <1>13
  <2> QED
    BY <1>1, <2>1, <2>2, <2>3 DEF Beside
<1>22. Stacked' /\ Runtime'
  BY <1>1, <1>2 DEF Stacked, Runtime
<1>23. PendingQueue'
  BY <1>1, <1>2 DEF PendingQueue
<1>24. \A x \in Worker : x = w \/ (f # NoFuture /\ (cur[x] = f \/ fsemaFt[x] = f)) => WorkerOK(x)'
  BY <1>8, <1>20
<1>25. Distinct(line') /\ (ready' > 0 => line' = <<>>)
  BY <1>1, <1>2
<1> QED
  BY <1>5, <1>8, <1>15, <1>19, <1>21, <1>22, <1>23, <1>24, <1>25, StepKeeps

----------------------------------------------------------------------------
(* The theorems.                                                           *)

\* The invariant holds when the runtime starts.
LEMMA InitEstablishes == Init => IInv
<1> SUFFICES ASSUME Init PROVE IInv
  OBVIOUS
<1>1. NoFuture \notin Future /\ NoFuture \in 0..N /\ NoWorker \notin Worker
  BY Numbers, FuturesAssumption
<1>2. TypeOK
  BY <1>1 DEF Init, TypeOK, Status
<1>3. \A f : ~Has(line, f) /\ ~Has(queue, f) /\ ~Body(stack, f) /\ ~Call(stack, f)
  BY DEF Init, Has, Body, Call
<1>4. ASSUME NEW f \in Future PROVE FutureOK(f)
  <2>1. /\ status[f] = "none" /\ prim[f] = "none" /\ can_continue[f] = NoWorker /\ ~want_lw[f]
        /\ rpc = "run"
    BY DEF Init
  <2> QED
    BY <1>3, <2>1 DEF FutureOK, Handled
<1>5. ASSUME NEW w \in Worker PROVE WorkerOK(w)
  BY DEF Init, WorkerOK
<1>6. Unique /\ Stacked /\ Runtime
  BY DEF Init, Unique, Distinct, Stacked, WellStacked, Runtime
<1>7. PendingQueue
  <2>1. \A f \in Future : status[f] # "PENDING"
    BY DEF Init
  <2>2. queue = <<>> /\ pending = 0
    BY DEF Init
  <2> QED
    BY <1>3, <2>1, <2>2 DEF PendingQueue
<1>8. ready > 0 => line = <<>>
  BY DEF Init
<1> QED
  BY <1>2, <1>4, <1>5, <1>6, <1>7, <1>8 DEF IInv

\* A step that changes nothing.
LEMMA StutterStep ==
  ASSUME IInv, UNCHANGED vars
  PROVE  IInv'
<1>1. UNCHANGED <<status, queue, pending, suspended_lw, want_lw, can_continue, prim, target, in_specific,
                  no_retval, touching, waiting_atomic, waiting_touch, waiting_lwc, alive, ready, line,
                  wpc, cur, fsemaFt, sema, rpc, job, other, withheld, stack>>
  BY DEF vars, futVars, listVars, fsemaVars, workerVars, checkVars
<1>2. TypeOK /\ Stacked /\ Runtime /\ (ready > 0 => line = <<>>)
  BY Parts
<1>3. TypeOK'
  BY <1>1, <1>2 DEF TypeOK
<1>4. Stacked' /\ Runtime'
  BY <1>1, <1>2 DEF Stacked, Runtime, Waits
<1> QED
  BY <1>1, <1>2, <1>3, <1>4, QuietKeeps

\* Every step preserves the invariant, unless it completes a touch twice.
LEMMA StepPreserves ==
  ASSUME IInv, [Next]_vars, rpc' # "twice"
  PROVE  IInv'
<1>1. CASE UNCHANGED vars
  BY <1>1, StutterStep
<1>2. ASSUME NEW w \in Worker, WorkerStep(w) PROVE IInv'
  <2>1. CASE Take(w)
    BY <2>1, TakeStep
  <2>2. CASE TouchCall(w)
    BY <2>2, TouchCallStep
  <2>3. CASE Continue(w)
    BY <2>3, ContinueStep
  <2>4. CASE FutureCaptured(w)
    BY <2>4, FutureCapturedStep
  <2>5. CASE FutureInLine(w)
    BY <2>5, FutureInLineStep
  <2>6. ASSUME NEW f \in Future,
               \/ Return(w, f) \/ AtomicCall(w, f) \/ BlockingCall(w, f)
               \/ FuturePosts(w, f) \/ FutureWaits(w, f)
        PROVE  IInv'
    BY <2>6, ReturnStep, AtomicCallStep, BlockingCallStep, FuturePostsStep, FutureWaitsStep
  <2>7. ASSUME NEW f \in Future, NEW g \in Future, Touch(w, f, g) \/ FutureMakesFuture(w, f, g)
        PROVE  IInv'
    BY <2>7, TouchStep, FutureMakesFutureStep
  <2> QED
    BY <1>2, <2>1, <2>2, <2>3, <2>4, <2>5, <2>6, <2>7 DEF WorkerStep
<1>3. ASSUME RuntimeStep PROVE IInv'
  <2>1. CASE FsemaphoreReady \/ TakeReady \/ Unwind \/ Yield
    BY <2>1, FsemaphoreReadyStep, TakeReadyStep, UnwindStep, YieldStep
  <2>2. CASE CheckAtomic \/ AtomicDone \/ CheckTouch \/ Chain \/ CheckLwc \/ Capture
    BY <2>2, CheckAtomicStep, AtomicDoneStep, CheckTouchStep, ChainStep, CheckLwcStep, CaptureStep
  <2>3. ASSUME NEW f \in Future, TouchTurn(f) \/ BodyReturns(f) \/ Raise(f) \/ DoInvokeRtcall(f)
        PROVE  IInv'
    BY <2>3, TouchTurnStep, BodyReturnsStep, RaiseStep, DoInvokeRtcallStep
  <2> QED
    BY <1>3, <2>1, <2>2, <2>3 DEF RuntimeStep
<1>4. ASSUME Program PROVE IInv'
  <2>1. CASE Shutdown
    BY <2>1, ShutdownStep
  <2>2. ASSUME NEW f \in 0..N, RuntimePosts(f) \/ RuntimeWaits(f) PROVE IInv'
    BY <2>2, RuntimePostsStep, RuntimeWaitsStep
  <2>3. ASSUME NEW f \in 0..N, NEW g \in Future, RuntimeMakesFuture(f, g) \/ RuntimeTouches(f, g)
        PROVE  IInv'
    BY <2>3, RuntimeMakesFutureStep, RuntimeTouchesStep
  <2> QED
    BY <1>4, <2>1, <2>2, <2>3 DEF Program
<1> QED
  BY <1>1, <1>2, <1>3, <1>4 DEF Next

\* Only Chain completes a touch twice, ...
LEMMA OnlyChain ==
  ASSUME Next, rpc # "twice", rpc' = "twice"
  PROVE  Chain
<1>1. ASSUME NEW w \in Worker, WorkerStep(w) PROVE rpc' = rpc
  BY <1>1 DEF WorkerStep, Take, TouchCall, Continue, FutureCaptured, FutureInLine, Return, AtomicCall,
     BlockingCall, FuturePosts, FutureWaits, Touch, FutureMakesFuture
<1>2. ASSUME Program PROVE rpc' = rpc
  BY <1>2 DEF Program, Shutdown, RuntimePosts, RuntimeWaits, RuntimeMakesFuture, RuntimeTouches
<1>3. ASSUME RuntimeStep PROVE Chain
  <2>1. CASE FsemaphoreReady \/ TakeReady \/ Unwind \/ Yield
    BY <2>1 DEF FsemaphoreReady, TakeReady, Unwind, Yield
  <2>2. CASE CheckAtomic \/ AtomicDone \/ CheckTouch \/ CheckLwc \/ Capture
    BY <2>2 DEF CheckAtomic, AtomicDone, CheckTouch, CheckLwc, Capture
  <2>3. ASSUME NEW f \in Future, TouchTurn(f) \/ BodyReturns(f) \/ Raise(f) \/ DoInvokeRtcall(f)
        PROVE  FALSE
    BY <2>3 DEF TouchTurn, RunInRuntime, InvokeRtcall, BodyReturns, Raise, DoInvokeRtcall, MayYield
  <2> QED
    BY <1>3, <2>1, <2>2, <2>3 DEF RuntimeStep
<1> QED
  BY <1>1, <1>2, <1>3 DEF Next

\* ... and nothing happens after that.
LEMMA Stopped ==
  ASSUME Next, rpc = "twice"
  PROVE  FALSE
<1>1. ASSUME NEW w \in Worker, WorkerStep(w) PROVE FALSE
  BY <1>1 DEF WorkerStep, Take, TouchCall, Continue, FutureCaptured, FutureInLine, Return, AtomicCall,
     BlockingCall, FuturePosts, FutureWaits, Touch, FutureMakesFuture, Runs, Stands, Orderly
<1>2. ASSUME Program PROVE FALSE
  BY <1>2 DEF Program, Shutdown, RuntimePosts, RuntimeWaits, RuntimeMakesFuture, RuntimeTouches, InProgram, Top
<1>3. ASSUME RuntimeStep PROVE FALSE
  <2>1. CASE FsemaphoreReady \/ TakeReady \/ Unwind \/ Yield
    BY <2>1 DEF FsemaphoreReady, TakeReady, Unwind, Yield, InProgram, Top
  <2>2. CASE CheckAtomic \/ AtomicDone \/ CheckTouch \/ Chain \/ CheckLwc \/ Capture
    BY <2>2 DEF CheckAtomic, AtomicDone, CheckTouch, Chain, CheckLwc, Capture
  <2>3. ASSUME NEW f \in Future, TouchTurn(f) \/ BodyReturns(f) \/ Raise(f) \/ DoInvokeRtcall(f)
        PROVE  FALSE
    BY <2>3 DEF TouchTurn, BodyReturns, Raise, DoInvokeRtcall, Top
  <2> QED
    BY <1>3, <2>1, <2>2, <2>3 DEF RuntimeStep
<1> QED
  BY <1>1, <1>2, <1>3 DEF Next

\* The invariant holds in every state of a behaviour, but for the state in which
\* a touch has been completed twice, which keeps the types.
THEOREM Invariance == Spec => [](TypeOK /\ (Orderly => IInv))
<1> DEFINE Inv == TypeOK /\ (Orderly => IInv)
<1>1. Init => Inv
  BY InitEstablishes DEF IInv
<1>2. Inv /\ [Next]_vars => Inv'
  <2> SUFFICES ASSUME Inv, [Next]_vars PROVE Inv'
    OBVIOUS
  <2>1. CASE UNCHANGED vars
    <3>1. rpc' = rpc
      BY <2>1 DEF vars
    <3>2. TypeOK'
      BY <2>1 DEF TypeOK, vars, futVars, listVars, fsemaVars, workerVars, checkVars
    <3> QED
      BY <2>1, <3>1, <3>2, StutterStep DEF Orderly
  <2>2. CASE Next
    <3>1. IInv /\ rpc # "twice"
      BY <2>2, Stopped DEF Orderly
    <3>2. CASE rpc' = "twice"
      BY <2>2, <3>1, <3>2, OnlyChain, ChainTwice DEF Orderly
    <3>3. CASE rpc' # "twice"
      BY <2>2, <3>1, <3>3, StepPreserves DEF IInv
    <3> QED
      BY <3>2, <3>3
  <2> QED
    BY <2>1, <2>2
<1> QED
  BY <1>1, <1>2, PTL DEF Spec

\* The variables keep their types; a future thread's semaphore, for one, is
\* never posted twice, not even by the race of Chain.
THEOREM TypeCorrect == Spec => []TypeOK
BY Invariance, PTL

\* No future is forgotten or taken twice: enqueue_future, requeue_future_within_lock,
\* get_pending_future and future_in_runtime keep the queue as the set of the
\* futures that are pending, but for the race of Chain.
THEOREM NoFutureIsLost == Spec => []QueueIsPending
<1>1. (Orderly => IInv) => QueueIsPending
  BY DEF IInv, QueueIsPending
<1> QED
  BY <1>1, Invariance, PTL

\* A future is run by one future thread or in one touch of the runtime thread,
\* and never by two, but for the race of Chain.
THEOREM RunByOne == Spec => []OneRunner
<1>1. (Orderly => IInv) => OneRunner
  <2> SUFFICES ASSUME IInv, NEW f \in Future
               PROVE  Cardinality(Runners(f)) + Cardinality(Bodies(f)) = IF status[f] = "RUNNING" THEN 1 ELSE 0
    BY DEF OneRunner
  <2>1. /\ FutureOK(f) /\ TypeOK /\ Unique /\ \A w \in Worker : WorkerOK(w)
        /\ stack \in Seq(FrameSet) /\ WellStacked(stack) /\ f # NoFuture /\ f \in 0..N
    BY Parts, RuntimeFacts, Numbers
  <2>2. Cardinality({}) = 0
    BY FS_EmptySet
  <2>3. \A x : Cardinality({x}) = 1
    BY FS_Singleton
  <2>4. \A i \in DOMAIN stack : stack[i] = Frame("body", f) <=> stack[i].k = "body" /\ stack[i].f = f
    <3>1. \A i \in DOMAIN stack : stack[i] \in FrameSet
      BY <2>1
    <3> QED
      BY <3>1 DEF FrameSet, Frame
  <2>5. Runners(f) = {w \in Worker : Works(w, f)}
    BY DEF Runners, Works
  <2>6. Bodies(f) = {i \in DOMAIN stack : stack[i].k = "body" /\ stack[i].f = f}
    BY <2>4 DEF Bodies
  <2>7. CASE Body(stack, f)
    <3>1. status[f] = "RUNNING" /\ \A w \in Worker : cur[w] # f
      BY <2>7, BodyFacts
    <3>2. Runners(f) = {}
      BY <2>5, <3>1 DEF Works
    <3>3. PICK i \in DOMAIN stack : stack[i].k = "body" /\ stack[i].f = f
      BY <2>7 DEF Body
    <3>4. \A j \in DOMAIN stack : stack[j].k = "body" /\ stack[j].f = f => j = i
      BY <2>1, <3>3 DEF WellStacked, Busy
    <3>5. Bodies(f) = {i}
      BY <2>6, <3>3, <3>4
    <3>6. Cardinality(Runners(f)) = 0 /\ Cardinality(Bodies(f)) = 1
      BY <2>2, <2>3, <3>2, <3>5, Zenon
    <3> QED
      BY <3>1, <3>6
  <2>8. CASE ~Body(stack, f)
    <3>1. Bodies(f) = {}
      BY <2>6, <2>8 DEF Body
    <3>2. CASE status[f] = "RUNNING"
      <4>1. PICK w \in Worker : Works(w, f)
        BY <2>1, <2>8, <3>2 DEF FutureOK
      <4>2. Runners(f) = {w}
        BY <2>1, <2>5, <4>1 DEF Works, Unique
      <4>3. Cardinality(Runners(f)) = 1 /\ Cardinality(Bodies(f)) = 0
        BY <2>2, <2>3, <3>1, <4>2, Zenon
      <4> QED
        BY <3>2, <4>3
    <3>3. CASE status[f] # "RUNNING"
      <4>1. Runners(f) = {}
        BY <2>1, <2>5, <3>3 DEF Works, WorkerOK
      <4> QED
        BY <2>2, <3>1, <3>3, <4>1
    <3> QED
      BY <3>2, <3>3
  <2> QED
    BY <2>7, <2>8
<1> QED
  BY <1>1, Invariance, PTL

\* No future thread waits on its semaphore without somebody who will post it, and
\* no future is left as being handled: capture_future_continuation, complete_rtcall,
\* invoke_rtcall and a failing primitive agree on who has the semaphore,
\* but for the race of Chain.
THEOREM NobodyWaitsUnknown == Spec => []WaitersAreKnown
<1>1. (Orderly => IInv) => WaitersAreKnown
  <2> SUFFICES ASSUME IInv PROVE WaitersAreKnown
    BY DEF WaitersAreKnown
  <2>1. /\ Runtime /\ (\A f \in Future : FutureOK(f)) /\ NoWorker \notin Worker
        /\ \A w \in Worker : WorkerOK(w)
    BY Parts, FuturesAssumption
  <2>2. ASSUME NEW w \in Worker, withheld = w PROVE rpc = "capture" /\ cur[w] = job
    BY <2>1, <2>2 DEF Runtime, Waits
  <2>3. ASSUME NEW w \in Worker, wpc[w] \in {"wait", "fwait"}, sema[w] = 0
        PROVE  \/ withheld = w /\ cur[w] = job
               \/ /\ cur[w] # NoFuture /\ can_continue[cur[w]] = w
                  /\ \/ status[cur[w]] \in {"WAITING_FOR_PRIM", "HANDLING_PRIM"}
                     \/ wpc[w] = "fwait" /\ want_lw[cur[w]] /\ Has(waiting_lwc, cur[w])
    <3>1. CASE wpc[w] = "wait"
      BY <2>1, <2>2, <2>3, <3>1 DEF WorkerOK, Blocked
    <3>2. CASE wpc[w] = "fwait"
      BY <2>1, <2>2, <2>3, <3>2 DEF WorkerOK, Blocked
    <3> QED
      BY <2>3, <3>1, <3>2
  <2>4. ASSUME NEW f \in Future, status[f] = "HANDLING_PRIM"
        PROVE  \/ job = f
               \/ \E i \in DOMAIN stack : stack[i].f = f /\ stack[i].k \in {"prim", "touched"}
               \/ \E w \in Worker : cur[w] = f /\ wpc[w] = "wait" /\ sema[w] > 0
    BY <2>1, <2>4 DEF FutureOK, Handled, Call, Calling
  <2>5. ASSUME NEW f \in Future, want_lw[f]
        PROVE  /\ status[f] \in {"WAITING_FOR_PRIM", "WAITING_FOR_FSEMA"}
               /\ \E w \in Worker : /\ cur[w] = f /\ wpc[w] \in {"wait", "fwait"}
                                    /\ can_continue[f] = w \/ (withheld = w /\ job = f)
    <3>1. status[f] \in {"WAITING_FOR_PRIM", "WAITING_FOR_FSEMA"}
      BY <2>1, <2>5 DEF FutureOK
    <3>2. PICK w \in Worker : Waits(w, f) /\ Blocked(w, f)
      BY <2>1, <2>5 DEF FutureOK
    <3>3. can_continue[f] = w \/ (withheld = w /\ job = f)
      BY <2>2, <3>2 DEF Waits, Blocked
    <3> QED
      BY <3>1, <3>2, <3>3 DEF Waits
  <2> QED
    BY <2>3, <2>4, <2>5 DEF WaitersAreKnown
<1> QED
  BY <1>1, Invariance, PTL

\* A future in fsemaphore-wait is in line or about to be, and nobody is in line
\* when the semaphore is ready, but for the race of Chain.
THEOREM NobodyMissesPost == Spec => []NobodyLeftInLine
<1>1. (Orderly => IInv) => NobodyLeftInLine
  <2> SUFFICES ASSUME IInv PROVE NobodyLeftInLine
    BY DEF NobodyLeftInLine
  <2>1. /\ TypeOK /\ (\A f \in Future : FutureOK(f)) /\ (ready > 0 => line = <<>>)
        /\ \A w \in Worker : WorkerOK(w)
    BY Parts
  <2>2. ASSUME NEW f \in Future
        PROVE  status[f] = "WAITING_FOR_FSEMA" <=> Has(line, f) \/ \E w \in Worker : fsemaFt[w] = f
    <3>1. \A w \in Worker : fsemaFt[w] = f => status[f] = "WAITING_FOR_FSEMA"
      BY <2>1, Holder
    <3> QED
      BY <2>1, <3>1 DEF FutureOK
  <2> QED
    BY <2>1, <2>2 DEF NobodyLeftInLine
<1> QED
  BY <1>1, Invariance, PTL

=============================================================================
