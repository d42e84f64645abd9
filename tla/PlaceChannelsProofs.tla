------------------------ MODULE PlaceChannelsProofs -------------------------
(***************************************************************************)
(* Proofs, for any number of places, senders and receivers, any size of    *)
(* the ring and any number of messages, of the safety properties of module *)
(* PlaceChannels.  What concerns the places to wake up holds as long as    *)
(* the code does not write past the end of their vector (Fits); the order  *)
(* of the messages does not depend on it.                                  *)
(***************************************************************************)
EXTENDS PlaceChannels, FiniteSetTheorems, WellFoundedInduction, TLAPS

----------------------------------------------------------------------------
(* The inductive invariant.                                                *)

\* How far slot j of the ring is from the first message.
Offset(j) == IF j >= out THEN j - out ELSE j - out + size

\* The ring has the messages that were not received, from out on, and the next
\* one enters at in.
Ring ==
  /\ size \in Nat \ {0}
  /\ in = IF out + count < size THEN out + count ELSE out + count - size
  /\ \A j \in 0..(size - 1) : msgs[j] = IF Offset(j) < count THEN received + Offset(j) + 1 ELSE 0

\* Every message is in the ring, received, or with a sender that allocates.
Growing == {p \in Place : pc[p] = "grow"}
Sent == began = received + count + Cardinality(Growing)

\* A place is registered at most once.
Distinct == \A i, j \in DOMAIN wakeup : wakeup[i] = wakeup[j] /\ wakeup[i] # NoPlace => i = j

\* The references to a place object, and when it can be signalled.
ObjectOK(p) ==
  /\ signal_handle[p] <=> pc[p] \notin {"none", "ended", "gone"}
  /\ pc[p] = "none" => ~held[p] /\ p \notin Registered /\ p \notin destroyed
  /\ pc[p] # "none" =>
       /\ refcount[p] = (IF held[p] THEN 1 ELSE 0) + (IF pc[p] # "gone" THEN 1 ELSE 0)
                        + (IF p \in Registered THEN 1 ELSE 0)
       /\ p \in destroyed <=> refcount[p] = 0
Objects == \A p \in Place : ObjectOK(p)

\* A receiver that sleeps is registered.
Sleepers == \A p \in Receiver : pc[p] = "asleep" => p \in Registered

\* The part about the messages, which needs nothing else.
RingTyped ==
  /\ DOMAIN msgs = 0..(size - 1)
  /\ \A i \in 0..(size - 1) : msgs[i] \in 0..MaxSends
  /\ in \in 0..(size - 1) /\ out \in 0..(size - 1) /\ count \in 0..size
  /\ began \in 0..MaxSends /\ received \in 0..MaxSends

RInv == DOMAIN pc = Place /\ RingTyped /\ Ring /\ Sent

IInv == TypeOK /\ RInv /\ Distinct /\ Objects /\ Sleepers /\ SleepsOnlyWithoutMessages

\* There is room for a place that registers with a full vector.  A vector of
\* one slot is what is left when two places were registered and both are dead;
\* when one place has taken that slot, the next one to register writes past
\* the end of the vector that it makes.
Fits == many /\ Free = {} => Len(wakeup) # 1

----------------------------------------------------------------------------
(* Facts about numbers, the ring and the places to wake up.                *)

\* An index that has passed the end of a ring at most once.
LEMMA Wraps ==
  ASSUME NEW n \in Nat \ {0}, NEW a \in 0..(2 * n - 1)
  PROVE  a % n = IF a < n THEN a ELSE a - n
OBVIOUS

\* A set of natural numbers has a least one.
LEMMA LeastSlot ==
  ASSUME NEW S, S \subseteq Nat, S # {}
  PROVE  Min(S) \in S
<1> DEFINE R == OpToRel(<, Nat)
<1>1. IsWellFoundedOn(R, Nat)
  BY NatLessThanWellFounded
<1>2. \A m, n \in Nat : m < n => <<m, n>> \in R
  BY DEF OpToRel
<1> HIDE DEF R
<1>3. \E x \in S : \A y \in S : ~(<<y, x>> \in R)
  BY <1>1, WFMin, Zenon
<1>4. PICK x \in S : \A y \in S : ~(<<y, x>> \in R)
  BY <1>3
<1>5. ASSUME NEW y \in S PROVE x =< y
  <2>1. x \in Nat /\ y \in Nat
    OBVIOUS
  <2>2. ~(y < x)
    BY <1>2, <1>4, <2>1, Zenon
  <2> QED
    BY <2>1, <2>2
<1> QED
  BY <1>5 DEF Min

\* A sequence of places has finitely many slots.
LEMMA SlotSets ==
  ASSUME wakeup \in Seq(Place \cup {NoPlace}), NEW S \in SUBSET DOMAIN wakeup
  PROVE  IsFiniteSet(S) /\ Cardinality(S) \in 0..Len(wakeup)
<1>1. DOMAIN wakeup = 1..Len(wakeup) /\ Len(wakeup) \in Nat
  OBVIOUS
<1>2. \A n \in Nat : IsFiniteSet(1..n) /\ Cardinality(1..n) = n
  BY FS_Interval
<1>3. IsFiniteSet(S) /\ Cardinality(S) <= Len(wakeup)
  BY <1>1, <1>2, FS_Subset
<1> QED
  BY <1>1, <1>3, FS_CardinalityType

\* The references of the channel to a place: one or none.
LEMMA OneReference ==
  ASSUME wakeup \in Seq(Place \cup {NoPlace}), Distinct, NEW p \in Place
  PROVE  Cardinality({i \in DOMAIN wakeup : wakeup[i] = p}) = IF p \in Registered THEN 1 ELSE 0
<1> DEFINE S == {i \in DOMAIN wakeup : wakeup[i] = p}
<1>1. CASE p \in Registered
  <2>1. PICK i \in DOMAIN wakeup : wakeup[i] = p
    BY <1>1 DEF Registered
  <2>2. S = {i}
    BY <2>1, PlacesAssumption DEF Distinct
  <2> QED
    BY <1>1, <2>2, FS_Singleton
<1>2. CASE p \notin Registered
  <2>1. S = {}
    BY <1>2 DEF Registered
  <2> QED
    BY <1>2, <2>1, FS_EmptySet
<1> QED
  BY <1>1, <1>2

\* The vector without the dead places has the living ones, each once.
LEMMA LivingFacts ==
  ASSUME wakeup \in Seq(Place \cup {NoPlace}), Distinct
  PROVE  /\ Cardinality(LivingSlots) \in Nat
         /\ Living \in Seq(Place) /\ Len(Living) = Cardinality(LivingSlots)
         /\ \A p \in Place : (\E n \in DOMAIN Living : Living[n] = p) <=> p \in Registered /\ signal_handle[p]
         /\ \A m, n \in DOMAIN Living : Living[m] = Living[n] => m = n
<1> DEFINE L == LivingSlots
           c == Cardinality(L)
           f == [i \in L |-> Rank(i)]
<1>1. /\ IsFiniteSet(L) /\ c \in Nat /\ L \subseteq DOMAIN wakeup /\ DOMAIN wakeup \subseteq Nat
      /\ \A i \in L : wakeup[i] \in Place /\ signal_handle[wakeup[i]] /\ i \in Nat
  BY SlotSets DEF LivingSlots
<1> HIDE DEF L
<1>2. ASSUME NEW i \in L
      PROVE  /\ IsFiniteSet({j \in L : j <= i}) /\ Rank(i) = Cardinality({j \in L : j <= i})
             /\ Rank(i) \in 1..c /\ Rank(i) \in Nat
  <2>1. i \in {j \in L : j <= i} /\ {j \in L : j <= i} \subseteq L
    BY <1>1
  <2>2. IsFiniteSet({j \in L : j <= i}) /\ Cardinality({j \in L : j <= i}) <= c
    BY <1>1, <2>1, FS_Subset
  <2>3. Cardinality({j \in L : j <= i}) \in Nat /\ Cardinality({j \in L : j <= i}) # 0
    BY <2>1, <2>2, FS_EmptySet, FS_CardinalityType
  <2> QED
    BY <1>1, <2>2, <2>3 DEF Rank, L
<1>3. ASSUME NEW i \in L, NEW k \in L, i < k PROVE Rank(i) < Rank(k)
  <2>1. {j \in L : j <= i} \subseteq {j \in L : j <= k} \ {k}
    BY <1>1, <1>3
  <2>2. /\ IsFiniteSet({j \in L : j <= k} \ {k})
        /\ Cardinality({j \in L : j <= k} \ {k}) = Rank(k) - 1
    <3>1. k \in {j \in L : j <= k}
      BY <1>1
    <3> QED
      BY <1>2, <3>1, FS_RemoveElement
  <2>3. Cardinality({j \in L : j <= i}) <= Rank(k) - 1
    BY <2>1, <2>2, FS_Subset
  <2>4. Rank(i) = Cardinality({j \in L : j <= i}) /\ Rank(i) \in Nat /\ Rank(k) \in Nat
    BY <1>2
  <2> QED
    BY <2>3, <2>4
<1>4. ASSUME NEW i \in L, NEW k \in L, Rank(i) = Rank(k) PROVE i = k
  <2>1. i \in Nat /\ k \in Nat /\ Rank(i) \in Nat
    BY <1>1, <1>2
  <2>2. ~(i < k) /\ ~(k < i)
    BY <1>3, <1>4, <2>1
  <2> QED
    BY <2>1, <2>2
<1>5. f \in Injection(L, 1..c)
  BY <1>2, <1>4 DEF Injection, IsInjective
<1>6. IsFiniteSet(1..c) /\ Cardinality(1..c) = c
  BY <1>1, FS_Interval
<1>7. f \in Surjection(L, 1..c)
  BY <1>5, <1>6, FS_Injection
<1>8. \A n \in 1..c : \E i \in L : Rank(i) = n
  BY <1>7 DEF Surjection
<1>9. Living = [n \in 1..c |-> wakeup[CHOOSE i \in L : Rank(i) = n]]
  BY DEF Living, L
<1> DEFINE At(n) == CHOOSE i \in L : Rank(i) = n
<1>10. \A n \in 1..c : At(n) \in L /\ Rank(At(n)) = n /\ Living[n] = wakeup[At(n)]
  BY <1>8, <1>9
<1>11. \A i \in L : Rank(i) \in 1..c /\ At(Rank(i)) = i
  BY <1>2, <1>4
<1> HIDE DEF At
<1>12. Living \in Seq(Place) /\ Len(Living) = c /\ DOMAIN Living = 1..c
  <2>1. \A n \in 1..c : Living[n] \in Place
    BY <1>1, <1>10
  <2>2. DOMAIN Living = 1..c /\ Living = [n \in 1..c |-> Living[n]]
    BY <1>9
  <2>3. Living \in [1..c -> Place]
    BY <2>1, <2>2
  <2> QED
    BY <1>1, <2>2, <2>3
<1>13. ASSUME NEW p \in Place
       PROVE  (\E n \in DOMAIN Living : Living[n] = p) <=> p \in Registered /\ signal_handle[p]
  <2>1. ASSUME NEW n \in 1..c, Living[n] = p PROVE p \in Registered /\ signal_handle[p]
    BY <1>1, <1>10, <2>1 DEF Registered
  <2>2. ASSUME p \in Registered, signal_handle[p] PROVE \E n \in 1..c : Living[n] = p
    <3>1. PICK i \in DOMAIN wakeup : wakeup[i] = p
      BY <2>2 DEF Registered
    <3>2. i \in L
      BY <2>2, <3>1, PlacesAssumption DEF L, LivingSlots
    <3> QED
      BY <1>10, <1>11, <3>1, <3>2
  <2> QED
    BY <1>12, <2>1, <2>2
<1>14. ASSUME NEW m \in 1..c, NEW n \in 1..c, Living[m] = Living[n] PROVE m = n
  <2>1. At(m) = At(n)
    BY <1>1, <1>10, <1>14, PlacesAssumption DEF Distinct
  <2> QED
    BY <1>10, <2>1
<1> QED
  BY <1>1, <1>12, <1>13, <1>14 DEF L

\* 1 for a place that the channel refers to.
Ref(p) == IF p \in Registered THEN 1 ELSE 0

\* What a change of the places to wake up must do to the reference counts.
Recounted ==
  /\ refcount' = [p \in Place |-> refcount'[p]]
  /\ \A p \in Place : refcount'[p] = refcount[p] + Ref(p)' - Ref(p)
  /\ destroyed' = destroyed \cup Unreferenced(refcount')

Typed ==
  /\ wakeup \in Seq(Place \cup {NoPlace}) /\ many \in BOOLEAN
  /\ ~many => Len(wakeup) <= 1

\* The references stay counted when only the channel's change, no place comes
\* or goes, and only a living place is added.
LEMMA ObjectsKeep ==
  ASSUME TypeOK, Objects, Recounted, UNCHANGED <<signal_handle, held>>,
         \A q \in Place :
           \/ pc'[q] = pc[q]
           \/ {pc[q], pc'[q]} \cap {"none", "ended", "gone"} = {},
         \A q \in Place : q \in Registered' => q \in Registered \/ pc[q] \notin {"none", "gone"}
  PROVE  /\ Objects'
         /\ refcount' \in [Place -> Nat] /\ destroyed' \subseteq Place
<1>1. refcount \in [Place -> Nat] /\ destroyed \subseteq Place
  BY DEF TypeOK, PlaceTypeOK
<1>2. ASSUME NEW q \in Place
      PROVE  /\ pc'[q] \in {"none", "ended", "gone"} <=> pc[q] \in {"none", "ended", "gone"}
             /\ pc'[q] = "none" <=> pc[q] = "none"
             /\ pc'[q] = "gone" <=> pc[q] = "gone"
  OBVIOUS
<1>3. \A q \in Place : /\ Ref(q) \in {0, 1} /\ Ref(q)' \in {0, 1}
                       /\ (Ref(q) = 1 <=> q \in Registered) /\ (Ref(q)' = 1 <=> q \in Registered')
  BY DEF Ref
<1>4. ASSUME NEW q \in Place, pc[q] # "none"
      PROVE  /\ refcount'[q] = (IF held[q] THEN 1 ELSE 0) + (IF pc[q] # "gone" THEN 1 ELSE 0) + Ref(q)'
             /\ refcount'[q] \in Nat
             /\ q \in destroyed' <=> refcount'[q] = 0
  <2>1. /\ refcount[q] = (IF held[q] THEN 1 ELSE 0) + (IF pc[q] # "gone" THEN 1 ELSE 0) + Ref(q)
        /\ q \in destroyed <=> refcount[q] = 0
    BY <1>4 DEF Objects, ObjectOK, Ref
  <2>2. refcount'[q] = (IF held[q] THEN 1 ELSE 0) + (IF pc[q] # "gone" THEN 1 ELSE 0) + Ref(q)'
    BY <1>1, <1>3, <2>1 DEF Recounted
  <2>3. refcount'[q] \in Nat
    BY <1>3, <2>2
  <2>4. q \in destroyed' <=> q \in destroyed \/ refcount'[q] = 0
    BY <1>4 DEF Recounted, Unreferenced
  <2>5. q \in destroyed => refcount'[q] = 0
    BY <1>3, <1>4, <2>1, <2>2
  <2> QED
    BY <2>2, <2>3, <2>4, <2>5
<1>5. ASSUME NEW q \in Place, pc[q] = "none"
      PROVE  ~held[q] /\ q \notin Registered' /\ q \notin destroyed' /\ refcount'[q] = refcount[q]
  <2>1. ~held[q] /\ q \notin Registered /\ q \notin destroyed
    BY <1>5 DEF Objects, ObjectOK
  <2>2. q \notin Registered'
    BY <1>5, <2>1
  <2>3. refcount'[q] = refcount[q]
    BY <1>1, <1>3, <2>1, <2>2 DEF Recounted
  <2> QED
    BY <1>5, <2>1, <2>2, <2>3 DEF Recounted, Unreferenced
<1>6. refcount' \in [Place -> Nat]
  <2>1. \A q \in Place : refcount'[q] \in Nat
    BY <1>1, <1>4, <1>5
  <2> QED
    BY <2>1 DEF Recounted
<1>7. destroyed' \subseteq Place
  BY <1>1 DEF Recounted, Unreferenced
<1>8. Objects'
  BY <1>2, <1>4, <1>5 DEF Objects, ObjectOK, Ref
<1> QED
  BY <1>6, <1>7, <1>8

\* Nothing changes for the places to wake up.
LEMMA NothingRecounted ==
  ASSUME TypeOK, Objects, UNCHANGED <<wakeup, refcount, destroyed>>
  PROVE  Recounted /\ Registered' = Registered
<1>1. Registered' = Registered
  BY DEF Registered
<1>2. Unreferenced(refcount') \subseteq destroyed
  BY DEF Objects, ObjectOK, Unreferenced
<1>3. refcount \in [Place -> Nat]
  BY DEF TypeOK, PlaceTypeOK
<1>4. \A q \in Place : refcount'[q] = refcount[q] + Ref(q)' - Ref(q)
  BY <1>1, <1>3 DEF Ref
<1> QED
  BY <1>1, <1>2, <1>3, <1>4 DEF Recounted

\* The end of place_async_send keeps the living places.
LEMMA WakeFacts ==
  ASSUME TypeOK, Distinct, Objects, WakeReceivers
  PROVE  /\ Typed' /\ Distinct' /\ Recounted
         /\ \A q \in Place : q \in Registered' => q \in Registered
         /\ \A q \in Place : q \in Registered /\ signal_handle[q] => q \in Registered' /\ q \in inPipe'
         /\ inPipe \subseteq inPipe' /\ inPipe' \subseteq Place
<1>0. /\ wakeup \in Seq(Place \cup {NoPlace}) /\ many \in BOOLEAN /\ (~many => Len(wakeup) <= 1)
      /\ refcount \in [Place -> Nat] /\ inPipe \subseteq Place
      /\ inPipe' = inPipe \cup {p \in Registered : signal_handle[p]}
  BY DEF TypeOK, PlaceTypeOK, WakeReceivers
<1>1. inPipe' \subseteq Place
  BY <1>0 DEF Registered
<1>2. CASE ~many
  <2>1. UNCHANGED <<wakeup, many, refcount, destroyed>>
    BY <1>2 DEF WakeReceivers
  <2>2. Recounted /\ Registered' = Registered
    BY <2>1, NothingRecounted
  <2>3. Typed' /\ Distinct'
    BY <1>0, <2>1 DEF Typed, Distinct
  <2> QED
    BY <1>0, <1>1, <2>2, <2>3
<1>3. CASE many
  <2> DEFINE gone == {p \in Registered : ~signal_handle[p]}
             alive == Len(Living)
             n == Len(wakeup)
  <2>1. /\ refcount' = [p \in Place |-> IF p \in gone THEN refcount[p] - 1 ELSE refcount[p]]
        /\ destroyed' = destroyed \cup Unreferenced(refcount')
        /\ many' = ~(alive < n \div 2 /\ alive = 1)
        /\ wakeup' = CASE alive < n \div 2 /\ alive = 1 -> Living
                       [] alive < n \div 2 /\ alive # 1 -> Vector(Living, n \div 2)
                       [] OTHER -> [i \in 1..n |-> IF wakeup[i] \in gone THEN NoPlace ELSE wakeup[i]]
    BY <1>3 DEF WakeReceivers
  <2>2. /\ Living \in Seq(Place) /\ alive \in Nat /\ n \in Nat
        /\ \A p \in Place : (\E i \in DOMAIN Living : Living[i] = p) <=> p \in Registered /\ signal_handle[p]
        /\ \A i, j \in DOMAIN Living : Living[i] = Living[j] => i = j
        /\ DOMAIN Living = 1..alive /\ \A i \in 1..alive : Living[i] \in Place
    <3>1. Living \in Seq(Place)
      BY <1>0, LivingFacts
    <3> QED
      BY <1>0, <3>1, LivingFacts
  <2>3. /\ wakeup' \in Seq(Place \cup {NoPlace}) /\ Distinct'
        /\ \A p \in Place : p \in Registered' <=> p \in Registered /\ signal_handle[p]
        /\ ~many' => Len(wakeup') <= 1
    <3>1. CASE alive < n \div 2 /\ alive = 1
      <4>1. wakeup' = Living
        BY <2>1, <3>1
      <4>2. wakeup' \in Seq(Place \cup {NoPlace}) /\ Len(wakeup') = 1
        BY <2>2, <3>1, <4>1
      <4>3. Distinct'
        BY <2>2, <4>1 DEF Distinct
      <4>4. \A p \in Place : p \in Registered' <=> \E i \in DOMAIN Living : Living[i] = p
        BY <4>1 DEF Registered
      <4> QED
        BY <2>2, <4>2, <4>3, <4>4
    <3>2. CASE alive < n \div 2 /\ alive # 1
      <4>1. wakeup' = [i \in 1..(n \div 2) |-> IF i <= alive THEN Living[i] ELSE NoPlace] /\ many'
        BY <2>1, <3>2 DEF Vector
      <4>2. n \div 2 \in Nat
        BY <2>2
      <4>3. /\ wakeup' \in [1..(n \div 2) -> Place \cup {NoPlace}] /\ DOMAIN wakeup' = 1..(n \div 2)
            /\ \A i \in 1..(n \div 2) : wakeup'[i] = IF i <= alive THEN Living[i] ELSE NoPlace
        BY <2>2, <4>1, <4>2
      <4>4. \A i \in 1..alive : i \in 1..(n \div 2) /\ wakeup'[i] = Living[i]
        BY <2>2, <3>2, <4>2, <4>3
      <4>5. \A i \in 1..(n \div 2) : wakeup'[i] # NoPlace => i \in 1..alive
        BY <2>2, <4>2, <4>3
      <4>6. Distinct'
        BY <2>2, <4>3, <4>4, <4>5 DEF Distinct
      <4>7. \A p \in Place : p \in Registered' <=> p \in Registered /\ signal_handle[p]
        <5>1. \A p \in Place : p \in Registered' <=> \E i \in 1..alive : Living[i] = p
          BY <4>3, <4>4, <4>5, PlacesAssumption DEF Registered
        <5> QED
          BY <2>2, <5>1
      <4> QED
        BY <4>1, <4>2, <4>3, <4>6, <4>7
    <3>3. CASE ~(alive < n \div 2)
      <4>1. wakeup' = [i \in 1..n |-> IF wakeup[i] \in gone THEN NoPlace ELSE wakeup[i]] /\ many'
        BY <2>1, <3>3
      <4>2. DOMAIN wakeup = 1..n /\ \A i \in 1..n : wakeup[i] \in Place \cup {NoPlace}
        BY <1>0
      <4>3. /\ wakeup' \in [1..n -> Place \cup {NoPlace}] /\ DOMAIN wakeup' = 1..n
            /\ \A i \in 1..n : wakeup'[i] = IF wakeup[i] \in gone THEN NoPlace ELSE wakeup[i]
        BY <4>1, <4>2
      <4>4. Distinct'
        BY <4>2, <4>3 DEF Distinct
      <4>5. \A p \in Place : p \in Registered' <=> p \in Registered /\ signal_handle[p]
        BY <4>2, <4>3, PlacesAssumption DEF Registered
      <4> QED
        BY <2>2, <4>1, <4>3, <4>4, <4>5
    <3> QED
      BY <3>1, <3>2, <3>3
  <2>4. Recounted
    <3>1. \A p \in Place : refcount'[p] = refcount[p] + Ref(p)' - Ref(p)
      <4> SUFFICES ASSUME NEW p \in Place PROVE refcount'[p] = refcount[p] + Ref(p)' - Ref(p)
        OBVIOUS
      <4>1. CASE p \in gone
        <5>1. Ref(p) = 1 /\ Ref(p)' = 0
          BY <2>3, <4>1 DEF Ref
        <5> QED
          BY <1>0, <2>1, <4>1, <5>1
      <4>2. CASE p \notin gone
        <5>1. Ref(p) = Ref(p)' /\ Ref(p) \in {0, 1}
          BY <2>3, <4>2 DEF Ref
        <5> QED
          BY <1>0, <2>1, <4>2, <5>1
      <4> QED
        BY <4>1, <4>2
    <3> QED
      BY <2>1, <3>1 DEF Recounted
  <2>5. many' \in BOOLEAN
    BY <2>1
  <2> QED
    BY <1>0, <1>1, <2>3, <2>4, <2>5 DEF Typed
<1> QED
  BY <1>0, <1>2, <1>3

\* A place that registers has a slot, and takes none from a living place.
LEMMA RegisterFacts ==
  ASSUME TypeOK, Distinct, Objects, Fits, NEW p \in Place, Register(p),
         destroyed' = destroyed \cup Unreferenced(refcount')
  PROVE  /\ Typed' /\ Distinct' /\ Recounted
         /\ p \in Registered'
         /\ \A q \in Place : q \in Registered' => q \in Registered \/ q = p
         /\ \A q \in Place : q \in Registered /\ signal_handle[q] => q \in Registered'
<1>0. /\ wakeup \in Seq(Place \cup {NoPlace}) /\ many \in BOOLEAN /\ (~many => Len(wakeup) <= 1)
      /\ refcount \in [Place -> Nat] /\ p # NoPlace
      /\ DOMAIN wakeup = 1..Len(wakeup) /\ Len(wakeup) \in Nat
      /\ \A i \in 1..Len(wakeup) : wakeup[i] \in Place \cup {NoPlace}
  BY PlacesAssumption DEF TypeOK, PlaceTypeOK
<1>1. CASE p \in Registered
  <2>1. UNCHANGED <<wakeup, many, refcount>>
    BY <1>1 DEF Register
  <2>2. Registered' = Registered
    BY <2>1 DEF Registered
  <2>3. \A q \in Place : refcount'[q] = refcount[q] + Ref(q)' - Ref(q)
    BY <1>0, <2>1, <2>2 DEF Ref
  <2>4. Typed' /\ Distinct'
    BY <1>0, <2>1 DEF Typed, Distinct
  <2> QED
    BY <1>0, <1>1, <2>1, <2>2, <2>3, <2>4 DEF Recounted
<1>2. ASSUME p \notin Registered, Registered' = Registered \cup {p},
             refcount' = [refcount EXCEPT ![p] = @ + 1]
      PROVE  Recounted
  <2>1. \A q \in Place : refcount'[q] = refcount[q] + Ref(q)' - Ref(q)
    BY <1>0, <1>2 DEF Ref
  <2>2. refcount' = [q \in Place |-> refcount'[q]]
    BY <1>0, <1>2
  <2> QED
    BY <2>1, <2>2 DEF Recounted
<1>3. CASE p \notin Registered /\ wakeup = <<>>
  <2>1. wakeup' = <<p>> /\ refcount' = [refcount EXCEPT ![p] = @ + 1] /\ UNCHANGED many
    <3>1. Free = {}
      BY <1>3 DEF Free
    <3> QED
      BY <1>3, <3>1 DEF Register
  <2>2. Registered = {} /\ Registered' = {p}
    BY <1>3, <2>1 DEF Registered
  <2>3. Typed' /\ Distinct'
    BY <1>0, <2>1 DEF Typed, Distinct
  <2>4. Recounted
    BY <1>2, <1>3, <2>1, <2>2
  <2> QED
    BY <2>2, <2>3, <2>4
<1>4. CASE p \notin Registered /\ wakeup # <<>> /\ Free # {}
  <2>1. PICK i \in Free : i = Min(Free)
    <3>1. Free \subseteq Nat
      BY <1>0 DEF Free
    <3> QED
      BY <1>4, <3>1, LeastSlot
  <2>2. TakeSlot(p, i)
    BY <1>4, <2>1 DEF Register
  <2>3. /\ i \in 1..Len(wakeup) /\ wakeup' = [wakeup EXCEPT ![i] = p] /\ UNCHANGED many
        /\ refcount' = [q \in Place |-> refcount[q] + (IF q = p THEN 1 ELSE 0)
                                                    - (IF q = wakeup[i] THEN 1 ELSE 0)]
    BY <1>0, <2>2 DEF TakeSlot, Free
  <2>4. /\ DOMAIN wakeup' = 1..Len(wakeup) /\ wakeup'[i] = p
        /\ \A j \in 1..Len(wakeup) : j # i => wakeup'[j] = wakeup[j]
        /\ wakeup' \in Seq(Place \cup {NoPlace}) /\ Len(wakeup') = Len(wakeup)
    BY <1>0, <2>3
  <2>5. \A j \in 1..Len(wakeup) : wakeup[j] # p
    BY <1>0, <1>4 DEF Registered
  <2>6. Distinct'
    BY <1>0, <2>4, <2>5 DEF Distinct
  <2>7. \A q \in Place : q \in Registered' <=> q = p \/ (q \in Registered /\ q # wakeup[i])
    <3> SUFFICES ASSUME NEW q \in Place
                 PROVE  (\E j \in 1..Len(wakeup) : wakeup'[j] = q)
                          <=> q = p \/ ((\E j \in 1..Len(wakeup) : wakeup[j] = q) /\ q # wakeup[i])
      BY <1>0, <2>4 DEF Registered
    <3>1. \A j \in 1..Len(wakeup) : j # i /\ wakeup[j] = wakeup[i] => wakeup[j] = NoPlace
      BY <1>0, <2>3 DEF Distinct
    <3>2. q # NoPlace
      BY PlacesAssumption
    <3> QED
      BY <2>3, <2>4, <3>1, <3>2
  <2>8. \A q \in Place : q = wakeup[i] => q \in Registered /\ ~signal_handle[q]
    BY <1>0, <2>1, PlacesAssumption DEF Free, Registered
  <2>9. \A q \in Place : refcount'[q] = refcount[q] + Ref(q)' - Ref(q)
    <3> SUFFICES ASSUME NEW q \in Place PROVE refcount'[q] = refcount[q] + Ref(q)' - Ref(q)
      OBVIOUS
    <3>0. refcount'[q] = refcount[q] + (IF q = p THEN 1 ELSE 0) - (IF q = wakeup[i] THEN 1 ELSE 0)
          /\ refcount[q] \in Nat /\ p # wakeup[i]
      BY <1>0, <2>3, <2>5
    <3>1. CASE q = p
      <4>1. Ref(q)' = 1 /\ Ref(q) = 0
        BY <1>4, <2>7, <3>1 DEF Ref
      <4> QED
        BY <3>0, <3>1, <4>1
    <3>2. CASE q = wakeup[i] /\ q # p
      <4>1. Ref(q)' = 0 /\ Ref(q) = 1
        BY <2>7, <2>8, <3>2 DEF Ref
      <4> QED
        BY <3>0, <3>2, <4>1
    <3>3. CASE q # wakeup[i] /\ q # p
      <4>1. Ref(q)' = Ref(q) /\ Ref(q) \in {0, 1}
        BY <2>7, <3>3 DEF Ref
      <4> QED
        BY <3>0, <3>3, <4>1
    <3> QED
      BY <3>1, <3>2, <3>3
  <2>10. Recounted
    BY <2>3, <2>9 DEF Recounted
  <2>11. Typed'
    BY <1>0, <2>3, <2>4 DEF Typed
  <2> QED
    BY <2>6, <2>7, <2>8, <2>10, <2>11
<1>5. CASE p \notin Registered /\ wakeup # <<>> /\ Free = {}
  <2>1. /\ wakeup' = IF many
                     THEN [Vector(wakeup, 2 * Len(wakeup)) EXCEPT ![Len(wakeup) + 2] = p]
                     ELSE <<wakeup[1], p>>
        /\ many' = TRUE /\ refcount' = [refcount EXCEPT ![p] = @ + 1]
    BY <1>5 DEF Register
  <2>2. PICK m \in Nat : m = Len(wakeup) /\ m > 0
    <3>1. Len(wakeup) # 0 /\ Len(wakeup) \in Nat
      BY <1>0, <1>5
    <3>2. \A m \in Nat : m # 0 => m > 0
      OBVIOUS
    <3> QED
      BY <3>1, <3>2, Zenon
  <2>3. \A i \in 1..m : wakeup[i] \in Place /\ wakeup[i] # p
    BY <1>0, <1>5, <2>2 DEF Free, Registered
  <2>4. \E k \in Nat, i \in Nat :
          /\ k >= i /\ i > m
          /\ wakeup' \in Seq(Place \cup {NoPlace}) /\ Len(wakeup') = k /\ DOMAIN wakeup' = 1..k
          /\ \A j \in 1..m : wakeup'[j] = wakeup[j]
          /\ wakeup'[i] = p
          /\ \A j \in 1..k : j > m /\ j # i => wakeup'[j] = NoPlace
    <3>1. CASE many
      <4> DEFINE v == Vector(wakeup, 2 * m)
      <4>1. m > 1 /\ wakeup' = [v EXCEPT ![m + 2] = p]
        BY <1>5, <2>1, <2>2, <3>1 DEF Fits
      <4>2. /\ DOMAIN v = 1..(2 * m) /\ v \in [1..(2 * m) -> Place \cup {NoPlace}]
            /\ \A j \in 1..(2 * m) : v[j] = IF j <= m THEN wakeup[j] ELSE NoPlace
        BY <1>0, <2>2 DEF Vector
      <4> HIDE DEF v
      <4>3. /\ wakeup' \in [1..(2 * m) -> Place \cup {NoPlace}] /\ wakeup'[m + 2] = p
            /\ \A j \in 1..(2 * m) : j # m + 2 => wakeup'[j] = v[j]
        BY <2>2, <4>1, <4>2
      <4>4. wakeup' \in Seq(Place \cup {NoPlace}) /\ Len(wakeup') = 2 * m /\ DOMAIN wakeup' = 1..(2 * m)
        BY <2>2, <4>3
      <4>5. /\ \A j \in 1..m : wakeup'[j] = wakeup[j]
            /\ \A j \in 1..(2 * m) : j > m /\ j # m + 2 => wakeup'[j] = NoPlace
        BY <2>2, <4>2, <4>3
      <4> QED
        BY <2>2, <4>1, <4>3, <4>4, <4>5
    <3>2. CASE ~many
      <4>1. m = 1 /\ wakeup' = <<wakeup[1], p>>
        BY <1>0, <2>1, <2>2, <3>2
      <4>2. wakeup' \in Seq(Place \cup {NoPlace}) /\ Len(wakeup') = 2 /\ DOMAIN wakeup' = 1..2
            /\ wakeup'[1] = wakeup[1] /\ wakeup'[2] = p
        BY <2>3, <4>1
      <4> QED
        BY <4>1, <4>2
    <3> QED
      BY <3>1, <3>2
  <2>5. PICK k \in Nat, i \in Nat :
          /\ k >= i /\ i > m
          /\ wakeup' \in Seq(Place \cup {NoPlace}) /\ Len(wakeup') = k /\ DOMAIN wakeup' = 1..k
          /\ \A j \in 1..m : wakeup'[j] = wakeup[j]
          /\ wakeup'[i] = p
          /\ \A j \in 1..k : j > m /\ j # i => wakeup'[j] = NoPlace
    BY <2>4
  <2>6. Distinct'
    <3> SUFFICES ASSUME NEW a \in 1..k, NEW b \in 1..k, wakeup'[a] = wakeup'[b], wakeup'[a] # NoPlace
                 PROVE  a = b
      BY <2>5 DEF Distinct
    <3>1. (a \in 1..m \/ a = i) /\ (b \in 1..m \/ b = i)
      BY <2>5
    <3>2. \A x, y \in 1..m : wakeup[x] = wakeup[y] => x = y
      BY <1>0, <2>2, <2>3, PlacesAssumption DEF Distinct
    <3> QED
      BY <2>3, <2>5, <3>1, <3>2
  <2>7. Registered' = Registered \cup {p}
    <3>1. ASSUME NEW q \in Place
          PROVE  (\E j \in 1..k : wakeup'[j] = q) <=> (\E j \in 1..m : wakeup[j] = q) \/ q = p
      <4>1. q # NoPlace /\ \A j \in 1..m : j \in 1..k
        BY <2>5, PlacesAssumption
      <4> QED
        BY <2>5, <4>1
    <3>2. \A q : q \in Registered <=> q \in Place /\ \E j \in 1..m : wakeup[j] = q
      BY <1>0, <2>2 DEF Registered
    <3>3. \A q : q \in Registered' <=> q \in Place /\ \E j \in 1..k : wakeup'[j] = q
      BY <2>5 DEF Registered
    <3> QED
      BY <3>1, <3>2, <3>3
  <2>8. Recounted
    BY <1>2, <1>5, <2>1, <2>7
  <2>9. Typed'
    BY <2>1, <2>5 DEF Typed
  <2> QED
    BY <2>6, <2>7, <2>8, <2>9
<1> QED
  BY <1>1, <1>3, <1>4, <1>5

----------------------------------------------------------------------------
(* The ring.                                                               *)

\* A message enters a ring with room.
LEMMA PutInRing ==
  ASSUME RingTyped, Ring, count < size, received + count < MaxSends,
         msgs' = [msgs EXCEPT ![in] = received + count + 1],
         count' = count + 1, in' = (in + 1) % Cardinality(DOMAIN msgs), out' = out,
         UNCHANGED received, began' \in 0..MaxSends
  PROVE  RingTyped' /\ Ring'
<1>0. /\ size \in Nat \ {0} /\ DOMAIN msgs = 0..(size - 1) /\ in \in 0..(size - 1)
      /\ out \in 0..(size - 1) /\ count \in 0..size /\ received \in 0..MaxSends /\ MaxSends \in Nat
      /\ \A i \in 0..(size - 1) : msgs[i] \in 0..MaxSends
      /\ in = IF out + count < size THEN out + count ELSE out + count - size
      /\ \A j \in 0..(size - 1) : msgs[j] = IF Offset(j) < count THEN received + Offset(j) + 1 ELSE 0
  BY PlaceChannelsAssumption DEF RingTyped, Ring
<1>1. DOMAIN msgs' = DOMAIN msgs /\ size' = size
  BY DEF size
<1>2. in' = IF in + 1 < size THEN in + 1 ELSE in + 1 - size
  <2>1. size \in Nat \ {0} /\ in \in 0..(size - 1)
    BY <1>0
  <2>2. in' = (in + 1) % size
    BY DEF size
  <2>3. (in + 1) % size = IF in + 1 < size THEN in + 1 ELSE in + 1 - size
    BY <2>1
  <2> QED
    BY <2>2, <2>3
<1>3. \A j \in 0..(size - 1) : Offset(j)' = Offset(j)
  BY <1>1 DEF Offset
<1>4. \A j \in 0..(size - 1) : Offset(j) = count <=> j = in
  BY <1>0 DEF Offset
<1>5. \A j \in 0..(size - 1) : Offset(j) \in Nat
  BY <1>0 DEF Offset
<1>6. \A j \in 0..(size - 1) :
        msgs'[j] = IF Offset(j) < count + 1 THEN received + Offset(j) + 1 ELSE 0
  <2> SUFFICES ASSUME NEW j \in 0..(size - 1)
               PROVE  msgs'[j] = IF Offset(j) < count + 1 THEN received + Offset(j) + 1 ELSE 0
    OBVIOUS
  <2>1. CASE j = in
    <3>1. msgs'[j] = received + count + 1 /\ Offset(j) = count
      BY <1>0, <1>4, <2>1
    <3> QED
      BY <1>0, <3>1
  <2>2. CASE j # in
    <3>1. /\ msgs'[j] = IF Offset(j) < count THEN received + Offset(j) + 1 ELSE 0
          /\ Offset(j) # count /\ Offset(j) \in Nat /\ count \in Nat
      BY <1>0, <1>4, <1>5, <2>2
    <3>2. Offset(j) < count + 1 <=> Offset(j) < count
      BY <3>1
    <3> QED
      BY <3>1, <3>2
  <2> QED
    BY <2>1, <2>2
<1>7. \A j \in 0..(size - 1) : msgs'[j] \in 0..MaxSends
  BY <1>0
<1>8. Ring'
  <2>1. in' = IF out' + count' < size THEN out' + count' ELSE out' + count' - size
    BY <1>0, <1>2
  <2>2. \A j \in 0..(size - 1) :
          msgs'[j] = IF Offset(j)' < count' THEN received' + Offset(j)' + 1 ELSE 0
    BY <1>3, <1>6
  <2> QED
    BY <1>0, <1>1, <2>1, <2>2 DEF Ring
<1> QED
  BY <1>0, <1>1, <1>2, <1>7, <1>8 DEF RingTyped

\* The larger ring has the messages of the full one, in order.
LEMMA GrowRing ==
  ASSUME RingTyped, Ring, count = size, received + count < MaxSends,
         msgs' = [Grown EXCEPT ![size] = received + count + 1],
         count' = count + 1, in' = (size + 1) % Cardinality(DOMAIN Grown), out' = 0,
         UNCHANGED received, began' \in 0..MaxSends
  PROVE  RingTyped' /\ Ring'
<1>0. PICK n \in Nat \ {0} : n = size
  BY DEF Ring
<1>1. /\ DOMAIN msgs = 0..(n - 1) /\ in \in 0..(n - 1)
      /\ out \in 0..(n - 1) /\ count = n /\ received \in 0..MaxSends /\ MaxSends \in Nat
      /\ \A i \in 0..(n - 1) : msgs[i] \in 0..MaxSends
      /\ in = out
      /\ \A j \in 0..(n - 1) : msgs[j] = received + Offset(j) + 1
  BY <1>0, PlaceChannelsAssumption DEF RingTyped, Ring, Offset
<1>2. \A i \in 0..(n - 1) : i < n - out => Offset(out + i) = i /\ out + i \in 0..(n - 1)
  BY <1>0, <1>1 DEF Offset
<1>3. \A i \in 0..(n - 1) : i >= n - out => Offset(i - (n - out)) = i /\ i - (n - out) \in 0..(n - 1)
  BY <1>0, <1>1 DEF Offset
<1>4. DOMAIN Grown = 0..(2 * n - 1)
  BY <1>0 DEF Grown
<1>5. \A i \in 0..(2 * n - 1) :
        Grown[i] = IF i < n - out THEN msgs[out + i]
                   ELSE IF i < n THEN msgs[i - (n - out)] ELSE 0
  BY <1>0, <1>1 DEF Grown
<1>6. \A i \in 0..(2 * n - 1) : Grown[i] = IF i < n THEN received + i + 1 ELSE 0
  BY <1>1, <1>2, <1>3, <1>5
<1>7. /\ DOMAIN msgs' = 0..(2 * n - 1) /\ size' = 2 * n
  <2>1. Cardinality(0..(2 * n - 1)) = 2 * n
    BY <1>0, FS_Interval
  <2> QED
    BY <1>4, <2>1 DEF size
<1>8. \A i \in 0..(2 * n - 1) : msgs'[i] = IF i < n + 1 THEN received + i + 1 ELSE 0
  <2>1. /\ msgs' = [Grown EXCEPT ![n] = received + n + 1] /\ n \in 0..(2 * n - 1)
        /\ received \in Nat
    BY <1>0, <1>1
  <2>2. ASSUME NEW i \in 0..(2 * n - 1)
        PROVE  msgs'[i] = IF i = n THEN received + n + 1 ELSE Grown[i]
    BY <1>4, <2>1
  <2> QED
    BY <1>6, <2>1, <2>2
<1>9. \A i \in 0..(2 * n - 1) : Offset(i)' = i
  BY DEF Offset
<1>10. in' = IF n + 1 < 2 * n THEN n + 1 ELSE n + 1 - 2 * n
  <2>1. in' = (n + 1) % (2 * n)
    BY <1>0, <1>4, <1>7 DEF size
  <2>2. (n + 1) % (2 * n) = IF n + 1 < 2 * n THEN n + 1 ELSE n + 1 - 2 * n
    <3>1. PICK m \in Nat \ {0} : m = 2 * n
      OBVIOUS
    <3>2. (n + 1) % m = IF n + 1 < m THEN n + 1 ELSE n + 1 - m
      BY <3>1
    <3> QED
      BY <3>1, <3>2
  <2> QED
    BY <2>1, <2>2
<1>11. \A i \in 0..(2 * n - 1) : msgs'[i] \in 0..MaxSends
  <2>1. received + n + 1 \in 0..MaxSends
    BY <1>1
  <2> QED
    <3> SUFFICES ASSUME NEW i \in 0..(2 * n - 1) PROVE msgs'[i] \in 0..MaxSends
      OBVIOUS
    <3>1. msgs'[i] = IF i < n + 1 THEN received + i + 1 ELSE 0
      BY <1>8
    <3>2. received \in Nat /\ MaxSends \in Nat
      BY <1>1
    <3> QED
      BY <2>1, <3>1, <3>2
<1>12. Ring'
  BY <1>1, <1>7, <1>8, <1>9, <1>10 DEF Ring
<1> QED
  <2>1. /\ 0 \in 0..(2 * n - 1) /\ count' \in 0..(2 * n) /\ in' \in 0..(2 * n - 1)
        /\ received' \in 0..MaxSends /\ out' = 0
    BY <1>1, <1>10
  <2> QED
    BY <1>7, <1>11, <1>12, <2>1 DEF RingTyped

\* The first message leaves the ring.
LEMMA GetFromRing ==
  ASSUME RingTyped, Ring, count > 0, received + count <= MaxSends,
         msgs' = [msgs EXCEPT ![out] = 0],
         count' = count - 1, out' = (out + 1) % size, in' = in, received' = received + 1,
         began' \in 0..MaxSends
  PROVE  RingTyped' /\ Ring'
<1>0. /\ size \in Nat \ {0} /\ DOMAIN msgs = 0..(size - 1) /\ in \in 0..(size - 1)
      /\ out \in 0..(size - 1) /\ count \in 0..size /\ received \in 0..MaxSends /\ MaxSends \in Nat
      /\ \A i \in 0..(size - 1) : msgs[i] \in 0..MaxSends
      /\ in = IF out + count < size THEN out + count ELSE out + count - size
      /\ \A j \in 0..(size - 1) : msgs[j] = IF Offset(j) < count THEN received + Offset(j) + 1 ELSE 0
  BY PlaceChannelsAssumption DEF RingTyped, Ring
<1>1. DOMAIN msgs' = DOMAIN msgs /\ size' = size
  BY DEF size
<1>2. out' = IF out + 1 < size THEN out + 1 ELSE out + 1 - size
  <2>1. size \in Nat \ {0} /\ out \in 0..(size - 1)
    BY <1>0
  <2>2. (out + 1) % size = IF out + 1 < size THEN out + 1 ELSE out + 1 - size
    BY <2>1
  <2> QED
    BY <2>2
<1>3. ASSUME NEW j \in 0..(size - 1)
      PROVE  Offset(j)' = IF j = out THEN size - 1 ELSE Offset(j) - 1
  <2>1. Offset(j)' = IF j >= out' THEN j - out' ELSE j - out' + size
    BY <1>1 DEF Offset
  <2>2. Offset(j) = IF j >= out THEN j - out ELSE j - out + size
    BY DEF Offset
  <2>3. CASE out + 1 < size
    <3>1. out' = out + 1
      BY <1>2, <2>3
    <3>2. size \in Nat \ {0} /\ out \in 0..(size - 1)
      BY <1>0
    <3>3. CASE j = out
      BY <2>1, <3>1, <3>2, <3>3
    <3>4. CASE j < out
      BY <2>1, <2>2, <3>1, <3>2, <3>4
    <3>5. CASE j > out
      BY <2>1, <2>2, <3>1, <3>2, <3>5
    <3> QED
      BY <3>2, <3>3, <3>4, <3>5
  <2>4. CASE ~(out + 1 < size)
    <3>1. out' = 0 /\ out = size - 1
      BY <1>0, <1>2, <2>4
    <3>2. size \in Nat \ {0}
      BY <1>0
    <3> QED
      BY <2>1, <2>2, <3>1, <3>2
  <2> QED
    BY <2>3, <2>4
<1>4. \A j \in 0..(size - 1) : Offset(j) \in 0..(size - 1) /\ (Offset(j) = 0 <=> j = out)
  BY <1>0 DEF Offset
<1>5. \A j \in 0..(size - 1) : msgs'[j] = IF j = out THEN 0 ELSE msgs[j]
  BY <1>0
<1>6. \A j \in 0..(size - 1) :
        msgs'[j] = IF Offset(j)' < count - 1 THEN received + 1 + Offset(j)' + 1 ELSE 0
  <2> SUFFICES ASSUME NEW j \in 0..(size - 1)
               PROVE  msgs'[j] = IF Offset(j)' < count - 1 THEN received + 1 + Offset(j)' + 1 ELSE 0
    OBVIOUS
  <2>1. CASE j = out
    <3>1. msgs'[j] = 0 /\ Offset(j)' = size - 1
      BY <1>3, <1>5, <2>1
    <3>2. ~(size - 1 < count - 1)
      BY <1>0
    <3> QED
      BY <3>1, <3>2
  <2>2. CASE j # out
    <3>1. /\ msgs'[j] = IF Offset(j) < count THEN received + Offset(j) + 1 ELSE 0
          /\ Offset(j)' = Offset(j) - 1
      BY <1>0, <1>3, <1>5, <2>2
    <3>2. Offset(j) \in 0..(size - 1)
      BY <1>4
    <3>3. /\ Offset(j)' < count - 1 <=> Offset(j) < count
          /\ received + 1 + Offset(j)' + 1 = received + Offset(j) + 1
      <4>1. size \in Nat /\ count \in Nat /\ received \in Nat
        BY <1>0
      <4> QED
        BY <3>1, <3>2, <4>1
    <3> QED
      BY <3>1, <3>3
  <2> QED
    BY <2>1, <2>2
<1>7. \A j \in 0..(size - 1) : msgs'[j] \in 0..MaxSends
  BY <1>0, <1>5
<1>8. in' = IF out' + count' < size THEN out' + count' ELSE out' + count' - size
  <2>1. /\ size \in Nat \ {0} /\ out \in 0..(size - 1) /\ count \in 1..size
        /\ in = IF out + count < size THEN out + count ELSE out + count - size
    BY <1>0
  <2>2. CASE out + 1 < size
    BY <1>2, <2>1, <2>2
  <2>3. CASE ~(out + 1 < size)
    BY <1>2, <2>1, <2>3
  <2> QED
    BY <2>2, <2>3
<1>9. Ring'
  BY <1>0, <1>1, <1>6, <1>8 DEF Ring
<1>10. received' \in 0..MaxSends
  BY <1>0
<1> QED
  BY <1>0, <1>1, <1>2, <1>7, <1>9, <1>10 DEF RingTyped

\* How a step of place p to v changes the number of senders that allocate.
LEMMA GrowingCount ==
  ASSUME DOMAIN pc = Place, NEW p \in Place, NEW v, pc' = [pc EXCEPT ![p] = v]
  PROVE  /\ DOMAIN pc' = Place
         /\ Cardinality(Growing) \in Nat
         /\ pc[p] = "grow" => Cardinality(Growing) > 0
         /\ Cardinality(Growing') = Cardinality(Growing) + (IF v = "grow" THEN 1 ELSE 0)
                                                         - (IF pc[p] = "grow" THEN 1 ELSE 0)
<1>1. IsFiniteSet(Growing) /\ Cardinality(Growing) \in Nat
  BY PlacesAssumption, FS_Subset, FS_CardinalityType DEF Growing
<1>2. DOMAIN pc' = Place /\ pc'[p] = v /\ \A q \in Place : q # p => pc'[q] = pc[q]
  OBVIOUS
<1>3. CASE pc[p] = "grow"
  <2>1. p \in Growing
    BY <1>3 DEF Growing
  <2>2. Cardinality(Growing \ {p}) = Cardinality(Growing) - 1 /\ Cardinality(Growing \ {p}) \in Nat
    BY <1>1, <2>1, FS_RemoveElement, FS_CardinalityType
  <2>3. Cardinality(Growing) > 0
    BY <1>1, <2>2
  <2>4. CASE v = "grow"
    <3>1. Growing' = Growing
      BY <1>2, <1>3, <2>4 DEF Growing
    <3> QED
      BY <1>1, <1>2, <1>3, <2>3, <2>4, <3>1
  <2>5. CASE v # "grow"
    <3>1. Growing' = Growing \ {p}
      BY <1>2, <1>3, <2>5 DEF Growing
    <3> QED
      BY <1>1, <1>2, <1>3, <2>2, <2>3, <2>5, <3>1
  <2> QED
    BY <2>4, <2>5
<1>4. CASE pc[p] # "grow"
  <2>1. p \notin Growing
    BY <1>4 DEF Growing
  <2>2. Cardinality(Growing \cup {p}) = Cardinality(Growing) + 1
    BY <1>1, <2>1, FS_AddElement
  <2>3. CASE v = "grow"
    <3>1. Growing' = Growing \cup {p}
      BY <1>2, <1>4, <2>3 DEF Growing
    <3> QED
      BY <1>1, <1>2, <1>4, <2>2, <2>3, <3>1
  <2>4. CASE v # "grow"
    <3>1. Growing' = Growing
      BY <1>2, <1>4, <2>4 DEF Growing
    <3> QED
      BY <1>1, <1>2, <1>4, <2>4, <3>1
  <2> QED
    BY <2>3, <2>4
<1> QED
  BY <1>3, <1>4

\* The ring, when the messages stay as they are.
LEMMA RingKeep ==
  ASSUME RingTyped, Ring, UNCHANGED <<msgs, in, out, count, received>>, began' \in 0..MaxSends
  PROVE  RingTyped' /\ Ring'
<1>1. size' = size
  BY DEF size
<1>2. \A j : Offset(j)' = Offset(j)
  BY <1>1 DEF Offset
<1> QED
  BY <1>1, <1>2 DEF RingTyped, Ring

\* A place begins to send.
LEMMA SendRing ==
  ASSUME RInv, NEW p \in Place, Send(p)
  PROVE  RInv'
<1>1. /\ pc[p] = "run" /\ began' = began + 1 /\ began < MaxSends /\ UNCHANGED received
      /\ began \in 0..MaxSends /\ MaxSends \in Nat /\ received \in Nat /\ count \in 0..size
      /\ size \in Nat /\ DOMAIN pc = Place /\ Cardinality(Growing) \in Nat
      /\ began = received + count + Cardinality(Growing)
  <2>1. Cardinality(Growing) \in Nat
    BY PlacesAssumption, FS_Subset, FS_CardinalityType DEF Growing
  <2> QED
    BY <2>1, PlaceChannelsAssumption DEF RInv, RingTyped, Ring, Sent, Send
<1>2. began' \in 0..MaxSends
  BY <1>1
<1>3. CASE count = size
  <2>1. pc' = [pc EXCEPT ![p] = "grow"] /\ UNCHANGED <<msgs, in, out, count>>
    BY <1>3 DEF Send, ringVars
  <2>2. DOMAIN pc' = Place /\ Cardinality(Growing') = Cardinality(Growing) + 1
    <3>1. /\ DOMAIN pc' = Place /\ Cardinality(Growing) \in Nat
          /\ pc[p] = "grow" => Cardinality(Growing) > 0
          /\ Cardinality(Growing') = Cardinality(Growing) + (IF "grow" = "grow" THEN 1 ELSE 0)
                                                          - (IF pc[p] = "grow" THEN 1 ELSE 0)
      BY <1>1, <2>1, GrowingCount, Zenon
    <3> QED
      BY <1>1, <3>1
  <2>3. Sent'
    BY <1>1, <2>1, <2>2 DEF Sent
  <2> QED
    BY <1>1, <1>2, <2>1, <2>2, <2>3, RingKeep DEF RInv
<1>4. CASE count # size
  <2>1. Enqueue(msgs, in, out, count) /\ UNCHANGED pc
    BY <1>4 DEF Send
  <2>2. count < size /\ received + count < MaxSends
    BY <1>1, <1>4
  <2>3. RingTyped' /\ Ring'
    BY <1>1, <1>2, <2>1, <2>2, PutInRing DEF RInv, Enqueue
  <2>4. Growing' = Growing /\ count' = count + 1
    BY <2>1 DEF Growing, Enqueue
  <2>5. Sent'
    BY <1>1, <2>4 DEF Sent
  <2> QED
    BY <1>1, <2>1, <2>3, <2>5 DEF RInv
<1> QED
  BY <1>3, <1>4

\* A sender goes on with the ring that it has allocated.
LEMMA GrowSentRing ==
  ASSUME RInv, NEW p \in Place, Grow(p)
  PROVE  RInv'
<1>1. /\ pc[p] = "grow" /\ UNCHANGED <<began, received>>
      /\ began \in 0..MaxSends /\ MaxSends \in Nat /\ received \in Nat /\ count \in 0..size
      /\ size \in Nat /\ DOMAIN pc = Place
      /\ began = received + count + Cardinality(Growing)
  BY PlaceChannelsAssumption DEF RInv, RingTyped, Ring, Sent, Grow
<1>2. CASE count = size /\ sz[p] # size
  <2>1. UNCHANGED <<pc, msgs, in, out, count>>
    BY <1>2 DEF Grow, ringVars
  <2>2. Sent'
    BY <1>1, <2>1 DEF Sent, Growing, RInv
  <2> QED
    BY <1>1, <2>1, <2>2, RingKeep DEF RInv
<1>3. CASE ~(count = size /\ sz[p] # size)
  <2>1. /\ pc' = [pc EXCEPT ![p] = "run"]
        /\ IF count = size THEN Enqueue(Grown, size, 0, cnt[p]) ELSE Enqueue(msgs, in, out, cnt[p])
    BY <1>3 DEF Grow
  <2>2. /\ DOMAIN pc' = Place /\ Cardinality(Growing') = Cardinality(Growing) - 1
        /\ Cardinality(Growing) \in Nat /\ Cardinality(Growing) > 0
    <3>1. /\ DOMAIN pc' = Place /\ Cardinality(Growing) \in Nat
          /\ pc[p] = "grow" => Cardinality(Growing) > 0
          /\ Cardinality(Growing') = Cardinality(Growing) + (IF "run" = "grow" THEN 1 ELSE 0)
                                                          - (IF pc[p] = "grow" THEN 1 ELSE 0)
      BY <1>1, <2>1, GrowingCount, Zenon
    <3> QED
      BY <1>1, <3>1
  <2>3. received + count < MaxSends
    BY <1>1, <2>2
  <2>4. count' = count + 1
    BY <2>1 DEF Enqueue
  <2>5. Sent'
    BY <1>1, <2>2, <2>4 DEF Sent
  <2>6. RingTyped' /\ Ring'
    <3>1. CASE count = size
      BY <1>1, <2>1, <2>3, <3>1, GrowRing DEF RInv, Enqueue
    <3>2. CASE count # size
      <4>1. count < size
        BY <1>1, <3>2
      <4> QED
        BY <1>1, <2>1, <2>3, <3>2, <4>1, PutInRing DEF RInv, Enqueue
    <3> QED
      BY <3>1, <3>2
  <2> QED
    BY <2>2, <2>5, <2>6 DEF RInv
<1> QED
  BY <1>2, <1>3

\* A place that does not send, or does nothing with the messages.
LEMMA OtherRing ==
  ASSUME RInv, NEW p \in Place, NEW v, v # "grow", pc[p] # "grow", pc' = [pc EXCEPT ![p] = v],
         UNCHANGED <<msgs, in, out, count, received, began>>
  PROVE  RInv'
<1>1. DOMAIN pc = Place /\ began \in 0..MaxSends /\ Sent
  BY DEF RInv, RingTyped
<1>2. DOMAIN pc' = Place /\ Growing' = Growing
  BY <1>1 DEF Growing
<1>3. Sent'
  BY <1>1, <1>2 DEF Sent
<1> QED
  BY <1>1, <1>2, <1>3, RingKeep DEF RInv

\* A place gets a message, or finds none.
LEMMA GetRing ==
  ASSUME RInv, NEW p \in Place, pc[p] # "grow", GetMessage(p), UNCHANGED began
  PROVE  RInv'
<1>1. /\ began \in 0..MaxSends /\ MaxSends \in Nat /\ received \in Nat /\ count \in 0..size
      /\ size \in Nat /\ DOMAIN pc = Place
      /\ began = received + count + Cardinality(Growing)
  BY PlaceChannelsAssumption DEF RInv, RingTyped, Ring, Sent
<1>2. CASE count > 0
  <2>1. /\ msgs' = [msgs EXCEPT ![out] = 0] /\ count' = count - 1 /\ out' = (out + 1) % size
        /\ received' = received + 1 /\ pc' = [pc EXCEPT ![p] = "run"] /\ UNCHANGED in
    BY <1>2 DEF GetMessage
  <2>2. /\ DOMAIN pc' = Place /\ Cardinality(Growing') = Cardinality(Growing)
        /\ Cardinality(Growing) \in Nat
    <3>1. /\ DOMAIN pc' = Place /\ Cardinality(Growing) \in Nat
          /\ pc[p] = "grow" => Cardinality(Growing) > 0
          /\ Cardinality(Growing') = Cardinality(Growing) + (IF "run" = "grow" THEN 1 ELSE 0)
                                                          - (IF pc[p] = "grow" THEN 1 ELSE 0)
      BY <1>1, <2>1, GrowingCount, Zenon
    <3> QED
      BY <1>1, <3>1
  <2>3. received + count <= MaxSends
    BY <1>1, <2>2
  <2>4. RingTyped' /\ Ring'
    BY <1>1, <1>2, <2>1, <2>3, GetFromRing DEF RInv
  <2>5. Sent'
    BY <1>1, <2>1, <2>2 DEF Sent
  <2> QED
    BY <2>2, <2>4, <2>5 DEF RInv
<1>3. CASE ~(count > 0)
  <2>1. pc' = [pc EXCEPT ![p] = "poll"] /\ UNCHANGED <<msgs, in, out, count, received>>
    BY <1>3 DEF GetMessage, ringVars
  <2> QED
    BY <2>1, OtherRing
<1> QED
  BY <1>2, <1>3

\* A place gets a message or registers.
LEMMA ReceiveRing ==
  ASSUME RInv, NEW p \in Place, Receive(p) \/ TryReceive(p) \/ ChannelReady(p)
  PROVE  RInv'
<1>1. CASE Receive(p) \/ TryReceive(p)
  <2>1. pc[p] # "grow" /\ UNCHANGED began /\ LockAndRegister(p, "tryalloc", GetMessage(p))
    BY <1>1 DEF Receive, TryReceive, GetOrPoll
  <2>2. \/ GetMessage(p)
        \/ pc' = [pc EXCEPT ![p] = "tryalloc"] /\ UNCHANGED <<msgs, in, out, count, received>>
    BY <2>1 DEF LockAndRegister, ringVars
  <2> QED
    BY <2>1, <2>2, GetRing, OtherRing
<1>2. CASE ChannelReady(p)
  <2>1. pc[p] # "grow" /\ UNCHANGED began
    BY <1>2 DEF ChannelReady
  <2>2. /\ UNCHANGED <<msgs, in, out, count, received>>
        /\ \E v \in {"pollalloc", "try", "asleep"} : pc' = [pc EXCEPT ![p] = v]
    BY <1>2 DEF ChannelReady, LockAndRegister, ringVars
  <2> QED
    BY <2>1, <2>2, OtherRing
<1> QED
  BY <1>1, <1>2

\* The steps that have nothing to do with the channel.
PlaceStep(p) ==
  /\ \/ Wake(p) \/ Interruption(p) \/ PlaceSetResult(p) \/ DropReference(p)
     \/ Exit(p) \/ CreatePlace(p) \/ PlaceKill(p) \/ PlaceWait(p)
  /\ UNCHANGED <<ringVars, wakeup, many, localVars, histVars>>

LEMMA PlaceRing ==
  ASSUME RInv, NEW p \in Place, PlaceStep(p)
  PROVE  RInv'
<1>1. UNCHANGED <<msgs, in, out, count, received, began>>
  BY DEF PlaceStep, ringVars, histVars
<1>2. \/ UNCHANGED pc
      \/ /\ pc[p] # "grow"
         /\ \E v \in {"check", "run", "end", "poll", "ended", "gone"} : pc' = [pc EXCEPT ![p] = v]
  BY DEF PlaceStep, Wake, Interruption, CheckForInterruption, PlaceSetResult, DropReference, Exit,
         CreatePlace, PlaceKill, PlaceWait, DoPlaceKill
<1>3. CASE UNCHANGED pc
  <2>1. began \in 0..MaxSends
    BY DEF RInv, RingTyped
  <2>2. Sent' /\ DOMAIN pc' = Place
    BY <1>1, <1>3 DEF RInv, Sent, Growing
  <2> QED
    BY <1>1, <2>1, <2>2, RingKeep DEF RInv
<1> QED
  BY <1>1, <1>2, <1>3, OtherRing

\* The next-state relation, by what a step does to the channel.
LEMMA NextCases ==
  ASSUME Next
  PROVE  \E p \in Place :
           Send(p) \/ Grow(p) \/ Receive(p) \/ TryReceive(p) \/ ChannelReady(p) \/ PlaceStep(p)
BY Zenon DEF Next, Step, Program, PlaceStep

\* At first the ring is empty.
LEMMA InitRing ==
  ASSUME Init
  PROVE  RInv
<1>1. /\ InitialSize \in Nat \ {0} /\ MaxSends \in Nat
      /\ msgs = [i \in 0..(InitialSize - 1) |-> 0] /\ in = 0 /\ out = 0 /\ count = 0
      /\ began = 0 /\ received = 0 /\ DOMAIN pc = Place
  BY PlaceChannelsAssumption DEF Init, PlaceInit
<1>2. size = InitialSize
  <2>1. Cardinality(0..(InitialSize - 1)) = InitialSize
    BY <1>1, FS_Interval
  <2> QED
    BY <1>1, <2>1 DEF size
<1>3. Growing = {}
  BY DEF Init, PlaceInit, Growing
<1>4. Sent
  BY <1>1, <1>3, FS_EmptySet DEF Sent
<1>5. RingTyped
  BY <1>1, <1>2 DEF RingTyped
<1>6. \A j \in 0..(size - 1) : Offset(j) \in Nat
  BY <1>1, <1>2 DEF Offset
<1>7. Ring
  BY <1>1, <1>2, <1>6 DEF Ring
<1> QED
  BY <1>1, <1>4, <1>5, <1>7 DEF RInv

\* No step loses, doubles or reorders a message.
LEMMA StepRing ==
  ASSUME RInv, [Next]_vars
  PROVE  RInv'
<1>1. CASE UNCHANGED vars
  <2>1. UNCHANGED <<pc, msgs, in, out, count, received, began>>
    BY <1>1 DEF vars, ringVars, histVars
  <2>2. began \in 0..MaxSends
    BY DEF RInv, RingTyped
  <2>3. Sent' /\ DOMAIN pc' = Place
    BY <2>1 DEF RInv, Sent, Growing
  <2> QED
    BY <2>1, <2>2, <2>3, RingKeep DEF RInv
<1>2. CASE Next
  BY <1>2, NextCases, SendRing, GrowSentRing, ReceiveRing, PlaceRing
<1> QED
  BY <1>1, <1>2

\* The ring of a channel, at every index modulo its size, has the messages in
\* the order in which they entered, for any number of senders and receivers,
\* and whatever the places to wake up are.
THEOREM Ordered == Spec => []MessagesInOrder
<1>1. Init => RInv
  BY InitRing
<1>2. RInv /\ [Next]_vars => RInv'
  BY StepRing
<1>3. RInv => MessagesInOrder
  <2> SUFFICES ASSUME RInv, NEW i \in 0..(size - 1)
               PROVE  msgs[(out + i) % size] = IF i < count THEN received + i + 1 ELSE 0
    BY DEF MessagesInOrder
  <2>1. PICK n \in Nat \ {0} : n = size
    BY DEF RInv, Ring
  <2>2. out \in 0..(n - 1) /\ i \in 0..(n - 1)
    BY <2>1 DEF RInv, RingTyped
  <2>3. PICK a \in 0..(2 * n - 1) : a = out + i
    BY <2>2
  <2>4. PICK j \in 0..(n - 1) : j = a % n
    OBVIOUS
  <2>5. j = IF a < n THEN a ELSE a - n
    BY <2>4, Wraps
  <2>6. Offset(j) = i
    BY <2>1, <2>2, <2>3, <2>5 DEF Offset
  <2>7. msgs[j] = IF Offset(j) < count THEN received + Offset(j) + 1 ELSE 0
    BY <2>1 DEF RInv, Ring
  <2>8. msgs[a % n] = IF i < count THEN received + i + 1 ELSE 0
    BY <2>4, <2>6, <2>7
  <2> QED
    BY <2>1, <2>3, <2>8, Zenon
<1> QED
  BY <1>1, <1>2, <1>3, PTL DEF Spec

----------------------------------------------------------------------------
(* The places.                                                             *)

\* Where a place can be.
PCs == {"grow", "try", "tryalloc", "poll", "pollalloc"}
         \cup {"none", "run", "asleep", "check", "end", "ended", "gone"}

\* The parts of the invariant that most steps need.
LEMMA Parts ==
  ASSUME IInv
  PROVE  /\ TypeOK /\ Distinct /\ Objects /\ Typed
         /\ pc \in [Place -> PCs] /\ inPipe \subseteq Place /\ stale \in BOOLEAN
         /\ cnt \in [Place -> Nat] /\ sz \in [Place -> Nat] /\ avail \in [Place -> Nat]
         /\ count \in Nat /\ size \in Nat
<1>1. TypeOK /\ Distinct /\ Objects /\ RInv
  BY DEF IInv
<1>2. /\ Typed /\ pc \in [Place -> PCs] /\ inPipe \subseteq Place /\ stale \in BOOLEAN
      /\ cnt \in [Place -> Nat] /\ sz \in [Place -> Nat] /\ avail \in [Place -> Nat]
  BY <1>1 DEF TypeOK, PlaceTypeOK, Typed, PCs
<1>3. count \in Nat /\ size \in Nat
  BY <1>1 DEF RInv, Ring, RingTyped
<1> QED
  BY <1>1, <1>2, <1>3

\* A step of place p that leaves the place objects to the channel.
LEMMA ChannelKeeps ==
  ASSUME IInv, RInv', NEW p \in Place,
         UNCHANGED <<signal_handle, die, dead, held>>,
         pc' \in [Place -> PCs], \A q \in Place : q # p => pc'[q] = pc[q],
         {pc[p], pc'[p]} \cap {"none", "ended", "gone"} = {},
         Typed', Distinct', Recounted,
         \A q \in Place : q \in Registered' => q \in Registered \/ q = p,
         \A q \in Place : q \in Registered /\ signal_handle[q] => q \in Registered',
         inPipe \subseteq inPipe', inPipe' \subseteq Place,
         cnt' \in [Place -> Nat], sz' \in [Place -> Nat], avail' \in [Place -> Nat],
         stale' \in BOOLEAN,
         pc'[p] = "asleep" => p \in Registered' /\ count' = 0,
         count' > 0 /\ ~stale' =>
           /\ ~stale
           /\ count > 0 \/ \A q \in Place : q \in Registered /\ signal_handle[q] => q \in inPipe'
  PROVE  IInv'
<1>1. Objects' /\ refcount' \in [Place -> Nat] /\ destroyed' \subseteq Place
  <2>1. \A q \in Place :
          \/ pc'[q] = pc[q]
          \/ {pc[q], pc'[q]} \cap {"none", "ended", "gone"} = {}
    OBVIOUS
  <2>2. \A q \in Place : q \in Registered' => q \in Registered \/ pc[q] \notin {"none", "gone"}
    OBVIOUS
  <2> QED
    BY <2>1, <2>2, ObjectsKeep DEF IInv
<1>2. TypeOK'
  BY <1>1 DEF IInv, TypeOK, PlaceTypeOK, PCs, RInv, RingTyped, Typed
<1>3. \A q \in Place : pc[q] = "asleep" => signal_handle[q]
  BY DEF IInv, Objects, ObjectOK
<1>4. Sleepers'
  BY <1>3, PlaceChannelsAssumption DEF IInv, Sleepers
<1>5. SleepsOnlyWithoutMessages'
  <2> SUFFICES ASSUME ~stale', NEW q \in Receiver, pc'[q] = "asleep", count' > 0
               PROVE  q \in inPipe'
    BY DEF SleepsOnlyWithoutMessages
  <2>1. q \in Place /\ q # p /\ pc[q] = "asleep"
    <3>1. count' # 0
      BY DEF RInv, Ring, RingTyped
    <3> QED
      BY <3>1, PlaceChannelsAssumption
  <2>2. q \in Registered /\ signal_handle[q]
    BY <1>3, <2>1 DEF IInv, Sleepers
  <2>3. count > 0 => q \in inPipe
    BY <2>1 DEF IInv, SleepsOnlyWithoutMessages
  <2> QED
    BY <2>1, <2>2, <2>3
<1> QED
  BY <1>1, <1>2, <1>4, <1>5 DEF IInv

\* What a message that enters the ring does to the places to wake up.
LEMMA EnqueueFacts ==
  ASSUME IInv, NEW ring, NEW at, NEW first, NEW saw, Enqueue(ring, at, first, saw)
  PROVE  /\ Typed' /\ Distinct' /\ Recounted
         /\ \A q \in Place : q \in Registered' => q \in Registered
         /\ \A q \in Place : q \in Registered /\ signal_handle[q] => q \in Registered'
         /\ inPipe \subseteq inPipe' /\ inPipe' \subseteq Place
         /\ stale' \in BOOLEAN
         /\ ~stale' =>
              /\ ~stale
              /\ count > 0 \/ \A q \in Place : q \in Registered /\ signal_handle[q] => q \in inPipe'
<1>1. /\ TypeOK /\ Distinct /\ Objects /\ Typed /\ inPipe \subseteq Place
      /\ stale' = (stale \/ (count = 0 /\ saw # 0)) /\ stale \in BOOLEAN
  BY DEF IInv, TypeOK, PlaceTypeOK, Typed, Enqueue
<1>2. stale' \in BOOLEAN
  BY <1>1
<1>3. ~stale' => ~stale /\ (count > 0 \/ saw = 0)
  <2>1. count \in Nat
    BY DEF IInv, RInv, Ring, RingTyped
  <2>2. count = 0 \/ count > 0
    BY <2>1
  <2> QED
    BY <1>1, <2>2, Zenon
<1>4. CASE saw = 0 /\ wakeup # <<>>
  <2>1. WakeReceivers
    BY <1>4 DEF Enqueue
  <2> QED
    BY <1>1, <1>2, <1>3, <2>1, WakeFacts
<1>5. CASE ~(saw = 0 /\ wakeup # <<>>)
  <2>1. UNCHANGED <<inPipe, wakeup, many, refcount, destroyed>>
    BY <1>5 DEF Enqueue
  <2>2. Recounted /\ Registered' = Registered
    BY <1>1, <2>1, NothingRecounted
  <2>3. Typed' /\ Distinct'
    BY <1>1, <2>1 DEF Typed, Distinct
  <2>4. wakeup = <<>> => Registered = {}
    BY DEF Registered
  <2> QED
    BY <1>1, <1>2, <1>3, <1>5, <2>1, <2>2, <2>3, <2>4
<1> QED
  BY <1>4, <1>5

\* What a receiver does to the places to wake up.
LEMMA RegistrationFacts ==
  ASSUME IInv, Fits, NEW p \in Place,
         \/ UNCHANGED <<wakeup, many, refcount, destroyed>>
         \/ Register(p) /\ destroyed' = destroyed \cup Unreferenced(refcount')
  PROVE  /\ Typed' /\ Distinct' /\ Recounted
         /\ \A q \in Place : q \in Registered' => q \in Registered \/ q = p
         /\ \A q \in Place : q \in Registered /\ signal_handle[q] => q \in Registered'
<1>1. TypeOK /\ Distinct /\ Objects /\ Typed
  BY DEF IInv, TypeOK, PlaceTypeOK, Typed
<1>2. CASE UNCHANGED <<wakeup, many, refcount, destroyed>>
  <2>1. Recounted /\ Registered' = Registered
    BY <1>1, <1>2, NothingRecounted
  <2>2. Typed' /\ Distinct'
    BY <1>1, <1>2 DEF Typed, Distinct
  <2> QED
    BY <2>1, <2>2
<1> QED
  BY <1>1, <1>2, RegisterFacts

\* A place begins to send.
LEMMA SendStep ==
  ASSUME IInv, RInv', NEW p \in Place, Send(p)
  PROVE  IInv'
<1>1. /\ pc[p] = "run" /\ pc \in [Place -> PCs] /\ UNCHANGED <<signal_handle, die, dead, held, avail>>
      /\ cnt \in [Place -> Nat] /\ sz \in [Place -> Nat] /\ avail \in [Place -> Nat]
      /\ stale \in BOOLEAN /\ inPipe \subseteq Place /\ count \in Nat /\ size \in Nat
      /\ TypeOK /\ Distinct /\ Objects /\ Typed
  BY Parts DEF Send
<1>2. CASE count = size
  <2>1. /\ pc' = [pc EXCEPT ![p] = "grow"] /\ cnt' = [cnt EXCEPT ![p] = count]
        /\ sz' = [sz EXCEPT ![p] = size]
        /\ UNCHANGED <<count, stale, inPipe, wakeup, many, refcount, destroyed>>
    BY <1>2 DEF Send, ringVars
  <2>2. /\ pc' \in [Place -> PCs] /\ pc'[p] = "grow" /\ \A q \in Place : q # p => pc'[q] = pc[q]
        /\ cnt' \in [Place -> Nat] /\ sz' \in [Place -> Nat]
    BY <1>1, <2>1 DEF PCs
  <2>3. Recounted /\ Registered' = Registered
    BY <1>1, <2>1, NothingRecounted
  <2>4. Typed' /\ Distinct'
    BY <1>1, <2>1 DEF Typed, Distinct
  <2> QED
    BY <1>1, <2>1, <2>2, <2>3, <2>4, ChannelKeeps
<1>3. CASE count # size
  <2>1. Enqueue(msgs, in, out, count) /\ UNCHANGED <<pc, cnt, sz>>
    BY <1>3 DEF Send
  <2> QED
    BY <1>1, <2>1, EnqueueFacts, ChannelKeeps
<1> QED
  BY <1>2, <1>3

\* A sender goes on with the ring that it has allocated.
LEMMA GrowStep ==
  ASSUME IInv, RInv', NEW p \in Place, Grow(p)
  PROVE  IInv'
<1>1. /\ pc[p] = "grow" /\ pc \in [Place -> PCs] /\ UNCHANGED <<signal_handle, die, dead, held, avail>>
      /\ cnt \in [Place -> Nat] /\ sz \in [Place -> Nat] /\ avail \in [Place -> Nat]
      /\ stale \in BOOLEAN /\ inPipe \subseteq Place /\ count \in Nat /\ size \in Nat
      /\ TypeOK /\ Distinct /\ Objects /\ Typed
  BY Parts DEF Grow
<1>2. CASE count = size /\ sz[p] # size
  <2>1. /\ sz' = [sz EXCEPT ![p] = size]
        /\ UNCHANGED <<pc, cnt, count, stale, inPipe, wakeup, many, refcount, destroyed>>
    BY <1>2 DEF Grow, ringVars
  <2>2. sz' \in [Place -> Nat]
    BY <1>1, <2>1
  <2>3. Recounted /\ Registered' = Registered
    BY <1>1, <2>1, NothingRecounted
  <2>4. Typed' /\ Distinct'
    BY <1>1, <2>1 DEF Typed, Distinct
  <2> QED
    BY <1>1, <2>1, <2>2, <2>3, <2>4, ChannelKeeps
<1>3. CASE ~(count = size /\ sz[p] # size)
  <2>1. /\ Enqueue(Grown, size, 0, cnt[p]) \/ Enqueue(msgs, in, out, cnt[p])
        /\ pc' = [pc EXCEPT ![p] = "run"]
        /\ cnt' = [cnt EXCEPT ![p] = 0] /\ sz' = [sz EXCEPT ![p] = 0]
    BY <1>3 DEF Grow
  <2>2. /\ pc' \in [Place -> PCs] /\ pc'[p] = "run" /\ \A q \in Place : q # p => pc'[q] = pc[q]
        /\ cnt' \in [Place -> Nat] /\ sz' \in [Place -> Nat]
    BY <1>1, <2>1 DEF PCs
  <2> QED
    BY <1>1, <2>1, <2>2, EnqueueFacts, ChannelKeeps
<1> QED
  BY <1>2, <1>3

\* A place gets a message, or registers and finds none, or sleeps.
LEMMA ReceiveStep ==
  ASSUME IInv, Fits, RInv', NEW p \in Place, Receive(p) \/ TryReceive(p) \/ ChannelReady(p)
  PROVE  IInv'
<1> DEFINE Registers == Register(p) /\ destroyed' = destroyed \cup Unreferenced(refcount')
<1>1. /\ pc[p] \in {"run", "try", "tryalloc", "poll", "pollalloc"} /\ pc \in [Place -> PCs]
      /\ UNCHANGED <<signal_handle, die, dead, held, inPipe, cnt, sz, stale>>
      /\ cnt \in [Place -> Nat] /\ sz \in [Place -> Nat] /\ avail \in [Place -> Nat]
      /\ stale \in BOOLEAN /\ inPipe \subseteq Place /\ count \in Nat
      /\ TypeOK /\ Distinct /\ Objects
  BY Parts DEF Receive, TryReceive, GetOrPoll, ChannelReady
<1>2. NeedsVector(p) \in Nat
  BY DEF NeedsVector, IInv, TypeOK
<1>3. /\ \/ UNCHANGED <<wakeup, many, refcount, destroyed>>
         \/ Registers
      /\ avail' \in [Place -> Nat]
      /\ count' = count \/ count > 0
      /\ \E v \in {"run", "poll", "try", "tryalloc", "pollalloc", "asleep"} :
           /\ pc' = [pc EXCEPT ![p] = v]
           /\ v = "asleep" => Registers /\ count' = count /\ ~(count > 0)
  <2>1. CASE Receive(p) \/ TryReceive(p)
    <3>1. LockAndRegister(p, "tryalloc", GetMessage(p))
      BY <2>1 DEF Receive, TryReceive, GetOrPoll
    <3>2. \/ GetMessage(p)
          \/ pc' = [pc EXCEPT ![p] = "tryalloc"] /\ UNCHANGED count
      BY <3>1 DEF LockAndRegister, ringVars
    <3>3. /\ count' = count \/ count > 0
          /\ \E v \in {"run", "poll", "tryalloc"} : pc' = [pc EXCEPT ![p] = v]
      BY <3>2 DEF GetMessage, ringVars
    <3>4. /\ \/ UNCHANGED <<wakeup, many, refcount, destroyed>>
             \/ Registers
          /\ avail' \in [Place -> Nat]
      BY <1>1, <1>2, <3>1 DEF LockAndRegister
    <3> QED
      BY <3>3, <3>4
  <2>2. CASE ChannelReady(p)
    <3>1. LockAndRegister(p, "pollalloc",
            /\ pc' = [pc EXCEPT ![p] = IF count > 0 THEN "try" ELSE "asleep"]
            /\ UNCHANGED <<ringVars, received>>)
      BY <2>2 DEF ChannelReady
    <3>2. /\ \/ UNCHANGED <<wakeup, many, refcount, destroyed>>
             \/ Registers
          /\ avail' \in [Place -> Nat]
      BY <1>1, <1>2, <3>1 DEF LockAndRegister
    <3>3. /\ count' = count
          /\ \/ pc' = [pc EXCEPT ![p] = "pollalloc"]
             \/ count > 0 /\ pc' = [pc EXCEPT ![p] = "try"]
             \/ Registers /\ ~(count > 0) /\ pc' = [pc EXCEPT ![p] = "asleep"]
      BY <3>1 DEF LockAndRegister, ringVars
    <3> QED
      BY <3>2, <3>3
  <2> QED
    BY <2>1, <2>2
<1>4. PICK v \in {"run", "poll", "try", "tryalloc", "pollalloc", "asleep"} :
        /\ pc' = [pc EXCEPT ![p] = v]
        /\ v = "asleep" => Registers /\ count' = count /\ ~(count > 0)
  BY <1>3
<1>5. /\ pc' \in [Place -> PCs] /\ pc'[p] = v /\ \A q \in Place : q # p => pc'[q] = pc[q]
      /\ {pc[p], pc'[p]} \cap {"none", "ended", "gone"} = {}
  BY <1>1, <1>4 DEF PCs
<1>6. /\ Typed' /\ Distinct' /\ Recounted
      /\ \A q \in Place : q \in Registered' => q \in Registered \/ q = p
      /\ \A q \in Place : q \in Registered /\ signal_handle[q] => q \in Registered'
  BY <1>3, RegistrationFacts
<1>7. Registers => p \in Registered'
  BY <1>1, RegisterFacts
<1>8. pc'[p] = "asleep" => p \in Registered' /\ count' = 0
  BY <1>1, <1>4, <1>5, <1>7
<1>9. count' > 0 => count > 0
  BY <1>3
<1> QED
  BY <1>1, <1>3, <1>5, <1>6, <1>8, <1>9, ChannelKeeps

\* A step that changes only the object of place p, and wakes up nobody else
\* who does not stay awake.
LEMMA PlaceKeeps ==
  ASSUME IInv, RInv', NEW p \in Place,
         UNCHANGED <<ringVars, wakeup, many, localVars, histVars>>,
         pc' \in [Place -> PCs], signal_handle' \in [Place -> BOOLEAN],
         die' \in [Place -> {"no", "asked", "seen"}], dead' \in [Place -> BOOLEAN],
         refcount' \in [Place -> Nat], held' \in [Place -> BOOLEAN],
         destroyed' \subseteq Place, inPipe' \subseteq Place,
         \A q \in Place : q # p => /\ pc'[q] = pc[q] /\ signal_handle'[q] = signal_handle[q]
                                   /\ refcount'[q] = refcount[q] /\ held'[q] = held[q]
                                   /\ q \in destroyed' <=> q \in destroyed
                                   /\ q \in inPipe => q \in inPipe',
         ObjectOK(p)',
         pc'[p] = "asleep" => pc[p] = "asleep" /\ (p \in inPipe => p \in inPipe')
  PROVE  IInv'
<1>1. Registered' = Registered /\ Distinct'
  BY DEF IInv, Registered, Distinct
<1>2. Objects'
  <2>1. ASSUME NEW q \in Place, q # p PROVE ObjectOK(q)'
    BY <1>1, <2>1 DEF IInv, Objects, ObjectOK
  <2> QED
    BY <2>1 DEF Objects
<1>3. TypeOK'
  <2>1. Typed' /\ cnt' \in [Place -> Nat] /\ sz' \in [Place -> Nat] /\ avail' \in [Place -> Nat]
        /\ stale' \in BOOLEAN
    BY Parts DEF Typed, localVars, histVars
  <2> QED
    BY <2>1 DEF TypeOK, PlaceTypeOK, PCs, RInv, RingTyped, Typed
<1>4. \A q \in Place : pc'[q] = "asleep" => pc[q] = "asleep" /\ (q \in inPipe => q \in inPipe')
  OBVIOUS
<1>5. Sleepers'
  BY <1>1, <1>4, PlaceChannelsAssumption DEF IInv, Sleepers
<1>6. SleepsOnlyWithoutMessages'
  <2>1. UNCHANGED <<count, stale>>
    BY DEF ringVars, histVars
  <2> QED
    BY <1>4, <2>1, PlaceChannelsAssumption DEF IInv, SleepsOnlyWithoutMessages
<1> QED
  BY <1>1, <1>2, <1>3, <1>5, <1>6 DEF IInv

\* The steps that have nothing to do with the channel.
LEMMA OwnStep ==
  ASSUME IInv, RInv', NEW p \in Place, PlaceStep(p)
  PROVE  IInv'
<1>1. /\ pc \in [Place -> PCs] /\ signal_handle \in [Place -> BOOLEAN]
      /\ die \in [Place -> {"no", "asked", "seen"}] /\ dead \in [Place -> BOOLEAN]
      /\ refcount \in [Place -> Nat] /\ held \in [Place -> BOOLEAN]
      /\ destroyed \subseteq Place /\ inPipe \subseteq Place
  BY DEF IInv, TypeOK, PlaceTypeOK, PCs
<1>2. ObjectOK(p) /\ \A q \in Place : ObjectOK(q)
  BY DEF IInv, Objects
<1>3. UNCHANGED <<ringVars, wakeup, many, localVars, histVars>> /\ Registered' = Registered
  BY DEF PlaceStep, Registered
<1>4. \A q \in Place : q \in Unreferenced(refcount) => q \in destroyed
  BY <1>2 DEF ObjectOK, Unreferenced
<1>5. ASSUME refcount' = [refcount EXCEPT ![p] = @ - 1], pc[p] # "none",
             destroyed' = destroyed \cup Unreferenced(refcount'),
             held[p] \/ pc[p] # "gone"
      PROVE  /\ refcount' \in [Place -> Nat] /\ destroyed' \subseteq Place
             /\ refcount'[p] = refcount[p] - 1 /\ (p \in destroyed' <=> refcount'[p] = 0)
             /\ \A q \in Place : q # p => refcount'[q] = refcount[q] /\ (q \in destroyed' <=> q \in destroyed)
  <2>1. refcount[p] \in Nat \ {0} /\ p \notin destroyed
    <3>1. /\ refcount[p] = (IF held[p] THEN 1 ELSE 0) + (IF pc[p] # "gone" THEN 1 ELSE 0)
                           + (IF p \in Registered THEN 1 ELSE 0)
          /\ p \in destroyed <=> refcount[p] = 0
      BY <1>2, <1>5 DEF ObjectOK
    <3> QED
      BY <1>1, <1>5, <3>1
  <2>2. refcount' \in [Place -> Nat] /\ refcount'[p] = refcount[p] - 1
        /\ \A q \in Place : q # p => refcount'[q] = refcount[q]
    BY <1>1, <1>5, <2>1
  <2>3. \A q \in Place : q \in destroyed' <=> q \in destroyed \/ (pc[q] # "none" /\ refcount'[q] = 0)
    BY <1>5 DEF Unreferenced
  <2>4. \A q \in Place : q # p => (q \in destroyed' <=> q \in destroyed)
    BY <1>4, <2>2, <2>3 DEF Unreferenced
  <2> QED
    BY <1>1, <1>5, <2>1, <2>2, <2>3, <2>4 DEF Unreferenced
<1>6. CASE Wake(p)
  <2>1. pc[p] = "asleep" /\ pc' = [pc EXCEPT ![p] = "check"] /\ inPipe' = inPipe \ {p}
        /\ UNCHANGED <<signal_handle, die, dead, refcount, held, destroyed>>
    BY <1>6 DEF Wake, objVars
  <2>2. pc' \in [Place -> PCs] /\ pc'[p] = "check" /\ \A q \in Place : q # p => pc'[q] = pc[q]
    BY <1>1, <2>1 DEF PCs
  <2>3. ObjectOK(p)'
    BY <1>2, <1>3, <2>1, <2>2 DEF ObjectOK
  <2> QED
    BY <1>1, <1>3, <2>1, <2>2, <2>3, PlaceKeeps
<1>7. CASE Interruption(p)
  <2>1. /\ pc[p] \in {"run", "check"}
        /\ die' = [die EXCEPT ![p] = IF @ = "asked" THEN "seen" ELSE @]
        /\ \E v \in {"end", "run", "poll"} : pc' = [pc EXCEPT ![p] = v]
        /\ UNCHANGED <<signal_handle, dead, refcount, held, destroyed, inPipe>>
    BY <1>7 DEF Interruption, CheckForInterruption
  <2>2. /\ pc' \in [Place -> PCs] /\ pc'[p] \in {"end", "run", "poll"}
        /\ \A q \in Place : q # p => pc'[q] = pc[q]
        /\ die' \in [Place -> {"no", "asked", "seen"}]
    BY <1>1, <2>1 DEF PCs
  <2>3. ObjectOK(p)'
    BY <1>2, <1>3, <2>1, <2>2 DEF ObjectOK
  <2> QED
    BY <1>1, <1>3, <2>1, <2>2, <2>3, PlaceKeeps
<1>8. CASE Exit(p)
  <2>1. /\ pc[p] = "run" /\ pc' = [pc EXCEPT ![p] = "end"]
        /\ UNCHANGED <<signal_handle, die, dead, refcount, held, destroyed, inPipe>>
    BY <1>8 DEF Exit, objVars
  <2>2. pc' \in [Place -> PCs] /\ pc'[p] = "end" /\ \A q \in Place : q # p => pc'[q] = pc[q]
    BY <1>1, <2>1 DEF PCs
  <2>3. ObjectOK(p)'
    BY <1>2, <1>3, <2>1, <2>2 DEF ObjectOK
  <2> QED
    BY <1>1, <1>3, <2>1, <2>2, <2>3, PlaceKeeps
<1>9. CASE PlaceSetResult(p)
  <2>1. /\ pc[p] = "end" /\ pc' = [pc EXCEPT ![p] = "ended"]
        /\ inPipe' = IF held[p] THEN inPipe \cup {Main} ELSE inPipe
        /\ signal_handle' = [signal_handle EXCEPT ![p] = FALSE] /\ dead' = [dead EXCEPT ![p] = TRUE]
        /\ UNCHANGED <<die, refcount, held, destroyed>>
    BY <1>9 DEF PlaceSetResult
  <2>2. /\ pc' \in [Place -> PCs] /\ pc'[p] = "ended" /\ signal_handle'[p] = FALSE
        /\ signal_handle' \in [Place -> BOOLEAN] /\ dead' \in [Place -> BOOLEAN]
        /\ \A q \in Place : q # p => pc'[q] = pc[q] /\ signal_handle'[q] = signal_handle[q]
    BY <1>1, <2>1 DEF PCs
  <2>3. inPipe' \subseteq Place /\ inPipe \subseteq inPipe'
    BY <1>1, <2>1, PlacesAssumption
  <2>4. ObjectOK(p)'
    BY <1>2, <1>3, <2>1, <2>2 DEF ObjectOK
  <2> QED
    BY <1>1, <1>3, <2>1, <2>2, <2>3, <2>4, PlaceKeeps
<1>10. CASE DropReference(p)
  <2>1. /\ pc[p] = "ended" /\ pc' = [pc EXCEPT ![p] = "gone"]
        /\ refcount' = [refcount EXCEPT ![p] = @ - 1]
        /\ destroyed' = destroyed \cup Unreferenced(refcount')
        /\ UNCHANGED <<signal_handle, die, dead, held, inPipe>>
    BY <1>10 DEF DropReference
  <2>2. pc' \in [Place -> PCs] /\ pc'[p] = "gone" /\ \A q \in Place : q # p => pc'[q] = pc[q]
    BY <1>1, <2>1 DEF PCs
  <2>3. /\ refcount' \in [Place -> Nat] /\ destroyed' \subseteq Place
        /\ refcount'[p] = refcount[p] - 1 /\ (p \in destroyed' <=> refcount'[p] = 0)
        /\ \A q \in Place : q # p => refcount'[q] = refcount[q] /\ (q \in destroyed' <=> q \in destroyed)
    BY <1>5, <2>1
  <2>4. ObjectOK(p)'
    BY <1>2, <1>3, <2>1, <2>2, <2>3 DEF ObjectOK
  <2> QED
    BY <1>1, <1>3, <2>1, <2>2, <2>3, <2>4, PlaceKeeps
<1>11. CASE CreatePlace(p)
  <2>1. /\ pc[p] = "none" /\ pc' = [pc EXCEPT ![p] = "run"]
        /\ signal_handle' = [signal_handle EXCEPT ![p] = TRUE]
        /\ refcount' = [refcount EXCEPT ![p] = 2] /\ held' = [held EXCEPT ![p] = TRUE]
        /\ UNCHANGED <<die, dead, destroyed, inPipe>>
    BY <1>11 DEF CreatePlace
  <2>2. /\ pc' \in [Place -> PCs] /\ pc'[p] = "run" /\ signal_handle'[p] = TRUE
        /\ signal_handle' \in [Place -> BOOLEAN] /\ held' \in [Place -> BOOLEAN] /\ held'[p] = TRUE
        /\ refcount' \in [Place -> Nat] /\ refcount'[p] = 2
        /\ \A q \in Place : q # p => /\ pc'[q] = pc[q] /\ signal_handle'[q] = signal_handle[q]
                                     /\ refcount'[q] = refcount[q] /\ held'[q] = held[q]
    BY <1>1, <2>1 DEF PCs
  <2>3. ObjectOK(p)'
    BY <1>2, <1>3, <2>1, <2>2 DEF ObjectOK
  <2> QED
    BY <1>1, <1>3, <2>1, <2>2, <2>3, PlaceKeeps
<1>12. CASE PlaceKill(p) \/ PlaceWait(p)
  <2>1. /\ held[p] /\ die' = [die EXCEPT ![p] = IF @ = "no" THEN "asked" ELSE @]
        /\ refcount' = [refcount EXCEPT ![p] = @ - 1]
        /\ destroyed' = destroyed \cup Unreferenced(refcount')
        /\ inPipe' = (IF signal_handle[p] THEN inPipe \cup {p} ELSE inPipe)
        /\ held' = [held EXCEPT ![p] = FALSE]
        /\ UNCHANGED <<pc, signal_handle, dead>>
    BY <1>12 DEF PlaceKill, PlaceWait, DoPlaceKill
  <2>2. /\ held' \in [Place -> BOOLEAN] /\ held'[p] = FALSE /\ \A q \in Place : q # p => held'[q] = held[q]
        /\ die' \in [Place -> {"no", "asked", "seen"}]
    BY <1>1, <2>1
  <2>3. pc[p] # "none"
    BY <1>2, <2>1 DEF ObjectOK
  <2>4. /\ refcount' \in [Place -> Nat] /\ destroyed' \subseteq Place
        /\ refcount'[p] = refcount[p] - 1 /\ (p \in destroyed' <=> refcount'[p] = 0)
        /\ \A q \in Place : q # p => refcount'[q] = refcount[q] /\ (q \in destroyed' <=> q \in destroyed)
    BY <1>5, <2>1, <2>3
  <2>5. ObjectOK(p)'
    BY <1>2, <1>3, <2>1, <2>2, <2>3, <2>4 DEF ObjectOK
  <2>6. inPipe' \subseteq Place /\ inPipe \subseteq inPipe'
    BY <1>1, <2>1
  <2> QED
    BY <1>1, <1>3, <2>1, <2>2, <2>4, <2>5, <2>6, PlaceKeeps
<1> QED
  BY <1>6, <1>7, <1>8, <1>9, <1>10, <1>11, <1>12 DEF PlaceStep

----------------------------------------------------------------------------
(* The theorems.                                                           *)

\* At first only the original place runs, and nobody is registered.
LEMMA InitEstablishes ==
  ASSUME Init
  PROVE  IInv
<1>1. RInv
  BY InitRing
<1>2. Registered = {} /\ Distinct
  BY DEF Init, Registered, Distinct
<1>3. TypeOK
  <2>1. PlaceTypeOK({"grow", "try", "tryalloc", "poll", "pollalloc"})
    <3>1. signal_handle \in [Place -> BOOLEAN]
      BY Zenon DEF Init, PlaceInit
    <3> QED
      BY <3>1 DEF Init, PlaceInit, PlaceTypeOK
  <2>2. /\ wakeup \in Seq(Place \cup {NoPlace}) /\ Len(wakeup) = 0 /\ many \in BOOLEAN /\ stale \in BOOLEAN
        /\ cnt \in [Place -> Nat] /\ sz \in [Place -> Nat] /\ avail \in [Place -> Nat]
    <3>1. many \in BOOLEAN /\ stale \in BOOLEAN
      BY Zenon DEF Init
    <3>2. wakeup = <<>> /\ \A S : <<>> \in Seq(S) /\ Len(<<>>) = 0
      BY DEF Init
    <3>3. cnt \in [Place -> Nat] /\ sz \in [Place -> Nat] /\ avail \in [Place -> Nat]
      BY DEF Init
    <3> QED
      BY <3>1, <3>2, <3>3
  <2> QED
    BY <1>1, <2>1, <2>2 DEF TypeOK, RInv, RingTyped
<1>4. Objects
  <2> SUFFICES ASSUME NEW p \in Place PROVE ObjectOK(p)
    BY DEF Objects
  <2>1. /\ pc[p] = (IF p = Main THEN "run" ELSE "none") /\ refcount[p] = (IF p = Main THEN 1 ELSE 0)
        /\ held[p] = FALSE /\ destroyed = {}
    BY DEF Init, PlaceInit
  <2>2. signal_handle[p] <=> p = Main
    BY Zenon DEF Init, PlaceInit
  <2> QED
    BY <1>2, <2>1, <2>2 DEF ObjectOK
<1>5. Sleepers /\ SleepsOnlyWithoutMessages
  BY PlaceChannelsAssumption DEF Init, PlaceInit, Sleepers, SleepsOnlyWithoutMessages
<1> QED
  BY <1>1, <1>2, <1>3, <1>4, <1>5 DEF IInv

\* Every step preserves the invariant, as long as a place that registers has
\* room.
LEMMA StepPreserves ==
  ASSUME IInv, Fits, [Next]_vars
  PROVE  IInv'
<1>1. RInv'
  BY StepRing DEF IInv
<1>2. CASE UNCHANGED vars
  BY <1>1, <1>2 DEF vars, objVars, ringVars, localVars, histVars, IInv, TypeOK, PlaceTypeOK, RInv, RingTyped,
                    Distinct, Objects, ObjectOK, Registered, Sleepers, SleepsOnlyWithoutMessages
<1>3. CASE Next
  BY <1>1, <1>3, NextCases, SendStep, GrowStep, ReceiveStep, OwnStep
<1> QED
  BY <1>2, <1>3

\* As long as a place that registers has room, the places and the channel
\* agree: every sleeping receiver is registered, once, and every reference is
\* counted.
THEOREM Invariance == Spec /\ []Fits => []IInv
<1>1. Init => IInv
  BY InitEstablishes
<1>2. IInv /\ Fits /\ [Next]_vars => IInv'
  BY StepPreserves
<1> QED
  BY <1>1, <1>2, PTL DEF Spec

\* The state of the places and of the channel has its type.
THEOREM TypeCorrect == Spec /\ []Fits => []TypeOK
<1>1. IInv => TypeOK
  BY DEF IInv
<1> QED
  BY <1>1, Invariance, PTL

\* The reference count of a place object is the number of its users, and the
\* last of them destroys the lock: place_object_dec_refcount is called once for
\* each reference.
THEOREM Counted == Spec /\ []Fits => []ReferencesCounted
<1>1. IInv => ReferencesCounted
  <2> SUFFICES ASSUME IInv, NEW p \in Place, pc[p] # "none"
               PROVE  /\ refcount[p] = (IF held[p] THEN 1 ELSE 0)
                                       + (IF pc[p] # "gone" THEN 1 ELSE 0)
                                       + Cardinality({i \in DOMAIN wakeup : wakeup[i] = p})
                      /\ p \in destroyed <=> refcount[p] = 0
    BY DEF ReferencesCounted
  <2>1. Cardinality({i \in DOMAIN wakeup : wakeup[i] = p}) = IF p \in Registered THEN 1 ELSE 0
    BY Parts, OneReference DEF Typed
  <2>2. ObjectOK(p)
    BY DEF IInv, Objects
  <2> QED
    BY <2>1, <2>2 DEF ObjectOK
<1> QED
  BY <1>1, Invariance, PTL

\* A receiver never sleeps on messages, unless a sender that had allocated a
\* larger ring relied on the count from before: every place that sleeps is
\* registered, also after the dead were dropped and the vector shrank.
THEOREM NoMessageMissed == Spec /\ []Fits => []SleepsOnlyWithoutMessages
<1>1. IInv => SleepsOnlyWithoutMessages
  BY DEF IInv
<1> QED
  BY <1>1, Invariance, PTL
=============================================================================
