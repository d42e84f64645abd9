--------------------------- MODULE PlacesGCProofs ---------------------------
(***************************************************************************)
(* Proofs, for any finite set of places, any size of the table and any     *)
(* number of requests, of the safety properties of module PlacesGC.        *)
(***************************************************************************)
EXTENDS PlacesGC, FiniteSetTheorems, WellFoundedInduction, TLAPS

----------------------------------------------------------------------------
(* The inductive invariant.                                                *)

\* The places that have a collector, and the places at a point of their program.
Members == {p \in Place : pc[p] \notin {"none", "spawned", "dead"}}
At(at) == {p \in Place : pc[p] = at}

\* The original place never ends.
MainStays == back[Main] = "run" /\ Main \in Members /\ pc[Main] # "destruct"

\* A place that is being created has a parent that waits for it alone.
Born(q) == pc[q] \in {"spawned", "created", "handle"}
Families ==
  /\ \A p \in Place : readySema[p] => pc[p] = "waitready"
  /\ \A q \in Place :
       Born(q) => /\ parent[q] \in Place
                  /\ pc[parent[q]] = "waitready" /\ ~readySema[parent[q]]
  /\ \A q, r \in Place : Born(q) /\ Born(r) /\ parent[q] = parent[r] => q = r

\* Every member has a slot of its own, nobody else has one, and there is room
\* for one more.
Slots ==
  /\ alive = Cardinality(Members) + 1 /\ alive < size
  /\ signal_fds[0] = CREATED_BUT_NOT_REGISTERED
  /\ \A p \in Members : placeId[p] \in 1..(size - 1)
  /\ \A p, q \in Members : placeId[p] = placeId[q] => p = q
  /\ \A i \in 1..(size - 1) :
       signal_fds[i] # REAPED_SLOT_AVAILABLE => \E p \in Members : placeId[p] = i

\* What a member's slot holds; a place is marked as signalled during a request.
Handles ==
  /\ \A p \in Members :
       IF pc[p] = "created"
       THEN signal_fds[placeId[p]] \in {CREATED_BUT_NOT_REGISTERED, SIGNALED_BUT_NOT_REGISTERED}
       ELSE signal_fds[placeId[p]] = p
  /\ \A i \in 1..(size - 1) : signal_fds[i] = SIGNALED_BUT_NOT_REGISTERED => major

\* The five phases of a collection.  Places gather for the first rendezvous,
\* while those that the last collection has released wake up; ...
Gathering ==
  /\ cangc = NoPlace
  /\ \A p \in Place : pc[p] \notin {"readgo", "postgo", "major", "done", "mastergc", "postdone"}
  /\ ~major => \A p \in Place : pc[p] \notin {"go", "waitgo"}
  /\ ready = Cardinality(At("waitgo"))
  /\ wait_go_sema = 0 /\ wait_done_sema = Cardinality(At("waitdone"))

\* ... the last one is about to release them; ...
Going(p) ==
  /\ cangc = NoPlace /\ major
  /\ pc[p] = "readgo"
  /\ \A q \in Place \ {p} : pc[q] \in {"waitgo", "none", "dead"}
  /\ ready = 0 /\ wait_go_sema = 0 /\ wait_done_sema = 0

\* ... they mark, and gather for the second one, ...
Marking ==
  /\ cangc = NoPlace /\ major
  /\ \A q \in Place : pc[q] \in {"postgo", "waitgo", "major", "done", "waitdone", "none", "dead"}
  /\ \A p, q \in Place : pc[p] = "postgo" /\ pc[q] = "postgo" => p = q
  /\ \A p \in Place : pc[p] = "postgo" => wait_go_sema + toPost[p] = Cardinality(At("waitgo"))
  /\ (\A p \in Place : pc[p] # "postgo") => wait_go_sema = Cardinality(At("waitgo"))
  /\ ready = Cardinality(At("waitdone")) /\ wait_done_sema = 0

\* ... the last one is about to collect for all; ...
Mastering(p) ==
  /\ cangc = NoPlace /\ major
  /\ pc[p] = "mastergc"
  /\ \A q \in Place \ {p} : pc[q] \in {"waitdone", "none", "dead"}
  /\ ready = 0 /\ wait_go_sema = 0 /\ wait_done_sema = 0

\* ... and it releases them.
Releasing(p) ==
  /\ cangc = p /\ ~major
  /\ pc[p] = "postdone"
  /\ \A q \in Place \ {p} : pc[q] \in {"waitdone", "again", "none", "dead"}
  /\ ready = 0 /\ wait_go_sema = 0
  /\ wait_done_sema + toPost[p] = Cardinality(At("waitdone"))

Phases ==
  \/ Gathering
  \/ \E p \in Place : Going(p)
  \/ Marking
  \/ \E p \in Place : Mastering(p)
  \/ \E p \in Place : Releasing(p)

IInv == TypeOK /\ ~aborted /\ MainStays /\ Families /\ Slots /\ Handles /\ Phases

----------------------------------------------------------------------------
(* Facts about sets of places and about the table.                         *)

\* A set of places is finite.
LEMMA PlaceSets ==
  ASSUME NEW S, S \subseteq Place
  PROVE  IsFiniteSet(S) /\ Cardinality(S) \in 0..Cardinality(Place)
BY FS_Subset, FS_CardinalityType, PlacesGCAssumption

\* There are finitely many places, the original one among them.
LEMMA PlaceCount ==
  Cardinality(Place) \in Nat /\ Cardinality(Place) > 0
BY FS_CardinalityType, FS_EmptySet, PlacesGCAssumption

\* A set of natural numbers has a least one (NewGCMasterInfo_find_free_id).
LEMMA LeastSlot ==
  ASSUME NEW S, S \subseteq Nat, S # {}
  PROVE  Min(S) \in S
<1> DEFINE R == OpToRel(<, Nat)
<1>1. IsWellFoundedOn(R, Nat)
  BY NatLessThanWellFounded
<1>2. \A m, n \in Nat : m < n => <<m, n>> \in R
  BY DEF OpToRel
<1> HIDE DEF R
<1>3. \E x \in S : \A y \in S : ~(<<y, x>> \in R)
  BY <1>1, WFMin, Zenon
<1>4. PICK x \in S : \A y \in S : ~(<<y, x>> \in R)
  BY <1>3
<1>5. ASSUME NEW y \in S PROVE x =< y
  <2>1. x \in Nat /\ y \in Nat
    OBVIOUS
  <2>2. ~(y < x)
    BY <1>4, <1>2, <2>1, Zenon
  <2> QED
    BY <2>1, <2>2
<1> QED
  BY <1>5 DEF Min

\* One place goes from one point to another: what that does to the numbers of
\* places at either.
LEMMA MoveCounts ==
  ASSUME pc \in [Place -> PC], NEW p \in Place, NEW from, NEW to, from # to,
         pc[p] = from, pc' = [pc EXCEPT ![p] = to]
  PROVE  /\ Cardinality(At(to)') = Cardinality(At(to)) + 1
         /\ Cardinality(At(from)') = Cardinality(At(from)) - 1
         /\ \A at : at # from /\ at # to => At(at)' = At(at)
<1>1. At(to)' = At(to) \cup {p} /\ p \notin At(to)
  BY DEF At
<1>2. At(from)' = At(from) \ {p} /\ p \in At(from)
  BY DEF At
<1>3. IsFiniteSet(At(to)) /\ IsFiniteSet(At(from))
  BY PlaceSets DEF At
<1>4. Cardinality(At(to)') = Cardinality(At(to)) + 1
  BY <1>1, <1>3, FS_AddElement
<1>5. Cardinality(At(from)') = Cardinality(At(from)) - 1
  BY <1>2, <1>3, FS_RemoveElement
<1>6. \A at : at # from /\ at # to => At(at)' = At(at)
  BY DEF At
<1> QED
  BY <1>4, <1>5, <1>6

\* alive counts the members and the master, and there is at least one member.
LEMMA AliveRange ==
  ASSUME MainStays, Slots
  PROVE  /\ alive \in 2..(Cardinality(Place) + 1)
         /\ Members \subseteq Place /\ IsFiniteSet(Members)
         /\ Cardinality(Members) = alive - 1
<1>1. Members \subseteq Place
  BY DEF Members
<1>2. IsFiniteSet(Members) /\ Cardinality(Members) \in 0..Cardinality(Place)
  BY <1>1, PlaceSets
<1>3. Cardinality(Members) # 0
  BY <1>2, FS_EmptySet DEF MainStays
<1> QED
  BY <1>1, <1>2, <1>3, PlaceCount DEF Slots

\* When all members but p are at one point, p is the last one that is not.
LEMMA LastOne ==
  ASSUME MainStays, Slots, NEW p \in Members, NEW at, pc[p] # at,
         at \notin {"none", "spawned", "dead"}
  PROVE  /\ Cardinality(At(at)) <= alive - 2
         /\ Cardinality(At(at)) = alive - 2 <=> \A q \in Members : q = p \/ pc[q] = at
<1>1. At(at) \subseteq Members \ {p}
  BY DEF At, Members
<1>2. IsFiniteSet(Members \ {p}) /\ Cardinality(Members \ {p}) = alive - 2
  BY AliveRange, FS_RemoveElement
<1>3. /\ IsFiniteSet(At(at)) /\ Cardinality(At(at)) <= Cardinality(Members \ {p})
      /\ Cardinality(Members \ {p}) = Cardinality(At(at)) => Members \ {p} = At(at)
  BY <1>1, <1>2, FS_Subset
<1>4. Members \ {p} = At(at) <=> \A q \in Members : q = p \/ pc[q] = at
  BY <1>1 DEF At, Members
<1> QED
  BY <1>2, <1>3, <1>4

\* Whoever is outside of a collection stops it from starting: the phase is the
\* first one.
LEMMA OutsideGathering ==
  ASSUME Phases, NEW p \in Place,
         \/ pc[p] \in {"spawned", "created", "handle", "posted", "run", "waitready", "asleep",
                       "check", "wants", "go", "destruct"}
         \/ pc[p] = "again" /\ cangc = NoPlace
  PROVE  Gathering
<1>1. ASSUME NEW q \in Place, Going(q) PROVE FALSE
  BY <1>1 DEF Going
<1>2. ASSUME Marking PROVE FALSE
  BY <1>2 DEF Marking
<1>3. ASSUME NEW q \in Place, Mastering(q) PROVE FALSE
  BY <1>3 DEF Mastering
<1>4. ASSUME NEW q \in Place, Releasing(q) PROVE FALSE
  BY <1>4, PlacesGCAssumption DEF Releasing
<1> QED
  BY <1>1, <1>2, <1>3, <1>4 DEF Phases

\* Places that move outside of the rendezvous do not change the phase.
LEMMA GatheringKeeps ==
  ASSUME Gathering,
         UNCHANGED <<cangc, major, ready, wait_go_sema, wait_done_sema>>,
         \A q \in Place :
           pc'[q] # pc[q] =>
             /\ pc[q] \notin {"waitgo", "waitdone"}
             /\ pc'[q] \notin {"readgo", "postgo", "major", "done", "mastergc", "postdone",
                               "waitgo", "waitdone"}
             /\ pc'[q] = "go" => major
  PROVE  Gathering'
<1>1. At("waitgo")' = At("waitgo") /\ At("waitdone")' = At("waitdone")
  BY DEF At, Gathering
<1> QED
  BY <1>1 DEF Gathering

\* A member that stays one, and neither waits for a place that it creates nor
\* is being created, has its slot as before.
LEMMA MemberMoves ==
  ASSUME TypeOK, MainStays, Families, Slots, Handles,
         NEW p \in Place, NEW to,
         pc[p] \notin {"none", "spawned", "created", "handle", "waitready", "dead"},
         to \notin {"none", "spawned", "created", "handle", "waitready", "dead"},
         p = Main => to # "destruct",
         back'[Main] = "run",
         pc' = [pc EXCEPT ![p] = to],
         UNCHANGED <<parent, readySema, placeId, signal_fds, alive, major>>
  PROVE  MainStays' /\ Families' /\ Slots' /\ Handles'
<1>1. Members' = Members
  BY DEF Members, TypeOK
<1>2. MainStays'
  BY <1>1, PlacesGCAssumption DEF MainStays, TypeOK
<1>3. Families'
  BY DEF Families, Born, TypeOK
<1>4. Slots'
  BY <1>1 DEF Slots, size
<1>5. Handles'
  BY <1>1 DEF Handles, Members, size, TypeOK
<1> QED
  BY <1>2, <1>3, <1>4, <1>5

----------------------------------------------------------------------------
(* The steps outside of a collection.                                      *)

\* GC_check_master_gc_request outside of the lock.
LEMMA CheckKeeps ==
  ASSUME IInv, ~aborted, NEW p \in Place, Check(p)
  PROVE  IInv'
<1> USE DEF IInv
<1>1. PICK to \in {"wants", "run"} : pc' = [pc EXCEPT ![p] = to]
  BY DEF Check, Goto, TypeOK
<1>2. /\ pc[p] = "check"
      /\ UNCHANGED <<parent, readySema, toPost, placeId, masterVars, semaVars, requests, aborted>>
      /\ back'[Main] = "run" /\ (p = Main => to # "destruct")
  BY <1>1, PlacesGCAssumption DEF Check, Goto, placeVars, MainStays, TypeOK, Members
<1>3. Gathering
  BY <1>2, OutsideGathering DEF masterVars
<1>4. Gathering'
  BY <1>1, <1>2, <1>3, GatheringKeeps DEF masterVars, semaVars, TypeOK
<1>5. MainStays' /\ Families' /\ Slots' /\ Handles'
  BY <1>1, <1>2, MemberMoves DEF masterVars
<1>6. TypeOK'
  BY <1>1, <1>2 DEF Check, TypeOK, size, PC, masterVars, semaVars, placeVars
<1> QED
  BY <1>2, <1>4, <1>5, <1>6 DEF Phases

\* A place goes to the scheduler or to sleep.
LEMMA ThreadBlockKeeps ==
  ASSUME IInv, ~aborted, NEW p \in Place, ThreadBlock(p)
  PROVE  IInv'
<1> USE DEF IInv
<1>1. PICK to \in {"check", "asleep"} : pc' = [pc EXCEPT ![p] = to]
  BY DEF ThreadBlock, Goto, TypeOK
<1>2. /\ pc[p] = "run"
      /\ UNCHANGED <<parent, readySema, toPost, placeId, masterVars, semaVars, requests, aborted>>
      /\ back'[Main] = "run" /\ (p = Main => to # "destruct")
  BY <1>1, PlacesGCAssumption DEF ThreadBlock, Goto, placeVars, MainStays, TypeOK, Members
<1>3. Gathering
  BY <1>2, OutsideGathering DEF masterVars
<1>4. Gathering'
  BY <1>1, <1>2, <1>3, GatheringKeeps DEF masterVars, semaVars, TypeOK
<1>5. MainStays' /\ Families' /\ Slots' /\ Handles'
  BY <1>1, <1>2, MemberMoves DEF masterVars
<1>6. TypeOK'
  BY <1>1, <1>2 DEF ThreadBlock, TypeOK, size, PC, masterVars, semaVars, placeVars
<1> QED
  BY <1>2, <1>4, <1>5, <1>6 DEF Phases

\* A place wakes up.
LEMMA WakeKeeps ==
  ASSUME IInv, ~aborted, NEW p \in Place, Wake(p)
  PROVE  IInv'
<1> USE DEF IInv
<1>1. PICK to \in {"check"} : pc' = [pc EXCEPT ![p] = to]
  BY DEF Wake, Goto, TypeOK
<1>2. /\ pc[p] = "asleep"
      /\ UNCHANGED <<parent, readySema, toPost, placeId, masterVars, semaVars, requests, aborted>>
      /\ back'[Main] = "run" /\ (p = Main => to # "destruct")
  BY <1>1, PlacesGCAssumption DEF Wake, Goto, placeVars, MainStays, TypeOK, Members
<1>3. Gathering
  BY <1>2, OutsideGathering DEF masterVars
<1>4. Gathering'
  BY <1>1, <1>2, <1>3, GatheringKeeps DEF masterVars, semaVars, TypeOK
<1>5. MainStays' /\ Families' /\ Slots' /\ Handles'
  BY <1>1, <1>2, MemberMoves DEF masterVars
<1>6. TypeOK'
  BY <1>1, <1>2 DEF Wake, TypeOK, size, PC, masterVars, semaVars, placeVars
<1> QED
  BY <1>2, <1>4, <1>5, <1>6 DEF Phases

\* A place is out of memory.
LEMMA AllocateKeeps ==
  ASSUME IInv, ~aborted, NEW p \in Place, Allocate(p)
  PROVE  IInv'
<1> USE DEF IInv
<1>1. PICK to \in {"wants"} : pc' = [pc EXCEPT ![p] = to]
  BY DEF Allocate, Goto, TypeOK
<1>2. /\ pc[p] = "run"
      /\ UNCHANGED <<parent, readySema, toPost, placeId, masterVars, semaVars, requests, aborted>>
      /\ back'[Main] = "run" /\ (p = Main => to # "destruct")
  BY <1>1, PlacesGCAssumption DEF Allocate, Goto, placeVars, MainStays, TypeOK, Members
<1>3. Gathering
  BY <1>2, OutsideGathering DEF masterVars
<1>4. Gathering'
  BY <1>1, <1>2, <1>3, GatheringKeeps DEF masterVars, semaVars, TypeOK
<1>5. MainStays' /\ Families' /\ Slots' /\ Handles'
  BY <1>1, <1>2, MemberMoves DEF masterVars
<1>6. TypeOK'
  BY <1>1, <1>2 DEF Allocate, TypeOK, size, PC, masterVars, semaVars, placeVars
<1> QED
  BY <1>2, <1>4, <1>5, <1>6 DEF Phases

\* The loop of collect_now: the place takes part if there is a request.
LEMMA CollectNowKeeps ==
  ASSUME IInv, ~aborted, NEW p \in Place, CollectNow(p)
  PROVE  IInv'
<1> USE DEF IInv
<1>1. PICK to \in {"go", "again"} : pc' = [pc EXCEPT ![p] = to] /\ (to = "go" => major)
  BY DEF CollectNow, Goto, TypeOK
<1>2. /\ pc[p] = "wants"
      /\ UNCHANGED <<parent, readySema, toPost, placeId, masterVars, semaVars, requests, aborted>>
      /\ back'[Main] = "run" /\ (p = Main => to # "destruct")
  BY <1>1, PlacesGCAssumption DEF CollectNow, Goto, placeVars, MainStays, TypeOK, Members
<1>3. Gathering
  BY <1>2, OutsideGathering DEF masterVars
<1>4. Gathering'
  BY <1>1, <1>2, <1>3, GatheringKeeps DEF masterVars, semaVars, TypeOK
<1>5. MainStays' /\ Families' /\ Slots' /\ Handles'
  BY <1>1, <1>2, MemberMoves DEF masterVars
<1>6. TypeOK'
  BY <1>1, <1>2 DEF CollectNow, TypeOK, size, PC, masterVars, semaVars, placeVars
<1> QED
  BY <1>2, <1>4, <1>5, <1>6 DEF Phases

\* The end of the loop of collect_now.
LEMMA AgainKeeps ==
  ASSUME IInv, ~aborted, NEW p \in Place, Again(p)
  PROVE  IInv'
<1> USE DEF IInv
<1>1. PICK to \in {"wants", "run", "destruct"} : pc' = [pc EXCEPT ![p] = to]
  BY DEF Again, Goto, TypeOK
<1>2. /\ pc[p] = "again"
      /\ UNCHANGED <<parent, readySema, toPost, placeId, masterVars, semaVars, requests, aborted>>
      /\ back'[Main] = "run" /\ (p = Main => to # "destruct")
  BY <1>1, PlacesGCAssumption DEF Again, Goto, placeVars, MainStays, TypeOK, Members
<1>3. Gathering
  BY <1>2, OutsideGathering DEF masterVars, Again, Unlocked
<1>4. Gathering'
  BY <1>1, <1>2, <1>3, GatheringKeeps DEF masterVars, semaVars, TypeOK
<1>5. MainStays' /\ Families' /\ Slots' /\ Handles'
  BY <1>1, <1>2, MemberMoves DEF masterVars
<1>6. TypeOK'
  BY <1>1, <1>2 DEF Again, TypeOK, size, PC, masterVars, semaVars, placeVars
<1> QED
  BY <1>2, <1>4, <1>5, <1>6 DEF Phases

\* A new place joins.
LEMMA AllowMasterGCCheckKeeps ==
  ASSUME IInv, ~aborted, NEW p \in Place, AllowMasterGCCheck(p)
  PROVE  IInv'
<1> USE DEF IInv
<1>1. PICK to \in {"check"} : pc' = [pc EXCEPT ![p] = to]
  BY DEF AllowMasterGCCheck, Goto, TypeOK
<1>2. /\ pc[p] = "posted"
      /\ UNCHANGED <<parent, readySema, toPost, placeId, masterVars, semaVars, requests, aborted>>
      /\ back'[Main] = "run" /\ (p = Main => to # "destruct")
  BY <1>1, PlacesGCAssumption DEF AllowMasterGCCheck, Goto, placeVars, MainStays, TypeOK, Members
<1>3. Gathering
  BY <1>2, OutsideGathering DEF masterVars
<1>4. Gathering'
  BY <1>1, <1>2, <1>3, GatheringKeeps DEF masterVars, semaVars, TypeOK
<1>5. MainStays' /\ Families' /\ Slots' /\ Handles'
  BY <1>1, <1>2, MemberMoves DEF masterVars
<1>6. TypeOK'
  BY <1>1, <1>2 DEF AllowMasterGCCheck, TypeOK, size, PC, masterVars, semaVars, placeVars
<1> QED
  BY <1>2, <1>4, <1>5, <1>6 DEF Phases

\* A place other than the original one ends.
LEMMA TerminateKeeps ==
  ASSUME IInv, ~aborted, NEW p \in Place, Terminate(p)
  PROVE  IInv'
<1> USE DEF IInv
<1>1. PICK to \in {"destruct"} : pc' = [pc EXCEPT ![p] = to]
  BY DEF Terminate, Goto, TypeOK
<1>2. /\ pc[p] = "run"
      /\ UNCHANGED <<parent, readySema, toPost, placeId, masterVars, semaVars, requests, aborted>>
      /\ back'[Main] = "run" /\ (p = Main => to # "destruct")
  BY <1>1, PlacesGCAssumption DEF Terminate, Goto, placeVars, MainStays, TypeOK, Members
<1>3. Gathering
  BY <1>2, OutsideGathering DEF masterVars
<1>4. Gathering'
  BY <1>1, <1>2, <1>3, GatheringKeeps DEF masterVars, semaVars, TypeOK
<1>5. MainStays' /\ Families' /\ Slots' /\ Handles'
  BY <1>1, <1>2, MemberMoves DEF masterVars
<1>6. TypeOK'
  BY <1>1, <1>2 DEF Terminate, TypeOK, size, PC, masterVars, semaVars, placeVars
<1> QED
  BY <1>2, <1>4, <1>5, <1>6 DEF Phases

----------------------------------------------------------------------------
(* The two rendezvous.                                                     *)

\* Nobody creates a place when every member but p is at a point in a collection.
LEMMA NobodySpawned ==
  ASSUME TypeOK, Families, NEW p \in Place, pc[p] # "waitready",
         NEW at, at # "waitready", \A q \in Members : q = p \/ pc[q] = at
  PROVE  \A q \in Place : pc[q] # "spawned"
<1> SUFFICES ASSUME NEW q \in Place, pc[q] = "spawned" PROVE FALSE
  OBVIOUS
<1>1. parent[q] \in Place /\ pc[parent[q]] = "waitready"
  BY DEF Families, Born
<1>2. parent[q] \in Members
  BY <1>1 DEF Members
<1> QED
  BY <1>1, <1>2

\* wait_until_master_in_progress: p waits, or it is the last one and all other
\* members wait.
LEMMA WaitUntilMasterInProgressKeeps ==
  ASSUME IInv, ~aborted, NEW p \in Place, WaitUntilMasterInProgress(p)
  PROVE  IInv'
<1> USE DEF IInv
<1>0. /\ pc[p] = "go" /\ pc \in [Place -> PC]
      /\ UNCHANGED <<placeVars, semaVars, requests, aborted, cangc, signal_fds, alive, major>>
  BY DEF WaitUntilMasterInProgress, SyncMasterProgress, TypeOK
<1>1. Gathering
  BY <1>0, OutsideGathering
<1>2. major
  BY <1>0, <1>1 DEF Gathering
<1>3. /\ p \in Members /\ alive \in Int /\ ready = Cardinality(At("waitgo"))
      /\ ready \in Nat /\ ready <= alive - 2
  <2>1. p \in Members
    BY <1>0 DEF Members
  <2>2. Cardinality(At("waitgo")) <= alive - 2
    BY <1>0, <2>1, LastOne
  <2> QED
    BY <1>1, <2>1, <2>2 DEF Gathering, TypeOK
<1>4. CASE alive - 1 = ready + 1
  <2>1. ready' = 0 /\ pc' = [pc EXCEPT ![p] = "readgo"]
    BY <1>2, <1>4 DEF WaitUntilMasterInProgress, SyncMasterProgress
  <2>2. \A q \in Members : q = p \/ pc[q] = "waitgo"
    BY <1>0, <1>3, <1>4, LastOne
  <2>3. \A q \in Place : pc[q] # "spawned"
    BY <1>0, <2>2, NobodySpawned
  <2>4. \A q \in Place \ {p} : pc[q] \in {"waitgo", "none", "dead"}
    BY <2>2, <2>3 DEF Members
  <2>5. wait_done_sema = 0
    <3>1. At("waitdone") = {}
      BY <1>0, <2>4 DEF At
    <3> QED
      BY <1>1, <3>1, FS_EmptySet DEF Gathering
  <2>6. Going(p)'
    BY <1>0, <1>1, <1>2, <2>1, <2>4, <2>5 DEF Going, Gathering, semaVars
  <2>7. MainStays' /\ Families' /\ Slots' /\ Handles'
    BY <1>0, <2>1, MemberMoves DEF placeVars, MainStays
  <2>8. TypeOK'
    BY <1>0, <2>1, PlaceCount DEF TypeOK, PC, size, placeVars, semaVars
  <2> QED
    BY <1>0, <2>6, <2>7, <2>8 DEF Phases
<1>5. CASE alive - 1 # ready + 1
  <2>1. ready' = ready + 1 /\ pc' = [pc EXCEPT ![p] = "waitgo"]
    BY <1>2, <1>5 DEF WaitUntilMasterInProgress, SyncMasterProgress
  <2>2. /\ Cardinality(At("waitgo")') = Cardinality(At("waitgo")) + 1
        /\ At("waitdone")' = At("waitdone")
    <3>1. Cardinality(At("waitgo")') = Cardinality(At("waitgo")) + 1
      BY <1>0, <2>1, MoveCounts
    <3>2. At("waitdone")' = At("waitdone")
      BY <1>0, <2>1 DEF At
    <3> QED
      BY <3>1, <3>2
  <2>3. Gathering'
    BY <1>0, <1>1, <1>2, <2>1, <2>2 DEF Gathering, semaVars
  <2>4. MainStays' /\ Families' /\ Slots' /\ Handles'
    BY <1>0, <2>1, MemberMoves DEF placeVars, MainStays
  <2>5. ready' \in 0..Cardinality(Place)
    <3>1. Cardinality(At("waitgo")') \in 0..Cardinality(Place)
      BY PlaceSets DEF At
    <3> QED
      BY <2>3, <3>1 DEF Gathering
  <2>6. TypeOK'
    BY <1>0, <2>1, <2>5 DEF TypeOK, PC, size, placeVars, semaVars
  <2> QED
    BY <1>0, <2>3, <2>4, <2>6 DEF Phases
<1> QED
  BY <1>4, <1>5

\* The last one at "go" is going to post as often as others wait.
LEMMA ReadAliveKeeps ==
  ASSUME IInv, ~aborted, NEW p \in Place, ReadAlive(p)
  PROVE  IInv'
<1> USE DEF IInv
<1>1. /\ pc[p] = "readgo" /\ pc' = [pc EXCEPT ![p] = "postgo"] /\ pc \in [Place -> PC]
      /\ toPost' = [toPost EXCEPT ![p] = alive - 2] /\ toPost \in [Place -> 0..Cardinality(Place)]
      /\ UNCHANGED <<parent, readySema, back, inPipe, placeId, masterVars, semaVars, requests, aborted>>
  BY DEF ReadAlive, Goto, TypeOK
<1>2. Going(p)
  <2>1. ~Gathering /\ ~Marking
    BY <1>1 DEF Gathering, Marking
  <2>2. \A q \in Place : ~Mastering(q) /\ ~Releasing(q)
    BY <1>1 DEF Mastering, Releasing
  <2>3. \A q \in Place : Going(q) => q = p
    BY <1>1 DEF Going
  <2> QED
    BY <2>1, <2>2, <2>3 DEF Phases
<1>3. Cardinality(At("waitgo")) = alive - 2
  BY <1>1, <1>2, LastOne DEF Going, Members
<1>4. At("waitgo")' = At("waitgo") /\ At("waitdone")' = {}
  BY <1>1, <1>2 DEF At, Going
<1>5. alive - 2 \in 0..Cardinality(Place)
  BY <1>3, PlaceSets DEF At
<1>6. Marking'
  <2>1. \A q \in Place : /\ pc'[q] \in {"postgo", "waitgo", "none", "dead"}
                         /\ pc'[q] = "postgo" <=> q = p
    BY <1>1, <1>2 DEF Going
  <2>2. wait_go_sema' + toPost'[p] = Cardinality(At("waitgo")')
    BY <1>1, <1>2, <1>3, <1>4, <1>5 DEF Going, semaVars
  <2>3. ready' = Cardinality(At("waitdone")')
    BY <1>1, <1>2, <1>4, FS_EmptySet DEF Going, masterVars
  <2> QED
    BY <1>1, <1>2, <2>1, <2>2, <2>3 DEF Marking, Going, masterVars, semaVars
<1>7. MainStays' /\ Families' /\ Slots' /\ Handles'
  BY <1>1, MemberMoves DEF masterVars, MainStays
<1>8. TypeOK'
  BY <1>1, <1>5 DEF TypeOK, PC, size, masterVars, semaVars
<1> QED
  BY <1>1, <1>6, <1>7, <1>8 DEF Phases

\* Whoever posts or marks is in the phase of the marking.
LEMMA InMarking ==
  ASSUME Phases, NEW p \in Place, pc[p] \in {"postgo", "major", "done"}
  PROVE  Marking
BY DEF Phases, Gathering, Going, Mastering, Releasing

\* The last one at "go" posts, and goes on when everyone is released.
LEMMA PostGoKeeps ==
  ASSUME IInv, ~aborted, NEW p \in Place, PostGo(p)
  PROVE  IInv'
<1> USE DEF IInv
<1>1. /\ pc[p] = "postgo" /\ pc \in [Place -> PC] /\ toPost \in [Place -> 0..Cardinality(Place)]
      /\ wait_go_sema \in 0..Cardinality(Place)
      /\ UNCHANGED <<parent, readySema, back, inPipe, placeId, masterVars, wait_done_sema,
                     requests, aborted>>
  BY DEF PostGo, TypeOK
<1>2. Marking
  BY <1>1, InMarking
<1>3. Cardinality(At("waitgo")) \in 0..Cardinality(Place) /\ Cardinality(Place) \in Nat
  BY PlaceSets, PlaceCount DEF At
<1>4. CASE toPost[p] = 0
  <2>1. pc' = [pc EXCEPT ![p] = "major"] /\ UNCHANGED <<toPost, wait_go_sema>>
    BY <1>4 DEF PostGo
  <2>2. At("waitgo")' = At("waitgo") /\ At("waitdone")' = At("waitdone")
    BY <1>1, <2>1 DEF At
  <2>3. wait_go_sema = Cardinality(At("waitgo"))
    BY <1>1, <1>2, <1>4 DEF Marking
  <2>4. \A q \in Place : pc'[q] # "postgo"
    BY <1>1, <1>2, <2>1 DEF Marking
  <2>5. Marking'
    BY <1>1, <1>2, <2>1, <2>2, <2>3, <2>4 DEF Marking, masterVars
  <2>6. MainStays' /\ Families' /\ Slots' /\ Handles'
    BY <1>1, <2>1, MemberMoves DEF masterVars, MainStays
  <2>7. TypeOK'
    BY <1>1, <2>1 DEF TypeOK, PC, size, masterVars
  <2> QED
    BY <1>1, <2>5, <2>6, <2>7 DEF Phases
<1>5. CASE toPost[p] # 0
  <2>1. /\ toPost' = [toPost EXCEPT ![p] = @ - 1]
        /\ wait_go_sema' = wait_go_sema + 1 /\ UNCHANGED pc
    BY <1>5 DEF PostGo
  <2>2. At("waitgo")' = At("waitgo") /\ At("waitdone")' = At("waitdone")
    BY <2>1 DEF At
  <2>3. wait_go_sema + toPost[p] = Cardinality(At("waitgo"))
    BY <1>1, <1>2 DEF Marking
  <2>4. wait_go_sema' + toPost'[p] = Cardinality(At("waitgo")')
        /\ wait_go_sema' \in 0..Cardinality(Place) /\ toPost'[p] \in 0..Cardinality(Place)
    BY <1>1, <1>3, <1>5, <2>1, <2>2, <2>3
  <2>5. Marking'
    BY <1>1, <1>2, <2>1, <2>2, <2>4 DEF Marking, masterVars
  <2>6. MainStays' /\ Families' /\ Slots' /\ Handles'
    BY <1>1, <2>1 DEF MainStays, Families, Slots, Handles, Members, Born, size, masterVars
  <2>7. TypeOK'
    BY <1>1, <2>1, <2>4 DEF TypeOK, size, masterVars
  <2> QED
    BY <1>1, <2>5, <2>6, <2>7 DEF Phases
<1> QED
  BY <1>4, <1>5

\* A place that waits at "go" uses up a post.
LEMMA WaitGoKeeps ==
  ASSUME IInv, ~aborted, NEW p \in Place, WaitGo(p)
  PROVE  IInv'
<1> USE DEF IInv
<1>1. /\ pc[p] = "waitgo" /\ pc \in [Place -> PC] /\ pc' = [pc EXCEPT ![p] = "major"]
      /\ wait_go_sema \in 0..Cardinality(Place) /\ wait_go_sema > 0
      /\ toPost \in [Place -> 0..Cardinality(Place)]
      /\ wait_go_sema' = wait_go_sema - 1
      /\ UNCHANGED <<placeVars, masterVars, wait_done_sema, requests, aborted>>
  BY DEF WaitGo, Goto, TypeOK
<1>2. Marking
  BY <1>1 DEF Phases, Gathering, Going, Mastering, Releasing
<1>3. /\ Cardinality(At("waitgo")') = Cardinality(At("waitgo")) - 1
      /\ At("waitdone")' = At("waitdone")
  <2>1. Cardinality(At("waitgo")') = Cardinality(At("waitgo")) - 1
    BY <1>1, MoveCounts
  <2>2. At("waitdone")' = At("waitdone")
    BY <1>1 DEF At
  <2> QED
    BY <2>1, <2>2
<1>4. Cardinality(At("waitgo")) \in 0..Cardinality(Place) /\ Cardinality(Place) \in Nat
  BY PlaceSets, PlaceCount DEF At
<1>5. Marking'
  <2>1. \A q \in Place : pc'[q] = "postgo" <=> pc[q] = "postgo"
    BY <1>1
  <2>2. toPost' = toPost
    BY <1>1 DEF placeVars
  <2>3. \A q \in Place : pc[q] = "postgo" => wait_go_sema' + toPost'[q] = Cardinality(At("waitgo")')
    BY <1>1, <1>2, <1>3, <1>4, <2>2 DEF Marking
  <2>4. (\A q \in Place : pc[q] # "postgo") => wait_go_sema' = Cardinality(At("waitgo")')
    BY <1>1, <1>2, <1>3, <1>4 DEF Marking
  <2> QED
    BY <1>1, <1>2, <1>3, <2>1, <2>2, <2>3, <2>4 DEF Marking, masterVars
<1>6. MainStays' /\ Families' /\ Slots' /\ Handles'
  BY <1>1, MemberMoves DEF placeVars, masterVars, MainStays
<1>7. TypeOK'
  BY <1>1, <1>4 DEF TypeOK, PC, size, placeVars, masterVars
<1> QED
  BY <1>1, <1>5, <1>6, <1>7 DEF Phases

\* A place ends its major collection.
LEMMA MajorCollectKeeps ==
  ASSUME IInv, ~aborted, NEW p \in Place, MajorCollect(p)
  PROVE  IInv'
<1> USE DEF IInv
<1>1. /\ pc[p] = "major" /\ pc \in [Place -> PC] /\ pc' = [pc EXCEPT ![p] = "done"]
      /\ UNCHANGED <<placeVars, masterVars, semaVars, requests, aborted>>
  BY DEF MajorCollect, Goto, TypeOK
<1>2. Marking
  BY <1>1, InMarking
<1>3. At("waitgo")' = At("waitgo") /\ At("waitdone")' = At("waitdone")
  BY <1>1 DEF At
<1>4. Marking'
  BY <1>1, <1>2, <1>3 DEF Marking, placeVars, masterVars, semaVars
<1>5. MainStays' /\ Families' /\ Slots' /\ Handles'
  BY <1>1, MemberMoves DEF placeVars, masterVars, MainStays
<1>6. TypeOK'
  BY <1>1 DEF TypeOK, PC, size, placeVars, masterVars, semaVars
<1> QED
  BY <1>1, <1>4, <1>5, <1>6 DEF Phases

\* wait_while_master_in_progress: p waits, or all other members wait for it.
LEMMA WaitWhileMasterInProgressKeeps ==
  ASSUME IInv, ~aborted, NEW p \in Place, WaitWhileMasterInProgress(p)
  PROVE  IInv'
<1> USE DEF IInv
<1>0. /\ pc[p] = "done" /\ pc \in [Place -> PC]
      /\ UNCHANGED <<placeVars, semaVars, requests, aborted, cangc, signal_fds, alive, major>>
  BY DEF WaitWhileMasterInProgress, SyncMasterProgress, TypeOK
<1>1. Marking
  BY <1>0, InMarking
<1>2. major
  BY <1>1 DEF Marking
<1>3. /\ p \in Members /\ alive \in Int /\ ready = Cardinality(At("waitdone"))
      /\ ready \in Nat /\ ready <= alive - 2
  <2>1. p \in Members
    BY <1>0 DEF Members
  <2>2. Cardinality(At("waitdone")) <= alive - 2
    BY <1>0, <2>1, LastOne
  <2> QED
    BY <1>1, <2>1, <2>2 DEF Marking, TypeOK
<1>4. CASE alive - 1 = ready + 1
  <2>1. ready' = 0 /\ pc' = [pc EXCEPT ![p] = "mastergc"]
    BY <1>2, <1>4 DEF WaitWhileMasterInProgress, SyncMasterProgress
  <2>2. \A q \in Members : q = p \/ pc[q] = "waitdone"
    BY <1>0, <1>3, <1>4, LastOne
  <2>3. \A q \in Place \ {p} : pc[q] \in {"waitdone", "none", "dead"}
    BY <1>1, <2>2 DEF Members, Marking
  <2>4. wait_go_sema = 0
    <3>1. At("waitgo") = {} /\ \A q \in Place : pc[q] # "postgo"
      BY <1>0, <2>3 DEF At
    <3> QED
      BY <1>1, <3>1, FS_EmptySet DEF Marking
  <2>5. Mastering(p)'
    BY <1>0, <1>1, <1>2, <2>1, <2>3, <2>4 DEF Mastering, Marking, semaVars
  <2>6. MainStays' /\ Families' /\ Slots' /\ Handles'
    BY <1>0, <2>1, MemberMoves DEF placeVars, MainStays
  <2>7. TypeOK'
    BY <1>0, <2>1, PlaceCount DEF TypeOK, PC, size, placeVars, semaVars
  <2> QED
    BY <1>0, <2>5, <2>6, <2>7 DEF Phases
<1>5. CASE alive - 1 # ready + 1
  <2>1. ready' = ready + 1 /\ pc' = [pc EXCEPT ![p] = "waitdone"]
    BY <1>2, <1>5 DEF WaitWhileMasterInProgress, SyncMasterProgress
  <2>2. /\ Cardinality(At("waitdone")') = Cardinality(At("waitdone")) + 1
        /\ At("waitgo")' = At("waitgo")
    <3>1. Cardinality(At("waitdone")') = Cardinality(At("waitdone")) + 1
      BY <1>0, <2>1, MoveCounts
    <3>2. At("waitgo")' = At("waitgo")
      BY <1>0, <2>1 DEF At
    <3> QED
      BY <3>1, <3>2
  <2>3. Marking'
    BY <1>0, <1>1, <1>2, <2>1, <2>2 DEF Marking, placeVars, semaVars
  <2>4. MainStays' /\ Families' /\ Slots' /\ Handles'
    BY <1>0, <2>1, MemberMoves DEF placeVars, MainStays
  <2>5. ready' \in 0..Cardinality(Place)
    <3>1. Cardinality(At("waitdone")') \in 0..Cardinality(Place)
      BY PlaceSets DEF At
    <3> QED
      BY <2>3, <3>1 DEF Marking
  <2>6. TypeOK'
    BY <1>0, <2>1, <2>5 DEF TypeOK, PC, size, placeVars, semaVars
  <2> QED
    BY <1>0, <2>3, <2>4, <2>6 DEF Phases
<1> QED
  BY <1>4, <1>5

\* collect_master: p is going to post as often as others wait, and no request
\* is left.
LEMMA CollectMasterKeeps ==
  ASSUME IInv, ~aborted, NEW p \in Place, CollectMaster(p)
  PROVE  IInv'
<1> USE DEF IInv
<1>1. /\ pc[p] = "mastergc" /\ pc' = [pc EXCEPT ![p] = "postdone"] /\ pc \in [Place -> PC]
      /\ toPost' = [toPost EXCEPT ![p] = alive - 2] /\ toPost \in [Place -> 0..Cardinality(Place)]
      /\ cangc' = p /\ major' = FALSE
      /\ UNCHANGED <<parent, readySema, back, inPipe, placeId, signal_fds, alive, ready, semaVars,
                     requests, aborted>>
  BY DEF CollectMaster, Goto, TypeOK
<1>2. Mastering(p)
  <2>1. ~Gathering /\ ~Marking
    BY <1>1 DEF Gathering, Marking
  <2>2. \A q \in Place : ~Going(q) /\ ~Releasing(q)
    BY <1>1 DEF Going, Releasing
  <2>3. \A q \in Place : Mastering(q) => q = p
    BY <1>1 DEF Mastering
  <2> QED
    BY <2>1, <2>2, <2>3 DEF Phases
<1>3. Cardinality(At("waitdone")) = alive - 2
  BY <1>1, <1>2, LastOne DEF Mastering, Members
<1>4. At("waitdone")' = At("waitdone")
  BY <1>1 DEF At
<1>5. alive - 2 \in 0..Cardinality(Place)
  BY <1>3, PlaceSets DEF At
<1>6. Releasing(p)'
  BY <1>1, <1>2, <1>3, <1>4, <1>5 DEF Releasing, Mastering, semaVars
<1>7. Members' = Members
  BY <1>1 DEF Members
<1>8. MainStays' /\ Families' /\ Slots'
  BY <1>1, <1>7 DEF MainStays, Families, Born, Slots, size
<1>9. Handles'
  <2>1. \A q \in Members : pc[q] # "created" /\ pc'[q] # "created"
    BY <1>1, <1>2 DEF Mastering, Members
  <2>2. \A q \in Members : signal_fds[placeId[q]] = q
    BY <2>1 DEF Handles
  <2>3. \A i \in 1..(size - 1) : signal_fds[i] # SIGNALED_BUT_NOT_REGISTERED
    <3>1. \A q \in Place : q # SIGNALED_BUT_NOT_REGISTERED
      BY PlacesGCAssumption DEF Mark
    <3>2. SIGNALED_BUT_NOT_REGISTERED # REAPED_SLOT_AVAILABLE
      BY DEF SIGNALED_BUT_NOT_REGISTERED, REAPED_SLOT_AVAILABLE
    <3> QED
      BY <2>2, <3>1, <3>2 DEF Slots, Members
  <2> QED
    BY <1>1, <1>7, <2>1, <2>2, <2>3 DEF Handles, size
<1>10. TypeOK'
  BY <1>1, <1>5 DEF TypeOK, PC, size, semaVars
<1> QED
  BY <1>1, <1>6, <1>8, <1>9, <1>10 DEF Phases

\* The place that collected for all posts, and unlocks when everyone is released.
LEMMA PostDoneKeeps ==
  ASSUME IInv, ~aborted, NEW p \in Place, PostDone(p)
  PROVE  IInv'
<1> USE DEF IInv
<1>1. /\ pc[p] = "postdone" /\ pc \in [Place -> PC] /\ toPost \in [Place -> 0..Cardinality(Place)]
      /\ wait_done_sema \in 0..Cardinality(Place)
      /\ UNCHANGED <<parent, readySema, back, inPipe, placeId, signal_fds, alive, ready, major,
                     wait_go_sema, requests, aborted>>
  BY DEF PostDone, TypeOK
<1>2. Releasing(p)
  <2>1. ~Gathering /\ ~Marking
    BY <1>1 DEF Gathering, Marking
  <2>2. \A q \in Place : ~Going(q) /\ ~Mastering(q)
    BY <1>1 DEF Going, Mastering
  <2>3. \A q \in Place : Releasing(q) => q = p
    BY <1>1 DEF Releasing
  <2> QED
    BY <2>1, <2>2, <2>3 DEF Phases
<1>3. Cardinality(At("waitdone")) \in 0..Cardinality(Place) /\ Cardinality(Place) \in Nat
  BY PlaceSets, PlaceCount DEF At
<1>4. CASE toPost[p] = 0
  <2>1. /\ pc' = [pc EXCEPT ![p] = "again"] /\ cangc' = NoPlace
        /\ UNCHANGED <<toPost, wait_done_sema>>
    BY <1>4 DEF PostDone
  <2>2. At("waitgo")' = {} /\ At("waitdone")' = At("waitdone")
    BY <1>1, <1>2, <2>1 DEF At, Releasing
  <2>3. wait_done_sema = Cardinality(At("waitdone"))
    BY <1>1, <1>2, <1>4 DEF Releasing
  <2>4. Gathering'
    BY <1>1, <1>2, <2>1, <2>2, <2>3, FS_EmptySet DEF Gathering, Releasing
  <2>5. MainStays' /\ Families' /\ Slots' /\ Handles'
    BY <1>1, <2>1, MemberMoves DEF MainStays
  <2>6. TypeOK'
    BY <1>1, <2>1 DEF TypeOK, PC, size
  <2> QED
    BY <1>1, <2>4, <2>5, <2>6 DEF Phases
<1>5. CASE toPost[p] # 0
  <2>1. /\ toPost' = [toPost EXCEPT ![p] = @ - 1]
        /\ wait_done_sema' = wait_done_sema + 1 /\ UNCHANGED <<pc, cangc>>
    BY <1>5 DEF PostDone
  <2>2. At("waitdone")' = At("waitdone")
    BY <2>1 DEF At
  <2>3. wait_done_sema + toPost[p] = Cardinality(At("waitdone"))
    BY <1>2 DEF Releasing
  <2>4. wait_done_sema' + toPost'[p] = Cardinality(At("waitdone")')
        /\ wait_done_sema' \in 0..Cardinality(Place) /\ toPost'[p] \in 0..Cardinality(Place)
    BY <1>1, <1>3, <1>5, <2>1, <2>2, <2>3
  <2>5. Releasing(p)'
    BY <1>1, <1>2, <2>1, <2>4 DEF Releasing
  <2>6. MainStays' /\ Families' /\ Slots' /\ Handles'
    BY <1>1, <2>1 DEF MainStays, Families, Slots, Handles, Members, Born, size
  <2>7. TypeOK'
    BY <1>1, <2>1, <2>4 DEF TypeOK, size
  <2> QED
    BY <1>1, <2>5, <2>6, <2>7 DEF Phases
<1> QED
  BY <1>4, <1>5

\* A place that waits at "done" uses up a post, now or during the next request.
LEMMA WaitDoneKeeps ==
  ASSUME IInv, ~aborted, NEW p \in Place, WaitDone(p)
  PROVE  IInv'
<1> USE DEF IInv
<1>1. /\ pc[p] = "waitdone" /\ pc \in [Place -> PC] /\ pc' = [pc EXCEPT ![p] = "again"]
      /\ wait_done_sema \in 0..Cardinality(Place) /\ wait_done_sema > 0
      /\ toPost \in [Place -> 0..Cardinality(Place)]
      /\ wait_done_sema' = wait_done_sema - 1
      /\ UNCHANGED <<placeVars, masterVars, wait_go_sema, requests, aborted>>
  BY DEF WaitDone, Goto, TypeOK
<1>2. /\ Cardinality(At("waitdone")') = Cardinality(At("waitdone")) - 1
      /\ At("waitgo")' = At("waitgo")
  <2>1. Cardinality(At("waitdone")') = Cardinality(At("waitdone")) - 1
    BY <1>1, MoveCounts
  <2>2. At("waitgo")' = At("waitgo")
    BY <1>1 DEF At
  <2> QED
    BY <2>1, <2>2
<1>3. Cardinality(At("waitdone")) \in 0..Cardinality(Place) /\ Cardinality(Place) \in Nat
  BY PlaceSets, PlaceCount DEF At
<1>4. Phases'
  <2>1. CASE Gathering
    <3>1. Gathering'
      BY <1>1, <1>2, <1>3, <2>1 DEF Gathering, masterVars
    <3> QED
      BY <3>1 DEF Phases
  <2>2. ASSUME NEW q \in Place, Releasing(q) PROVE Phases'
    <3>1. p # q
      BY <1>1, <2>2 DEF Releasing
    <3>2. Releasing(q)'
      BY <1>1, <1>2, <1>3, <2>2, <3>1 DEF Releasing, masterVars, placeVars
    <3> QED
      BY <3>2 DEF Phases
  <2> QED
    BY <1>1, <2>1, <2>2 DEF Phases, Going, Marking, Mastering
<1>5. MainStays' /\ Families' /\ Slots' /\ Handles'
  BY <1>1, MemberMoves DEF placeVars, masterVars, MainStays
<1>6. TypeOK'
  BY <1>1, <1>3 DEF TypeOK, PC, size, placeVars, masterVars
<1> QED
  BY <1>1, <1>4, <1>5, <1>6

----------------------------------------------------------------------------
(* The table of handles, and how places come and go.                       *)

Used == {i \in 1..(size - 1) : signal_fds[i] # REAPED_SLOT_AVAILABLE}

\* The slots of the members are the slots in use, one for each.
LEMMA SlotsUsed ==
  ASSUME MainStays, Slots, Handles
  PROVE  /\ \A p \in Members : placeId[p] \in Used
         /\ \A i \in Used : \E p \in Members : placeId[p] = i
         /\ IsFiniteSet(Used) /\ Cardinality(Used) = alive - 1
<1>1. \A p \in Members : placeId[p] \in Used
  <2> SUFFICES ASSUME NEW p \in Members PROVE signal_fds[placeId[p]] # REAPED_SLOT_AVAILABLE
    BY DEF Used, Slots
  <2>1. p \in Place /\ p # REAPED_SLOT_AVAILABLE
    BY PlacesGCAssumption DEF Members, Mark
  <2> QED
    BY <2>1 DEF Handles, REAPED_SLOT_AVAILABLE, CREATED_BUT_NOT_REGISTERED,
                SIGNALED_BUT_NOT_REGISTERED
<1>2. \A i \in Used : \E p \in Members : placeId[p] = i
  BY DEF Used, Slots
<1> DEFINE f == [p \in Members |-> placeId[p]]
<1>3. f \in Bijection(Members, Used)
  <2>1. f \in Injection(Members, Used)
    BY <1>1 DEF Injection, IsInjective, Slots
  <2>2. f \in Surjection(Members, Used)
    BY <1>1, <1>2 DEF Surjection
  <2> QED
    BY <2>1, <2>2 DEF Bijection
<1>4. ExistsBijection(Members, Used)
  BY <1>3 DEF ExistsBijection
<1> QED
  BY <1>1, <1>2, <1>4, FS_Bijection, AliveRange

\* master_collect_request counts exactly the slots in use: its check succeeds.
LEMMA CountedIsUsed ==
  ASSUME MainStays, Slots, Handles
  PROVE  Counted = Used /\ Cardinality(Counted) = alive - 1
<1>0. IsFiniteSet(Used) /\ Cardinality(Used) = alive - 1
  BY SlotsUsed
<1>1. ASSUME NEW i \in Used PROVE Cardinality({j \in Used : j < i}) < alive - 1
  <2>1. {j \in Used : j < i} \subseteq Used \ {i}
    BY DEF Used
  <2>2. IsFiniteSet(Used \ {i}) /\ Cardinality(Used \ {i}) = alive - 2
    BY <1>0, FS_RemoveElement, AliveRange
  <2>3. Cardinality({j \in Used : j < i}) <= alive - 2 /\ Cardinality({j \in Used : j < i}) \in Nat
    BY <2>1, <2>2, FS_Subset, FS_CardinalityType
  <2> QED
    BY <2>3, AliveRange
<1>2. Counted = {i \in Used : Cardinality({j \in Used : j < i}) < alive - 1}
  BY DEF Counted, Used
<1> QED
  BY <1>0, <1>1, <1>2

\* master_collect_request.
LEMMA RequestKeeps ==
  ASSUME IInv, ~aborted, NEW p \in Place, Request(p)
  PROVE  IInv'
<1> USE DEF IInv
<1>1. /\ pc[p] \in {"created", "handle", "posted", "run"}
      /\ requests \in 0..MaxRequests /\ requests < MaxRequests /\ requests' = requests + 1
      /\ UNCHANGED <<pc, parent, readySema, back, toPost, placeId, cangc, alive, semaVars>>
  BY DEF Request, TypeOK
<1>2. Gathering
  BY <1>1, OutsideGathering
<1>3. MasterCollectRequest
  BY DEF Request
<1>4. requests' \in 0..MaxRequests
  BY <1>1, PlacesGCAssumption
<1>5. Members' = Members /\ At("waitgo")' = At("waitgo") /\ At("waitdone")' = At("waitdone")
  BY <1>1 DEF Members, At
<1>6. MainStays' /\ Families'
  BY <1>1, <1>5 DEF MainStays, Families, Born
<1>7. CASE major
  <2>1. UNCHANGED <<major, ready, inPipe, signal_fds, aborted>>
    BY <1>3, <1>7 DEF MasterCollectRequest
  <2>2. Gathering'
    BY <1>1, <1>2, <1>5, <2>1 DEF Gathering, semaVars
  <2>3. Slots' /\ Handles'
    BY <1>1, <1>5, <2>1 DEF Slots, Handles, size
  <2>4. TypeOK'
    BY <1>1, <1>4, <2>1 DEF TypeOK, size, semaVars
  <2> QED
    BY <1>6, <2>1, <2>2, <2>3, <2>4 DEF Phases
<1>8. CASE ~major
  <2>1. /\ major' = TRUE /\ ready' = 0
        /\ inPipe' = inPipe \cup ({signal_fds[i] : i \in Counted} \cap Place)
        /\ signal_fds' = [i \in DOMAIN signal_fds |->
                           IF i \in Counted /\ signal_fds[i] = CREATED_BUT_NOT_REGISTERED
                           THEN SIGNALED_BUT_NOT_REGISTERED ELSE signal_fds[i]]
        /\ aborted' = \/ Cardinality(Counted) # alive - 1
                      \/ \E i \in Counted : signal_fds[i] = SIGNALED_BUT_NOT_REGISTERED
    BY <1>3, <1>8 DEF MasterCollectRequest
  <2>2. Counted = Used /\ Cardinality(Counted) = alive - 1
    BY CountedIsUsed
  <2>3. aborted' = FALSE
    BY <1>8, <2>1, <2>2 DEF Handles, Used
  <2>4. /\ DOMAIN signal_fds' = DOMAIN signal_fds /\ size' = size
        /\ DOMAIN signal_fds = 0..(size - 1)
    BY <2>1 DEF size, TypeOK
  <2>5. \A i \in 0..(size - 1) :
          signal_fds'[i] = IF i \in Used /\ signal_fds[i] = CREATED_BUT_NOT_REGISTERED
                           THEN SIGNALED_BUT_NOT_REGISTERED ELSE signal_fds[i]
    BY <2>1, <2>2, <2>4
  <2>6. At("waitgo") = {}
    BY <1>2, <1>8 DEF Gathering, At
  <2>7. Gathering'
    BY <1>1, <1>2, <1>5, <2>1, <2>6, FS_EmptySet DEF Gathering, semaVars
  <2>8. size \in Nat /\ 0 \notin Used /\ Used \subseteq 0..(size - 1)
    BY AliveRange DEF Slots, Used, TypeOK
  <2>9. Slots'
    <3>1. signal_fds'[0] = CREATED_BUT_NOT_REGISTERED
      BY <2>5, <2>8, AliveRange DEF Slots
    <3>2. \A i \in 1..(size - 1) :
            signal_fds'[i] # REAPED_SLOT_AVAILABLE => signal_fds[i] # REAPED_SLOT_AVAILABLE
      BY <2>5 DEF Used
    <3> QED
      BY <1>1, <1>5, <2>4, <3>1, <3>2 DEF Slots
  <2>10. Handles'
    <3>1. \A q \in Members : placeId[q] \in Used
      BY SlotsUsed
    <3>2. ASSUME NEW q \in Members, pc[q] = "created"
          PROVE  signal_fds'[placeId[q]] = SIGNALED_BUT_NOT_REGISTERED
      BY <2>5, <2>8, <3>1, <3>2 DEF Handles
    <3>3. ASSUME NEW q \in Members, pc[q] # "created"
          PROVE  signal_fds'[placeId[q]] = q
      <4>1. signal_fds[placeId[q]] = q /\ q # CREATED_BUT_NOT_REGISTERED
        BY <3>3, PlacesGCAssumption DEF Handles, Members, Mark
      <4> QED
        BY <2>5, <2>8, <3>1, <4>1
    <3> QED
      BY <1>1, <1>5, <2>1, <2>4, <3>2, <3>3 DEF Handles
  <2>11. TypeOK'
    <3>1. \A i \in DOMAIN signal_fds' : signal_fds'[i] \in Place \cup Mark
      BY <2>4, <2>5 DEF TypeOK, Mark
    <3>2. inPipe' \subseteq Place
      BY <2>1 DEF TypeOK
    <3> QED
      BY <1>1, <1>4, <2>1, <2>3, <2>4, <3>1, <3>2, PlaceCount DEF TypeOK, semaVars
  <2> QED
    BY <1>6, <2>3, <2>7, <2>9, <2>10, <2>11 DEF Phases
<1> QED
  BY <1>7, <1>8

\* A place starts another one and waits for it.
LEMMA CreatePlaceKeeps ==
  ASSUME IInv, ~aborted, NEW p \in Place, NEW q \in Place, CreatePlace(p, q)
  PROVE  IInv'
<1> USE DEF IInv
<1>1. /\ pc[p] = "run" /\ pc[q] = "none" /\ pc \in [Place -> PC]
      /\ parent \in [Place -> Place \cup {NoPlace}]
      /\ pc' = [pc EXCEPT ![p] = "waitready", ![q] = "spawned"]
      /\ parent' = [parent EXCEPT ![q] = p]
      /\ UNCHANGED <<readySema, back, toPost, inPipe, placeId, masterVars, semaVars, requests,
                     aborted>>
  BY DEF CreatePlace, TypeOK
<1>2. p # q /\ pc'[p] = "waitready" /\ pc'[q] = "spawned"
      /\ \A r \in Place : r # p /\ r # q => pc'[r] = pc[r]
  BY <1>1
<1>3. Gathering'
  <2>1. Gathering
    BY <1>1, OutsideGathering
  <2> QED
    BY <1>1, <1>2, <2>1, GatheringKeeps DEF masterVars, semaVars
<1>4. Members' = Members
  BY <1>1, <1>2 DEF Members
<1>5. MainStays' /\ Slots'
  BY <1>1, <1>2, <1>4, PlacesGCAssumption DEF MainStays, Slots, size, masterVars
<1>6. Handles'
  BY <1>1, <1>2, <1>4 DEF Handles, size, masterVars, Members
<1>7. Families'
  <2>1. ~readySema[p]
    BY <1>1 DEF Families
  <2>2. \A r \in Place : Born(r) => parent[r] # p /\ r # q
    BY <1>1 DEF Families, Born
  <2>3. \A r \in Place : Born(r)' <=> r = q \/ Born(r)
    BY <1>1, <1>2 DEF Born
  <2>4. \A r \in Place : Born(r) => parent'[r] = parent[r]
    BY <1>1, <2>2
  <2>5. parent'[q] = p
    BY <1>1
  <2>6. \A r \in Place : pc[r] = "waitready" => pc'[r] = "waitready"
    BY <1>1, <1>2
  <2> QED
    BY <1>1, <1>2, <2>1, <2>2, <2>3, <2>4, <2>5, <2>6 DEF Families
<1>8. TypeOK'
  BY <1>1 DEF TypeOK, PC, size, masterVars, semaVars
<1> QED
  BY <1>1, <1>3, <1>5, <1>6, <1>7, <1>8 DEF Phases

\* The parent goes on.
LEMMA WaitReadyKeeps ==
  ASSUME IInv, ~aborted, NEW p \in Place, WaitReady(p)
  PROVE  IInv'
<1> USE DEF IInv
<1>1. /\ pc[p] = "waitready" /\ readySema[p] /\ pc \in [Place -> PC]
      /\ pc' = [pc EXCEPT ![p] = "run"]
      /\ readySema' = [readySema EXCEPT ![p] = FALSE] /\ readySema \in [Place -> BOOLEAN]
      /\ UNCHANGED <<parent, back, toPost, inPipe, placeId, masterVars, semaVars, requests, aborted>>
  BY DEF WaitReady, Goto, TypeOK
<1>2. Gathering'
  <2>1. Gathering
    BY <1>1, OutsideGathering
  <2> QED
    BY <1>1, <2>1, GatheringKeeps DEF masterVars, semaVars
<1>3. Members' = Members
  BY <1>1 DEF Members
<1>4. MainStays' /\ Slots'
  BY <1>1, <1>3, PlacesGCAssumption DEF MainStays, Slots, size, masterVars
<1>5. Handles'
  BY <1>1, <1>3 DEF Handles, size, masterVars, Members
<1>6. Families'
  <2>1. \A r \in Place : Born(r)' <=> Born(r)
    BY <1>1 DEF Born
  <2>2. \A r \in Place : Born(r) => parent[r] # p
    BY <1>1 DEF Families
  <2> QED
    BY <1>1, <2>1, <2>2 DEF Families
<1>7. TypeOK'
  BY <1>1 DEF TypeOK, PC, size, masterVars, semaVars
<1> QED
  BY <1>1, <1>2, <1>4, <1>5, <1>6, <1>7 DEF Phases

\* The table that a new place looks at has a free slot, which is not the master's.
LEMMA TableFacts ==
  ASSUME TypeOK, MainStays, Slots, Handles
  PROVE  \E n \in Nat :
           /\ n >= size /\ alive + 1 < n
           /\ DOMAIN Table = 0..(n - 1) /\ Cardinality(0..(n - 1)) = n
           /\ \A i \in 0..(n - 1) :
                Table[i] = IF i < size THEN signal_fds[i] ELSE REAPED_SLOT_AVAILABLE
<1>1. size \in Nat /\ alive \in Nat /\ alive < size /\ DOMAIN signal_fds = 0..(size - 1)
  BY AliveRange DEF Slots, TypeOK
<1>2. CASE alive + 1 = size
  <2>1. Table = [i \in 0..(2 * size - 1) |->
                   IF i < size THEN signal_fds[i] ELSE REAPED_SLOT_AVAILABLE]
    BY <1>2 DEF Table
  <2>2. Cardinality(0..(2 * size - 1)) = 2 * size
    BY <1>1, FS_Interval
  <2> QED
    BY <1>1, <1>2, <2>1, <2>2
<1>3. CASE alive + 1 # size
  <2>1. Table = signal_fds
    BY <1>3 DEF Table
  <2>2. Cardinality(0..(size - 1)) = size
    BY <1>1 DEF size
  <2> QED
    BY <1>1, <1>3, <2>1, <2>2
<1> QED
  BY <1>2, <1>3

\* NewGCMasterInfo_find_free_id finds a slot, and the new place is a member.
LEMMA ConstructChildGCKeeps ==
  ASSUME IInv, ~aborted, NEW q \in Place, ConstructChildGC(q)
  PROVE  IInv'
<1> USE DEF IInv
<1> DEFINE free == {i \in DOMAIN Table : Table[i] = REAPED_SLOT_AVAILABLE}
<1>1. /\ pc[q] = "spawned" /\ pc \in [Place -> PC] /\ pc' = [pc EXCEPT ![q] = "created"]
      /\ placeId \in [Place -> -1..(size - 1)]
      /\ UNCHANGED <<parent, readySema, back, toPost, inPipe, cangc, ready, major, semaVars, requests>>
  BY DEF ConstructChildGC, Goto, TypeOK
<1>2. PICK n \in Nat :
           /\ n >= size /\ alive + 1 < n
           /\ DOMAIN Table = 0..(n - 1) /\ Cardinality(0..(n - 1)) = n
           /\ \A i \in 0..(n - 1) :
                Table[i] = IF i < size THEN signal_fds[i] ELSE REAPED_SLOT_AVAILABLE
  BY TableFacts
<1>3. /\ size \in Nat /\ alive \in Nat /\ alive >= 2 /\ alive < size
      /\ signal_fds[0] = CREATED_BUT_NOT_REGISTERED
      /\ CREATED_BUT_NOT_REGISTERED # REAPED_SLOT_AVAILABLE
      /\ CREATED_BUT_NOT_REGISTERED # SIGNALED_BUT_NOT_REGISTERED
      /\ SIGNALED_BUT_NOT_REGISTERED # REAPED_SLOT_AVAILABLE
  BY AliveRange DEF TypeOK, Slots, CREATED_BUT_NOT_REGISTERED, REAPED_SLOT_AVAILABLE,
                    SIGNALED_BUT_NOT_REGISTERED
<1>4. free # {}
  <2> SUFFICES ASSUME free = {} PROVE FALSE
    OBVIOUS
  <2>1. \A i \in 1..(n - 1) : i \in Used
    BY <1>2, <1>3 DEF Used
  <2>2. Used \subseteq 1..(n - 1)
    BY <1>2, <1>3 DEF Used
  <2>3. Used = 1..(n - 1)
    BY <2>1, <2>2
  <2>4. Cardinality(1..(n - 1)) = n - 1
    BY <1>2, <1>3, FS_Interval
  <2> QED
    BY <1>2, <1>3, <2>3, <2>4, SlotsUsed
<1>5. PICK k \in free : k = Min(free)
  <2>1. free \subseteq Nat
    BY <1>2
  <2> HIDE DEF free
  <2>2. Min(free) \in free
    BY <1>4, <2>1, LeastSlot
  <2> QED
    BY <2>2
<1>6. k \in 1..(n - 1) /\ (k < size => signal_fds[k] = REAPED_SLOT_AVAILABLE)
  BY <1>2, <1>3, <1>5
<1>7. /\ placeId' = [placeId EXCEPT ![q] = k]
      /\ signal_fds' = [Table EXCEPT ![k] = CREATED_BUT_NOT_REGISTERED]
      /\ alive' = alive + 1 /\ UNCHANGED aborted
  BY <1>4, <1>5 DEF ConstructChildGC
<1> HIDE DEF free
<1>8. /\ DOMAIN signal_fds' = 0..(n - 1) /\ size' = n
      /\ signal_fds'[k] = CREATED_BUT_NOT_REGISTERED
      /\ \A i \in 0..(n - 1) : i # k =>
           signal_fds'[i] = IF i < size THEN signal_fds[i] ELSE REAPED_SLOT_AVAILABLE
  BY <1>2, <1>6, <1>7 DEF size
<1>9. /\ Members' = Members \cup {q} /\ q \notin Members
      /\ placeId'[q] = k /\ pc'[q] = "created"
      /\ \A p \in Members : placeId'[p] = placeId[p] /\ pc'[p] = pc[p]
  BY <1>1, <1>7 DEF Members
<1>10. \A p \in Members : placeId[p] \in 1..(size - 1) /\ placeId[p] # k
  <2>1. \A p \in Members : placeId[p] \in Used
    BY SlotsUsed
  <2> QED
    BY <1>3, <1>6, <2>1 DEF Used
<1>11. Gathering'
  <2>1. Gathering
    BY <1>1, OutsideGathering
  <2> QED
    BY <1>1, <2>1, GatheringKeeps DEF semaVars
<1>12. MainStays' /\ Families'
  <2>1. \A r \in Place : Born(r)' <=> Born(r)
    BY <1>1 DEF Born
  <2>2. \A r \in Place : pc[r] = "waitready" <=> pc'[r] = "waitready"
    BY <1>1
  <2>3. Families'
    BY <1>1, <2>1, <2>2 DEF Families
  <2>4. Main \in Members /\ pc[Main] # "destruct"
    BY DEF MainStays
  <2> QED
    BY <1>1, <1>9, <2>3, <2>4 DEF MainStays
<1>13. Slots'
  <2>1. alive' = Cardinality(Members') + 1
    <3>1. IsFiniteSet(Members) /\ Cardinality(Members) = alive - 1
      BY AliveRange
    <3>2. Cardinality(Members \cup {q}) = Cardinality(Members) + 1
      BY <1>9, <3>1, FS_AddElement
    <3> QED
      BY <1>3, <1>7, <1>9, <3>1, <3>2
  <2>2. \A p \in Members' : placeId'[p] \in 1..(n - 1)
    BY <1>2, <1>3, <1>6, <1>9, <1>10
  <2>3. \A p, r \in Members' : placeId'[p] = placeId'[r] => p = r
    BY <1>9, <1>10 DEF Slots
  <2>4. \A i \in 1..(n - 1) :
          signal_fds'[i] # REAPED_SLOT_AVAILABLE => \E p \in Members' : placeId'[p] = i
    <3> SUFFICES ASSUME NEW i \in 1..(n - 1), signal_fds'[i] # REAPED_SLOT_AVAILABLE
                 PROVE  \E p \in Members' : placeId'[p] = i
      OBVIOUS
    <3>1. CASE i = k
      BY <1>9, <3>1
    <3>2. CASE i # k
      <4>1. i \in 1..(size - 1) /\ signal_fds[i] # REAPED_SLOT_AVAILABLE
        BY <1>3, <1>8, <3>2
      <4> QED
        BY <1>9, <4>1 DEF Slots
    <3> QED
      BY <3>1, <3>2
  <2>5. signal_fds'[0] = CREATED_BUT_NOT_REGISTERED
    BY <1>2, <1>3, <1>6, <1>8
  <2> QED
    BY <1>2, <1>7, <1>8, <2>1, <2>2, <2>3, <2>4, <2>5 DEF Slots
<1>14. Handles'
  <2>1. \A p \in Members : signal_fds'[placeId[p]] = signal_fds[placeId[p]]
    BY <1>2, <1>3, <1>8, <1>10
  <2>2. \A i \in 1..(n - 1) : signal_fds'[i] = SIGNALED_BUT_NOT_REGISTERED => major
    <3> SUFFICES ASSUME NEW i \in 1..(n - 1), signal_fds'[i] = SIGNALED_BUT_NOT_REGISTERED
                 PROVE  major
      OBVIOUS
    <3>1. i # k /\ i \in 1..(size - 1) /\ signal_fds[i] = SIGNALED_BUT_NOT_REGISTERED
      BY <1>3, <1>8
    <3> QED
      BY <3>1 DEF Handles
  <2> QED
    BY <1>1, <1>8, <1>9, <2>1, <2>2 DEF Handles
<1>15. TypeOK'
  <2>1. placeId' \in [Place -> -1..(n - 1)]
    BY <1>1, <1>2, <1>3, <1>6, <1>7
  <2>2. \A i \in DOMAIN signal_fds' : signal_fds'[i] \in Place \cup Mark
    BY <1>2, <1>3, <1>8 DEF TypeOK, Mark
  <2>3. alive' \in 2..(Cardinality(Place) + 1)
    <3>1. Cardinality(Members') \in 0..Cardinality(Place)
      BY PlaceSets DEF Members
    <3> QED
      BY <1>3, <1>7, <1>13, <3>1, PlaceCount DEF Slots
  <2>4. pc' \in [Place -> PC]
    BY <1>1 DEF PC
  <2> QED
    BY <1>1, <1>7, <1>8, <2>1, <2>2, <2>3, <2>4 DEF TypeOK, semaVars
<1> QED
  BY <1>7, <1>11, <1>12, <1>13, <1>14, <1>15 DEF Phases

\* A place registers its handle.
LEMMA SetPutExternalEventFdKeeps ==
  ASSUME IInv, ~aborted, NEW q \in Place, SetPutExternalEventFd(q)
  PROVE  IInv'
<1> USE DEF IInv
<1>1. /\ pc[q] = "created" /\ pc \in [Place -> PC] /\ pc' = [pc EXCEPT ![q] = "handle"]
      /\ inPipe' \in {inPipe, inPipe \cup {q}}
      /\ signal_fds' = [signal_fds EXCEPT ![placeId[q]] = q]
      /\ UNCHANGED <<parent, readySema, back, toPost, placeId, cangc, alive, ready, major, semaVars,
                     requests, aborted>>
  BY DEF SetPutExternalEventFd, Goto, TypeOK
<1>2. Gathering'
  <2>1. Gathering
    BY <1>1, OutsideGathering
  <2> QED
    BY <1>1, <2>1, GatheringKeeps DEF semaVars
<1>3. Members' = Members /\ q \in Members
  BY <1>1 DEF Members
<1>4. /\ DOMAIN signal_fds' = DOMAIN signal_fds /\ size' = size /\ size \in Nat
      /\ DOMAIN signal_fds = 0..(size - 1)
      /\ placeId[q] \in 1..(size - 1) /\ signal_fds'[placeId[q]] = q
      /\ \A i \in 0..(size - 1) : i # placeId[q] => signal_fds'[i] = signal_fds[i]
  BY <1>1, <1>3 DEF size, TypeOK, Slots
<1>5. MainStays' /\ Families'
  <2>1. \A r \in Place : Born(r)' <=> Born(r)
    BY <1>1 DEF Born
  <2>2. \A r \in Place : pc[r] = "waitready" <=> pc'[r] = "waitready"
    BY <1>1
  <2>3. Families'
    BY <1>1, <2>1, <2>2 DEF Families
  <2>4. pc'[Main] # "destruct"
    BY <1>1, PlacesGCAssumption DEF MainStays
  <2> QED
    BY <1>1, <1>3, <2>3, <2>4 DEF MainStays
<1>6. Slots'
  <2>1. signal_fds'[0] = CREATED_BUT_NOT_REGISTERED
    BY <1>4, AliveRange DEF Slots
  <2>2. \A i \in 1..(size - 1) :
          signal_fds'[i] # REAPED_SLOT_AVAILABLE => \E p \in Members : placeId[p] = i
    BY <1>3, <1>4 DEF Slots
  <2> QED
    BY <1>1, <1>3, <1>4, <2>1, <2>2 DEF Slots
<1>7. Handles'
  <2>1. \A p \in Members : p # q => placeId[p] # placeId[q] /\ placeId[p] \in 1..(size - 1)
    BY <1>3 DEF Slots
  <2>2. \A p \in Members : p # q => signal_fds'[placeId[p]] = signal_fds[placeId[p]] /\ pc'[p] = pc[p]
    BY <1>1, <1>4, <2>1 DEF Members
  <2>3. \A i \in 1..(size - 1) : signal_fds'[i] = SIGNALED_BUT_NOT_REGISTERED => major
    <3>1. q # SIGNALED_BUT_NOT_REGISTERED
      BY PlacesGCAssumption DEF Mark
    <3> QED
      BY <1>4, <3>1 DEF Handles
  <2>4. pc'[q] = "handle"
    BY <1>1
  <2> QED
    BY <1>1, <1>3, <1>4, <2>2, <2>3, <2>4 DEF Handles
<1>8. TypeOK'
  <2>1. \A i \in DOMAIN signal_fds' : signal_fds'[i] \in Place \cup Mark
    BY <1>4 DEF TypeOK
  <2>2. pc' \in [Place -> PC]
    BY <1>1 DEF PC
  <2>3. inPipe' \subseteq Place
    BY <1>1 DEF TypeOK
  <2> QED
    BY <1>1, <1>4, <2>1, <2>2, <2>3 DEF TypeOK, semaVars
<1> QED
  BY <1>1, <1>2, <1>5, <1>6, <1>7, <1>8 DEF Phases

\* A new place tells its parent to go on.
LEMMA PostReadyKeeps ==
  ASSUME IInv, ~aborted, NEW q \in Place, PostReady(q)
  PROVE  IInv'
<1> USE DEF IInv
<1>1. /\ pc[q] = "handle" /\ pc \in [Place -> PC] /\ pc' = [pc EXCEPT ![q] = "posted"]
      /\ readySema' = [readySema EXCEPT ![parent[q]] = TRUE] /\ readySema \in [Place -> BOOLEAN]
      /\ UNCHANGED <<parent, back, toPost, inPipe, placeId, masterVars, semaVars, requests, aborted>>
  BY DEF PostReady, Goto, TypeOK
<1>2. Gathering'
  <2>1. Gathering
    BY <1>1, OutsideGathering
  <2> QED
    BY <1>1, <2>1, GatheringKeeps DEF masterVars, semaVars
<1>3. Members' = Members
  BY <1>1 DEF Members
<1>4. MainStays' /\ Slots'
  BY <1>1, <1>3, PlacesGCAssumption DEF MainStays, Slots, size, masterVars
<1>5. Handles'
  BY <1>1, <1>3 DEF Handles, size, masterVars, Members
<1>6. Families'
  <2>1. \A r \in Place : Born(r)' <=> Born(r) /\ r # q
    BY <1>1 DEF Born
  <2>2. Born(q)
    BY <1>1 DEF Born
  <2>3. \A r \in Place : Born(r) /\ r # q => parent[r] # parent[q]
    BY <2>2 DEF Families
  <2>4. parent[q] \in Place /\ pc[parent[q]] = "waitready"
    BY <2>2 DEF Families
  <2>5. \A r \in Place : pc[r] = "waitready" <=> pc'[r] = "waitready"
    BY <1>1
  <2> QED
    BY <1>1, <2>1, <2>3, <2>4, <2>5 DEF Families
<1>7. TypeOK'
  BY <1>1 DEF TypeOK, PC, size, masterVars, semaVars
<1> QED
  BY <1>1, <1>2, <1>4, <1>5, <1>6, <1>7 DEF Phases

\* A place leaves, and its slot is free again.
LEMMA DestructChildGCKeeps ==
  ASSUME IInv, ~aborted, NEW p \in Place, DestructChildGC(p)
  PROVE  IInv'
<1> USE DEF IInv
<1>1. /\ pc[p] = "destruct" /\ pc \in [Place -> PC]
      /\ UNCHANGED <<parent, readySema, toPost, inPipe, cangc, ready, major, semaVars, requests,
                     aborted>>
  BY DEF DestructChildGC, TypeOK
<1>2. Gathering
  BY <1>1, OutsideGathering
<1>3. p # Main /\ p \in Members
  BY <1>1 DEF MainStays, Members
<1>4. CASE major
  <2>1. /\ pc' = [pc EXCEPT ![p] = "wants"] /\ back' = [back EXCEPT ![p] = "destruct"]
        /\ UNCHANGED <<signal_fds, placeId, alive>>
    BY <1>4 DEF DestructChildGC
  <2>2. Gathering'
    BY <1>1, <1>2, <2>1, GatheringKeeps DEF semaVars
  <2>3. back'[Main] = "run"
    BY <1>3, <2>1 DEF MainStays
  <2>4. MainStays' /\ Families' /\ Slots' /\ Handles'
    BY <1>1, <2>1, <2>3, MemberMoves
  <2>5. TypeOK'
    BY <1>1, <2>1 DEF TypeOK, PC, size, semaVars
  <2> QED
    BY <1>1, <2>2, <2>4, <2>5 DEF Phases
<1>5. CASE ~major
  <2>1. /\ pc' = [pc EXCEPT ![p] = "dead"] /\ UNCHANGED back
        /\ signal_fds' = [signal_fds EXCEPT ![placeId[p]] = REAPED_SLOT_AVAILABLE]
        /\ placeId' = [placeId EXCEPT ![p] = -1] /\ placeId \in [Place -> -1..(size - 1)]
        /\ alive' = alive - 1
    BY <1>5 DEF DestructChildGC, TypeOK
  <2>2. Gathering'
    BY <1>1, <1>2, <2>1, GatheringKeeps DEF semaVars
  <2>3. Members' = Members \ {p} /\ \A q \in Members' : pc'[q] = pc[q] /\ placeId'[q] = placeId[q]
    BY <1>1, <2>1 DEF Members
  <2>4. /\ DOMAIN signal_fds' = DOMAIN signal_fds /\ size' = size /\ size \in Nat
        /\ DOMAIN signal_fds = 0..(size - 1)
        /\ placeId[p] \in 1..(size - 1) /\ signal_fds'[placeId[p]] = REAPED_SLOT_AVAILABLE
        /\ \A i \in 0..(size - 1) : i # placeId[p] => signal_fds'[i] = signal_fds[i]
    BY <1>3, <2>1 DEF size, TypeOK, Slots
  <2>5. MainStays' /\ Families'
    <3>1. \A r \in Place : Born(r)' <=> Born(r)
      BY <1>1, <2>1 DEF Born
    <3>2. \A r \in Place : pc[r] = "waitready" <=> pc'[r] = "waitready"
      BY <1>1, <2>1
    <3>3. Families'
      BY <1>1, <3>1, <3>2 DEF Families
    <3>4. Main \in Members /\ pc[Main] # "destruct"
      BY DEF MainStays
    <3> QED
      BY <1>3, <2>1, <2>3, <3>3, <3>4 DEF MainStays
  <2>6. \A q \in Members' : placeId[q] \in 1..(size - 1) /\ placeId[q] # placeId[p]
    BY <1>3, <2>3 DEF Slots
  <2>7. alive \in 2..(Cardinality(Place) + 1) /\ Cardinality(Place) \in Nat
    BY AliveRange, PlaceCount
  <2>8. Slots'
    <3>1. alive' = Cardinality(Members') + 1 /\ alive' < size
      <4>1. IsFiniteSet(Members) /\ Cardinality(Members) = alive - 1
        BY AliveRange
      <4>2. Cardinality(Members \ {p}) = Cardinality(Members) - 1
        BY <1>3, <4>1, FS_RemoveElement
      <4>3. alive < size
        BY DEF Slots
      <4> QED
        BY <2>1, <2>3, <2>4, <2>7, <4>1, <4>2, <4>3
    <3>2. signal_fds'[0] = CREATED_BUT_NOT_REGISTERED
      BY <2>4 DEF Slots
    <3>3. \A i \in 1..(size - 1) :
            signal_fds'[i] # REAPED_SLOT_AVAILABLE => \E q \in Members' : placeId'[q] = i
      <4> SUFFICES ASSUME NEW i \in 1..(size - 1), signal_fds'[i] # REAPED_SLOT_AVAILABLE
                   PROVE  \E q \in Members' : placeId'[q] = i
        OBVIOUS
      <4>1. i # placeId[p] /\ signal_fds[i] # REAPED_SLOT_AVAILABLE
        BY <2>4
      <4>2. PICK q \in Members : placeId[q] = i
        BY <4>1 DEF Slots
      <4> QED
        BY <2>3, <4>1, <4>2
    <3>4. \A q, r \in Members' : placeId'[q] = placeId'[r] => q = r
      BY <2>3 DEF Slots
    <3> QED
      BY <2>3, <2>4, <2>6, <3>1, <3>2, <3>3, <3>4 DEF Slots
  <2>9. Handles'
    <3>1. \A q \in Members' : signal_fds'[placeId'[q]] = signal_fds[placeId[q]]
      BY <2>3, <2>4, <2>6
    <3>2. \A i \in 1..(size - 1) : signal_fds'[i] = SIGNALED_BUT_NOT_REGISTERED => major
      <4>1. SIGNALED_BUT_NOT_REGISTERED # REAPED_SLOT_AVAILABLE
        BY DEF SIGNALED_BUT_NOT_REGISTERED, REAPED_SLOT_AVAILABLE
      <4> QED
        BY <2>4, <4>1 DEF Handles
    <3> QED
      BY <1>1, <2>3, <2>4, <3>1, <3>2 DEF Handles
  <2>10. TypeOK'
    <3>1. \A i \in DOMAIN signal_fds' : signal_fds'[i] \in Place \cup Mark
      BY <2>4 DEF TypeOK, Mark
    <3>2. pc' \in [Place -> PC]
      BY <1>1, <2>1 DEF PC
    <3>3. placeId' \in [Place -> -1..(size - 1)]
      BY <2>1, <2>4
    <3>4. alive' \in 2..(Cardinality(Place) + 1)
      <4>1. Cardinality(Members') \in 0..Cardinality(Place) /\ IsFiniteSet(Members')
        BY PlaceSets DEF Members
      <4>2. Cardinality(Members') # 0
        BY <2>5, <4>1, FS_EmptySet DEF MainStays
      <4> QED
        BY <2>7, <2>8, <4>1, <4>2 DEF Slots
    <3> QED
      BY <1>1, <2>1, <2>4, <3>1, <3>2, <3>3, <3>4 DEF TypeOK, semaVars
  <2> QED
    BY <1>1, <2>2, <2>5, <2>8, <2>9, <2>10 DEF Phases
<1> QED
  BY <1>4, <1>5

----------------------------------------------------------------------------
(* The theorems.                                                           *)

\* The original place is the only member at first.
LEMMA InitEstablishes == Init => IInv
<1> SUFFICES ASSUME Init PROVE IInv
  OBVIOUS
<1>0. InitialSize \in Nat /\ InitialSize > 2 /\ Cardinality(Place) \in Nat /\ Cardinality(Place) > 0
      /\ Main \in Place
  BY PlacesGCAssumption, PlaceCount
<1>1. DOMAIN signal_fds = 0..(InitialSize - 1) /\ size = InitialSize
  <2>1. DOMAIN signal_fds = 0..(InitialSize - 1)
    BY DEF Init
  <2>2. Cardinality(0..(InitialSize - 1)) = InitialSize
    BY <1>0, FS_Interval
  <2> QED
    BY <2>1, <2>2 DEF size
<1>2. /\ signal_fds[0] = CREATED_BUT_NOT_REGISTERED /\ signal_fds[1] = Main
      /\ \A i \in 2..(InitialSize - 1) : signal_fds[i] = REAPED_SLOT_AVAILABLE
  <2>1. ASSUME NEW i \in 0..(InitialSize - 1)
        PROVE  signal_fds[i] = CASE i = 0 -> CREATED_BUT_NOT_REGISTERED
                                 [] i = 1 -> Main
                                 [] OTHER -> REAPED_SLOT_AVAILABLE
    BY <2>1 DEF Init
  <2> QED
    BY <1>0, <2>1
<1>3. Members = {Main} /\ pc[Main] = "run" /\ placeId[Main] = 1
      /\ \A p \in Place : p # Main => pc[p] = "none"
  BY <1>0 DEF Init, Members
<1>4. TypeOK
  <2>1. \A i \in DOMAIN signal_fds : signal_fds[i] \in Place \cup Mark
    BY <1>0, <1>1, <1>2 DEF Mark
  <2>2. pc \in [Place -> PC]
    BY DEF Init, PC
  <2>3. placeId \in [Place -> -1..(size - 1)]
    BY <1>0, <1>1 DEF Init
  <2>4. /\ parent \in [Place -> Place \cup {NoPlace}] /\ readySema \in [Place -> BOOLEAN]
        /\ back \in [Place -> {"run", "destruct"}] /\ toPost \in [Place -> 0..Cardinality(Place)]
        /\ inPipe \subseteq Place /\ cangc \in Place \cup {NoPlace}
    BY <1>0 DEF Init
  <2>5. /\ alive \in 2..(Cardinality(Place) + 1) /\ ready \in 0..Cardinality(Place)
        /\ wait_go_sema \in 0..Cardinality(Place) /\ wait_done_sema \in 0..Cardinality(Place)
        /\ requests \in 0..MaxRequests
    BY <1>0, PlacesGCAssumption DEF Init
  <2>6. major \in BOOLEAN /\ aborted \in BOOLEAN
    BY DEF Init
  <2> QED
    BY <1>0, <1>1, <2>1, <2>2, <2>3, <2>4, <2>5, <2>6 DEF TypeOK
<1>5. MainStays
  BY <1>0, <1>3 DEF Init, MainStays
<1>6. Families
  BY <1>3 DEF Init, Families, Born
<1>7. Slots
  <2>1. Cardinality(Members) = 1
    BY <1>3, FS_Singleton
  <2> QED
    BY <1>0, <1>1, <1>2, <1>3, <2>1 DEF Init, Slots
<1>8. Handles
  <2>1. \A i \in 1..(size - 1) : signal_fds[i] # SIGNALED_BUT_NOT_REGISTERED
    <3>1. Main # SIGNALED_BUT_NOT_REGISTERED
      BY PlacesGCAssumption DEF Mark
    <3>2. REAPED_SLOT_AVAILABLE # SIGNALED_BUT_NOT_REGISTERED
      BY DEF SIGNALED_BUT_NOT_REGISTERED, REAPED_SLOT_AVAILABLE
    <3> QED
      BY <1>0, <1>1, <1>2, <3>1, <3>2
  <2> QED
    BY <1>2, <1>3, <2>1 DEF Handles
<1>9. Phases
  <2>1. At("waitgo") = {} /\ At("waitdone") = {}
    BY DEF Init, At
  <2> QED
    BY <1>3, <2>1, FS_EmptySet DEF Init, Phases, Gathering
<1> QED
  BY <1>4, <1>5, <1>6, <1>7, <1>8, <1>9 DEF IInv, Init

\* The inductive invariant holds throughout.
THEOREM Invariance == Spec => []IInv
<1>1. IInv /\ [Next]_vars => IInv'
  <2> SUFFICES ASSUME IInv, [Next]_vars PROVE IInv'
    OBVIOUS
  <2>1. CASE UNCHANGED vars
    <3> USE <2>1 DEF vars, placeVars, masterVars, semaVars, IInv
    <3>1. TypeOK' /\ ~aborted'
      BY DEF TypeOK, size
    <3>2. Members' = Members /\ \A at : At(at)' = At(at)
      BY DEF Members, At
    <3>3. MainStays' /\ Families' /\ Slots' /\ Handles'
      BY <3>2 DEF MainStays, Families, Born, Slots, Handles, size
    <3>4. /\ Gathering => Gathering'
          /\ Marking => Marking'
          /\ \A p \in Place : Going(p) => Going(p)'
          /\ \A p \in Place : Mastering(p) => Mastering(p)'
          /\ \A p \in Place : Releasing(p) => Releasing(p)'
      BY <3>2 DEF Gathering, Marking, Going, Mastering, Releasing
    <3> QED
      BY <3>1, <3>3, <3>4 DEF Phases
  <2>2. ASSUME ~aborted, NEW p \in Place, Step(p) PROVE IInv'
    BY <2>2, CheckKeeps, ThreadBlockKeeps, WakeKeeps, CollectNowKeeps, AgainKeeps,
       WaitUntilMasterInProgressKeeps, ReadAliveKeeps, PostGoKeeps, WaitGoKeeps, MajorCollectKeeps,
       WaitWhileMasterInProgressKeeps, CollectMasterKeeps, PostDoneKeeps, WaitDoneKeeps,
       WaitReadyKeeps, ConstructChildGCKeeps, SetPutExternalEventFdKeeps, PostReadyKeeps,
       AllowMasterGCCheckKeeps, DestructChildGCKeeps DEF Step
  <2>3. ASSUME ~aborted, NEW p \in Place, Program(p) PROVE IInv'
    BY <2>3, RequestKeeps, AllocateKeeps, TerminateKeeps, CreatePlaceKeeps DEF Program
  <2> QED
    BY <2>1, <2>2, <2>3 DEF Next
<1> QED
  BY InitEstablishes, <1>1, PTL DEF Spec

\* The variables keep their types; in particular no counter gets out of range.
THEOREM TypeCorrect == Spec => []TypeOK
<1>1. IInv => TypeOK
  BY DEF IInv
<1> QED
  BY Invariance, <1>1, PTL

\* No check of the table of handles fails: there is always a free slot for a
\* new place, and a request finds a handle or a fresh mark for every place.
THEOREM NoAbort == Spec => []NeverAborts
<1>1. IInv => NeverAborts
  BY DEF IInv, NeverAborts
<1> QED
  BY Invariance, <1>1, PTL

\* While a place marks, everyone is between the two rendezvous; while the
\* master space is collected, all others wait.
THEOREM WorldStopped == Spec => []StopTheWorld
<1>1. ASSUME IInv PROVE StopTheWorld
  <2> SUFFICES ASSUME NEW p \in Place, pc[p] \in {"major", "done", "mastergc"}
               PROVE  /\ \A q \in Place : pc[q] \in Collecting \cup {"none", "dead"}
                      /\ pc[p] = "mastergc" =>
                           \A q \in Place \ {p} : pc[q] \in {"waitdone", "none", "dead"}
    BY DEF StopTheWorld
  <2>1. CASE pc[p] = "mastergc"
    <3>1. Mastering(p)
      BY <1>1, <2>1 DEF IInv, Phases, Gathering, Going, Marking, Mastering, Releasing
    <3> QED
      BY <2>1, <3>1 DEF Mastering, Collecting
  <2>2. CASE pc[p] # "mastergc"
    <3>1. Marking
      BY <1>1, <2>2, InMarking DEF IInv
    <3> QED
      BY <2>2, <3>1 DEF Marking, Collecting
  <2> QED
    BY <2>1, <2>2
<1> QED
  BY Invariance, <1>1, PTL

\* Each post of a rendezvous is for a place that waits in it.
THEOREM TokensForWaiters == Spec => []TokensAreForWaiters
<1>1. ASSUME IInv PROVE TokensAreForWaiters
  <2>0. /\ toPost \in [Place -> 0..Cardinality(Place)] /\ Cardinality(Place) \in Nat
        /\ wait_go_sema \in Nat /\ wait_done_sema \in Nat
    BY <1>1, PlaceCount DEF IInv, TypeOK
  <2>1. Cardinality(At("waitgo")) \in Nat /\ Cardinality(At("waitdone")) \in Nat
    BY PlaceSets DEF At
  <2> DEFINE Goal ==
        /\ wait_go_sema <= Cardinality(At("waitgo")) /\ wait_done_sema <= Cardinality(At("waitdone"))
        /\ \A p \in Place :
             /\ pc[p] = "postgo" => wait_go_sema + toPost[p] = Cardinality(At("waitgo"))
             /\ pc[p] = "postdone" => wait_done_sema + toPost[p] = Cardinality(At("waitdone"))
  <2>2. Goal
    <3>1. CASE Gathering
      BY <2>0, <2>1, <3>1 DEF Gathering
    <3>2. ASSUME NEW p \in Place, Going(p) \/ Mastering(p) PROVE Goal
      BY <2>0, <2>1, <3>2 DEF Going, Mastering
    <3>3. CASE Marking
      BY <2>0, <2>1, <3>3 DEF Marking
    <3>4. ASSUME NEW p \in Place, Releasing(p) PROVE Goal
      BY <2>0, <2>1, <3>4 DEF Releasing
    <3> QED
      BY <1>1, <3>1, <3>2, <3>3, <3>4 DEF IInv, Phases
  <2> QED
    BY <2>2 DEF TokensAreForWaiters, At
<1> QED
  BY Invariance, <1>1, PTL
=============================================================================
