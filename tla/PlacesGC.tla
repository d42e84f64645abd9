------------------------------ MODULE PlacesGC ------------------------------
(***************************************************************************)
(* The collection of the master space by the places of the C runtime       *)
(* (racket/src/racket/gc2/places_gc.c, collect_now of newgc.c).  Every     *)
(* place is an OS thread.  Whoever fills the master space requests a       *)
(* collection; each place then does a major collection of its own between  *)
(* two rendezvous, "go" and "done", and the last one at "done" collects    *)
(* the master space for all.  Places are created and destroyed meanwhile.  *)
(*                                                                         *)
(* A part of the code between lock and unlock of cangc is one step, except *)
(* the collection of the master space, whose wakeups others see before it  *)
(* unlocks.  Reads without the lock are steps of their own.                *)
(***************************************************************************)
EXTENDS Integers, FiniteSets, FiniteSetsExt

CONSTANTS
  Place,        \* the places, as long as the program runs
  Main,         \* the original place
  NoPlace,      \* not a place
  InitialSize,  \* the first size of signal_fds
  MaxRequests   \* bound on the requests for a collection of the master space

\* The marks in signal_fds.
CREATED_BUT_NOT_REGISTERED == "created"
SIGNALED_BUT_NOT_REGISTERED == "signaled"
REAPED_SLOT_AVAILABLE == "reaped"
Mark == {CREATED_BUT_NOT_REGISTERED, SIGNALED_BUT_NOT_REGISTERED, REAPED_SLOT_AVAILABLE}

ASSUME PlacesGCAssumption ==
  /\ Main \in Place
  /\ NoPlace \notin Place
  /\ Place \cap Mark = {}  \* no handle is one of the marks
  /\ IsFiniteSet(Place)
  /\ InitialSize \in Nat /\ InitialSize > 2
  /\ MaxRequests \in Nat

VARIABLES
  pc,          \* where each place is, see PC
  parent,      \* the place that created this one
  readySema,   \* place_data->ready of a new place, as seen by its parent
  back,        \* where collect_now returns to
  toPost,      \* the semaphore posts that the last place still has to do
  inPipe,      \* the places with a byte in their external_event_fd
  placeId,     \* gc->place_id
  cangc,       \* the place that holds MASTERGCINFO->cangc while it collects
  signal_fds,  \* MASTERGCINFO->signal_fds: a handle (the place) or a mark
  alive,       \* MASTERGCINFO->alive, the master included
  ready,       \* MASTERGCINFO->ready
  major,       \* MASTERGC->major_places_gc
  wait_go_sema, wait_done_sema,
  requests,    \* how many requests there were
  aborted      \* abort() was called or a bad handle was signalled

placeVars == <<parent, readySema, back, toPost, inPipe, placeId>>
masterVars == <<cangc, signal_fds, alive, ready, major>>
semaVars == <<wait_go_sema, wait_done_sema>>
vars == <<pc, placeVars, masterVars, semaVars, requests, aborted>>

PC ==
  {"none",                       \* does not exist
   "spawned",                    \* its OS thread runs, it has no collector
   "created", "handle",          \* without, with its handle in signal_fds
   "posted",                     \* its parent goes on, it is not in rendezvous yet
   "run", "waitready",           \* runs, waits for the place it creates
   "asleep", "check",            \* in default_sleep, in GC_check_master_gc_request
   "wants",                      \* in the loop of collect_now
   "go", "readgo", "postgo", "waitgo",
   "major",                      \* its major collection for the master's
   "done", "mastergc", "postdone", "waitdone",
   "again",                      \* at the end of the loop of collect_now
   "destruct", "dead"}

size == Cardinality(DOMAIN signal_fds)

TypeOK ==
  /\ pc \in [Place -> PC]
  /\ parent \in [Place -> Place \cup {NoPlace}]
  /\ readySema \in [Place -> BOOLEAN]
  /\ back \in [Place -> {"run", "destruct"}]
  /\ toPost \in [Place -> 0..Cardinality(Place)]
  /\ inPipe \subseteq Place
  /\ placeId \in [Place -> -1..(size - 1)]
  /\ cangc \in Place \cup {NoPlace}
  /\ size \in Nat /\ DOMAIN signal_fds = 0..(size - 1)
  /\ \A i \in DOMAIN signal_fds : signal_fds[i] \in Place \cup Mark
  /\ alive \in 2..(Cardinality(Place) + 1)
  /\ ready \in 0..Cardinality(Place)
  /\ major \in BOOLEAN
  /\ wait_go_sema \in 0..Cardinality(Place)
  /\ wait_done_sema \in 0..Cardinality(Place)
  /\ requests \in 0..MaxRequests
  /\ aborted \in BOOLEAN

\* The original place has put its handle in slot 1; slot 0 is the master's.
Init ==
  /\ pc = [p \in Place |-> IF p = Main THEN "run" ELSE "none"]
  /\ parent = [p \in Place |-> NoPlace]
  /\ readySema = [p \in Place |-> FALSE]
  /\ back = [p \in Place |-> "run"]
  /\ toPost = [p \in Place |-> 0]
  /\ inPipe = {}
  /\ placeId = [p \in Place |-> IF p = Main THEN 1 ELSE -1]
  /\ cangc = NoPlace
  /\ signal_fds = [i \in 0..(InitialSize - 1) |->
                     CASE i = 0 -> CREATED_BUT_NOT_REGISTERED
                       [] i = 1 -> Main
                       [] OTHER -> REAPED_SLOT_AVAILABLE]
  /\ alive = 2
  /\ ready = 0
  /\ major = FALSE
  /\ wait_go_sema = 0 /\ wait_done_sema = 0
  /\ requests = 0
  /\ aborted = FALSE

----------------------------------------------------------------------------
\* p goes from one point of its program to another.
Goto(p, from, to) == pc[p] = from /\ pc' = [pc EXCEPT ![p] = to]

Unlocked == cangc = NoPlace

\* The slots that master_collect_request counts: in order, until as many as
\* there are places are found.
Counted ==
  LET used == {i \in 1..(size - 1) : signal_fds[i] # REAPED_SLOT_AVAILABLE}
  IN  {i \in used : Cardinality({j \in used : j < i}) < alive - 1}

\* master_collect_request.  The comparison with (void*)-2 takes the mark
\* SIGNALED_BUT_NOT_REGISTERED for a handle.
MasterCollectRequest ==
  IF major
  THEN UNCHANGED <<major, ready, inPipe, signal_fds, aborted>>
  ELSE /\ major' = TRUE
       /\ ready' = 0
       /\ inPipe' = inPipe \cup ({signal_fds[i] : i \in Counted} \cap Place)
       /\ signal_fds' = [i \in DOMAIN signal_fds |->
                           IF i \in Counted /\ signal_fds[i] = CREATED_BUT_NOT_REGISTERED
                           THEN SIGNALED_BUT_NOT_REGISTERED ELSE signal_fds[i]]
       /\ aborted' = \/ Cardinality(Counted) # alive - 1
                     \/ \E i \in Counted : signal_fds[i] = SIGNALED_BUT_NOT_REGISTERED

\* p allocates in the master space, which is full (collect_now of MASTERGC),
\* or finds in GC_check_master_gc_request that messages filled it.
Request(p) ==
  /\ pc[p] \in {"created", "handle", "posted", "run"}
  /\ Unlocked
  /\ requests < MaxRequests
  /\ requests' = requests + 1
  /\ MasterCollectRequest
  /\ UNCHANGED <<pc, parent, readySema, back, toPost, placeId, cangc, alive, semaVars>>

\* GC_check_master_gc_request at the end of scheme_thread_block.
Check(p) ==
  /\ pc[p] = "check"
  /\ pc' = [pc EXCEPT ![p] = IF major THEN "wants" ELSE "run"]
  /\ back' = [back EXCEPT ![p] = "run"]
  /\ UNCHANGED <<parent, readySema, toPost, inPipe, placeId, masterVars, semaVars, requests, aborted>>

\* p gets to the scheduler, and sleeps when it has nothing to do.
ThreadBlock(p) ==
  /\ pc[p] = "run"
  /\ pc' \in {[pc EXCEPT ![p] = to] : to \in {"check", "asleep"}}
  /\ UNCHANGED <<placeVars, masterVars, semaVars, requests, aborted>>

\* default_sleep returns when there is a byte in the pipe, and clears it.
Wake(p) ==
  /\ p \in inPipe
  /\ Goto(p, "asleep", "check")
  /\ inPipe' = inPipe \ {p}
  /\ UNCHANGED <<parent, readySema, back, toPost, placeId, masterVars, semaVars, requests, aborted>>

\* An allocation of p calls collect_now.
Allocate(p) ==
  /\ Goto(p, "run", "wants")
  /\ back' = [back EXCEPT ![p] = "run"]
  /\ UNCHANGED <<parent, readySema, toPost, inPipe, placeId, masterVars, semaVars, requests, aborted>>

----------------------------------------------------------------------------
\* The loop of collect_now for a place: without a request it collects p's own
\* space only, which the others do not see.
CollectNow(p) ==
  /\ pc[p] = "wants"
  /\ Unlocked
  /\ pc' = [pc EXCEPT ![p] = IF major THEN "go" ELSE "again"]
  /\ UNCHANGED <<placeVars, masterVars, semaVars, requests, aborted>>

\* The end of the loop: again as long as the master wants to collect.
Again(p) ==
  /\ pc[p] = "again"
  /\ Unlocked
  /\ pc' = [pc EXCEPT ![p] = IF major THEN "wants" ELSE back[p]]
  /\ UNCHANGED <<placeVars, masterVars, semaVars, requests, aborted>>

\* Mutant: the place that arrives is not counted itself.
BuggySyncMasterProgress(p, last, wait, none) ==
  /\ Unlocked
  /\ IF major
     THEN IF alive - 2 = ready + 1
          THEN ready' = 0 /\ pc' = [pc EXCEPT ![p] = last]
          ELSE ready' = ready + 1 /\ pc' = [pc EXCEPT ![p] = wait]
     ELSE pc' = [pc EXCEPT ![p] = none] /\ UNCHANGED ready
  /\ UNCHANGED <<cangc, signal_fds, alive, major>>

\* Mutant: the last one does not reset ready for the next rendezvous.
NoResetSyncMasterProgress(p, last, wait, none) ==
  /\ Unlocked
  /\ IF major
     THEN /\ ready' = ready + 1
          /\ pc' = [pc EXCEPT ![p] = IF alive - 1 = ready + 1 THEN last ELSE wait]
     ELSE pc' = [pc EXCEPT ![p] = none] /\ UNCHANGED ready
  /\ UNCHANGED <<cangc, signal_fds, alive, major>>

\* The locked part of sync_master_progress: p is the last one here, or waits,
\* or the master does not want to collect.
SyncMasterProgress(p, last, wait, none) ==
  /\ Unlocked
  /\ IF major
     THEN IF alive - 1 = ready + 1
          THEN ready' = 0 /\ pc' = [pc EXCEPT ![p] = last]
          ELSE ready' = ready + 1 /\ pc' = [pc EXCEPT ![p] = wait]
     ELSE pc' = [pc EXCEPT ![p] = none] /\ UNCHANGED ready
  /\ UNCHANGED <<cangc, signal_fds, alive, major>>

\* wait_until_master_in_progress: the first rendezvous.
WaitUntilMasterInProgress(p) ==
  /\ pc[p] = "go"
  /\ SyncMasterProgress(p, "readgo", "waitgo", "major")
  /\ UNCHANGED <<placeVars, semaVars, requests, aborted>>

\* Mutant: the last one posts once for itself, too.
BuggyReadAlive(p) ==
  /\ Goto(p, "readgo", "postgo")
  /\ toPost' = [toPost EXCEPT ![p] = alive - 1]
  /\ UNCHANGED <<parent, readySema, back, inPipe, placeId, masterVars, semaVars, requests, aborted>>

\* The last one at "go" reads alive without the lock: it wakes everyone but
\* the master and itself.
ReadAlive(p) ==
  /\ Goto(p, "readgo", "postgo")
  /\ toPost' = [toPost EXCEPT ![p] = alive - 2]
  /\ UNCHANGED <<parent, readySema, back, inPipe, placeId, masterVars, semaVars, requests, aborted>>

PostGo(p) ==
  /\ pc[p] = "postgo"
  /\ IF toPost[p] = 0
     THEN pc' = [pc EXCEPT ![p] = "major"] /\ UNCHANGED <<toPost, wait_go_sema>>
     ELSE /\ toPost' = [toPost EXCEPT ![p] = @ - 1]
          /\ wait_go_sema' = wait_go_sema + 1
          /\ UNCHANGED pc
  /\ UNCHANGED <<parent, readySema, back, inPipe, placeId, masterVars, wait_done_sema, requests, aborted>>

WaitGo(p) ==
  /\ wait_go_sema > 0
  /\ Goto(p, "waitgo", "major")
  /\ wait_go_sema' = wait_go_sema - 1
  /\ UNCHANGED <<placeVars, masterVars, wait_done_sema, requests, aborted>>

\* garbage_collect of p's own space, with gc->major_places_gc.
MajorCollect(p) ==
  /\ Goto(p, "major", "done")
  /\ UNCHANGED <<placeVars, masterVars, semaVars, requests, aborted>>

\* wait_while_master_in_progress: the second rendezvous.
WaitWhileMasterInProgress(p) ==
  /\ pc[p] = "done"
  /\ SyncMasterProgress(p, "mastergc", "waitdone", "again")
  /\ UNCHANGED <<placeVars, semaVars, requests, aborted>>

\* collect_master: p takes cangc, collects the master space and wakes the
\* others before it gives cangc back.
CollectMaster(p) ==
  /\ Goto(p, "mastergc", "postdone")
  /\ Unlocked
  /\ cangc' = p
  /\ major' = FALSE
  /\ toPost' = [toPost EXCEPT ![p] = alive - 2]
  /\ UNCHANGED <<parent, readySema, back, inPipe, placeId, signal_fds, alive, ready, semaVars, requests, aborted>>

PostDone(p) ==
  /\ pc[p] = "postdone"
  /\ IF toPost[p] = 0
     THEN /\ pc' = [pc EXCEPT ![p] = "again"]
          /\ cangc' = NoPlace
          /\ UNCHANGED <<toPost, wait_done_sema>>
     ELSE /\ toPost' = [toPost EXCEPT ![p] = @ - 1]
          /\ wait_done_sema' = wait_done_sema + 1
          /\ UNCHANGED <<pc, cangc>>
  /\ UNCHANGED <<parent, readySema, back, inPipe, placeId, signal_fds, alive, ready, major, wait_go_sema, requests, aborted>>

WaitDone(p) ==
  /\ wait_done_sema > 0
  /\ Goto(p, "waitdone", "again")
  /\ wait_done_sema' = wait_done_sema - 1
  /\ UNCHANGED <<placeVars, masterVars, wait_go_sema, requests, aborted>>

----------------------------------------------------------------------------
\* scheme_place: p starts the OS thread of q and waits for ready.
CreatePlace(p, q) ==
  /\ pc[p] = "run" /\ pc[q] = "none"
  /\ pc' = [pc EXCEPT ![p] = "waitready", ![q] = "spawned"]
  /\ parent' = [parent EXCEPT ![q] = p]
  /\ UNCHANGED <<readySema, back, toPost, inPipe, placeId, masterVars, semaVars, requests, aborted>>

WaitReady(p) ==
  /\ readySema[p]
  /\ Goto(p, "waitready", "run")
  /\ readySema' = [readySema EXCEPT ![p] = FALSE]
  /\ UNCHANGED <<parent, back, toPost, inPipe, placeId, masterVars, semaVars, requests, aborted>>

\* Mutant: the table does not grow.
BuggyTable == signal_fds

\* The table in which NewGCMasterInfo_find_free_id looks: twice as large when
\* only one slot would be left.
Table ==
  IF alive + 1 = size
  THEN [i \in 0..(2 * size - 1) |-> IF i < size THEN signal_fds[i] ELSE REAPED_SLOT_AVAILABLE]
  ELSE signal_fds

\* GC_construct_child_gc, NewGCMasterInfo_register_gc.
ConstructChildGC(q) ==
  LET free == {i \in DOMAIN Table : Table[i] = REAPED_SLOT_AVAILABLE} IN
  /\ Unlocked
  /\ Goto(q, "spawned", "created")
  /\ IF free = {}
     THEN aborted' = TRUE /\ UNCHANGED <<placeId, signal_fds, alive>>
     ELSE /\ placeId' = [placeId EXCEPT ![q] = Min(free)]
          /\ signal_fds' = [Table EXCEPT ![Min(free)] = CREATED_BUT_NOT_REGISTERED]
          /\ alive' = alive + 1
          /\ UNCHANGED aborted
  /\ UNCHANGED <<parent, readySema, back, toPost, inPipe, cangc, ready, major, semaVars, requests>>

\* GC_set_put_external_event_fd: q may have been signalled before.
SetPutExternalEventFd(q) ==
  /\ Unlocked
  /\ Goto(q, "created", "handle")
  /\ inPipe' = IF signal_fds[placeId[q]] = SIGNALED_BUT_NOT_REGISTERED
               THEN inPipe \cup {q} ELSE inPipe
  /\ signal_fds' = [signal_fds EXCEPT ![placeId[q]] = q]
  /\ UNCHANGED <<parent, readySema, back, toPost, placeId, cangc, alive, ready, major, semaVars, requests, aborted>>

\* Mutant: q joins the rendezvous before its parent goes on.
BuggyPostReady(q) ==
  /\ \/ Goto(q, "handle", "posted") /\ major
     \/ Goto(q, "handle", "wants") /\ major
     \/ Goto(q, "handle", "posted") /\ ~major
  /\ readySema' = [readySema EXCEPT ![parent[q]] = pc'[q] = "posted"]
  /\ UNCHANGED <<parent, back, toPost, inPipe, placeId, masterVars, semaVars, requests, aborted>>

\* mzrt_sema_post(place_data->ready): until then the parent cannot collect.
PostReady(q) ==
  /\ Goto(q, "handle", "posted")
  /\ readySema' = [readySema EXCEPT ![parent[q]] = TRUE]
  /\ UNCHANGED <<parent, back, toPost, inPipe, placeId, masterVars, semaVars, requests, aborted>>

\* Mutant: q may sleep before it has looked for a request.
BuggyAllowMasterGCCheck(q) ==
  /\ Goto(q, "posted", "run")
  /\ UNCHANGED <<placeVars, masterVars, semaVars, requests, aborted>>

\* GC_allow_master_gc_check clears dont_master_gc_until_child_registers; while
\* it is set ("created", "handle", "posted"), the collections of q do not
\* look at the master.  Then q loads its module (scheme_dynamic_require), runs
\* out of fuel and gets to the scheduler before anything of it can sleep.
AllowMasterGCCheck(q) ==
  /\ Goto(q, "posted", "check")
  /\ UNCHANGED <<placeVars, masterVars, semaVars, requests, aborted>>

\* terminate_current_place; the end of the original place ends the program.
Terminate(p) ==
  /\ p # Main
  /\ Goto(p, "run", "destruct")
  /\ UNCHANGED <<placeVars, masterVars, semaVars, requests, aborted>>

\* GC_destruct_child_gc: p leaves, or first takes part in a requested
\* collection.
DestructChildGC(p) ==
  /\ pc[p] = "destruct"
  /\ Unlocked
  /\ IF major
     THEN /\ pc' = [pc EXCEPT ![p] = "wants"]
          /\ back' = [back EXCEPT ![p] = "destruct"]
          /\ UNCHANGED <<signal_fds, placeId, alive>>
     ELSE /\ pc' = [pc EXCEPT ![p] = "dead"]
          /\ signal_fds' = [signal_fds EXCEPT ![placeId[p]] = REAPED_SLOT_AVAILABLE]
          /\ placeId' = [placeId EXCEPT ![p] = -1]
          /\ alive' = alive - 1
          /\ UNCHANGED back
  /\ UNCHANGED <<parent, readySema, toPost, inPipe, cangc, ready, major, semaVars, requests, aborted>>

----------------------------------------------------------------------------
\* The steps that the OS thread of p takes in any case.
Step(p) ==
  \/ Check(p) \/ ThreadBlock(p) \/ Wake(p)
  \/ CollectNow(p) \/ Again(p)
  \/ WaitUntilMasterInProgress(p) \/ ReadAlive(p) \/ PostGo(p) \/ WaitGo(p)
  \/ MajorCollect(p)
  \/ WaitWhileMasterInProgress(p) \/ CollectMaster(p) \/ PostDone(p) \/ WaitDone(p)
  \/ WaitReady(p) \/ ConstructChildGC(p) \/ SetPutExternalEventFd(p)
  \/ PostReady(p) \/ AllowMasterGCCheck(p) \/ DestructChildGC(p)

\* What its program may do.
Program(p) ==
  \/ Request(p) \/ Allocate(p) \/ Terminate(p)
  \/ \E q \in Place : CreatePlace(p, q)

Next == ~aborted /\ \E p \in Place : Step(p) \/ Program(p)

Spec == Init /\ [][Next]_vars

\* The operating system runs every place that can go on.
FairSpec == Spec /\ \A p \in Place : WF_vars(~aborted /\ Step(p))

----------------------------------------------------------------------------
\* The places that take part in a collection.
Collecting == {"readgo", "postgo", "waitgo", "major", "done", "mastergc", "postdone", "waitdone"}

\* No consistency check of the table fails, and only handles are signalled
\* (master_collect_request, NewGCMasterInfo_find_free_id).
NeverAborts == ~aborted

\* The world is stopped: while a place marks for the master's collection,
\* every place that has a collector is between the two rendezvous, and when
\* the master space is collected all others wait for its end.
StopTheWorld ==
  \A p \in Place :
    /\ pc[p] \in {"major", "done", "mastergc"} =>
         \A q \in Place : pc[q] \in Collecting \cup {"none", "dead"}
    /\ pc[p] = "mastergc" =>
         \A q \in Place \ {p} : pc[q] \in {"waitdone", "none", "dead"}

\* No rendezvous leaves a token behind with which a place would run through
\* the next one: whatever is posted or going to be is for a waiting place.
TokensAreForWaiters ==
  LET waiting(at) == Cardinality({p \in Place : pc[p] = at}) IN
  /\ wait_go_sema <= waiting("waitgo") /\ wait_done_sema <= waiting("waitdone")
  /\ \A p \in Place :
       /\ pc[p] = "postgo" => wait_go_sema + toPost[p] = waiting("waitgo")
       /\ pc[p] = "postdone" => wait_done_sema + toPost[p] = waiting("waitdone")

\* Every request is served, also when places sleep, start or end meanwhile:
\* no signal and no wakeup is lost, and nobody waits for everybody else.
RequestServed == major ~> ~major

\* Whoever waits at a rendezvous comes out of it.
EveryoneComesBack ==
  \A p \in Place : pc[p] \in {"waitgo", "waitdone", "waitready"} ~> pc[p] \in {"run", "dead"}
=============================================================================
