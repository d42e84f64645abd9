------------------------------- MODULE Places -------------------------------
(***************************************************************************)
(* Place objects of the C runtime (racket/src/racket/src/place.c): what    *)
(* the parent, the place itself and the channels share about a place, each *)
(* with its own OS thread.  A place object is protected by a lock that the *)
(* last of its users destroys.  The original place creates the others.     *)
(* Every part of the code under such a lock is one step.                   *)
(***************************************************************************)
EXTENDS Integers, FiniteSets

CONSTANTS
  Place,    \* the places, as long as the program runs
  Main,     \* the original place
  NoPlace   \* NULL

ASSUME PlacesAssumption ==
  /\ Main \in Place
  /\ NoPlace \notin Place
  /\ IsFiniteSet(Place)

VARIABLES
  pc,             \* where each place is in its program
  signal_handle,  \* place_obj->signal_handle is not NULL
  die,            \* place_obj->die: "no" (0), "asked" (1), "seen" (-1)
  dead,           \* place_obj->dead
  refcount,       \* place_obj->refcount
  held,           \* the parent's place->place_obj is not NULL
  destroyed,      \* the place objects whose lock is destroyed
  inPipe          \* the places with a byte in their external_event_fd

objVars == <<signal_handle, die, dead, refcount, held, destroyed>>

PlaceTypeOK(PC) ==
  /\ pc \in [Place -> PC \cup {"none", "run", "asleep", "check", "end", "ended", "gone"}]
  /\ signal_handle \in [Place -> BOOLEAN]
  /\ die \in [Place -> {"no", "asked", "seen"}]
  /\ dead \in [Place -> BOOLEAN]
  /\ refcount \in [Place -> Nat]
  /\ held \in [Place -> BOOLEAN]
  /\ destroyed \subseteq Place
  /\ inPipe \subseteq Place

PlaceInit ==
  /\ pc = [p \in Place |-> IF p = Main THEN "run" ELSE "none"]
  /\ signal_handle = [p \in Place |-> p = Main]
  /\ die = [p \in Place |-> "no"]
  /\ dead = [p \in Place |-> FALSE]
  /\ refcount = [p \in Place |-> IF p = Main THEN 1 ELSE 0]
  /\ held = [p \in Place |-> FALSE]
  /\ destroyed = {}
  /\ inPipe = {}

----------------------------------------------------------------------------
\* scheme_make_place_object, scheme_place, place_start_proc_after_stack: the
\* parent waits until the place has its handle and its reference.
CreatePlace(q) ==
  /\ pc[Main] = "run" /\ pc[q] = "none"
  /\ pc' = [pc EXCEPT ![q] = "run"]
  /\ signal_handle' = [signal_handle EXCEPT ![q] = TRUE]
  /\ refcount' = [refcount EXCEPT ![q] = 2]
  /\ held' = [held EXCEPT ![q] = TRUE]
  /\ UNCHANGED <<die, dead, destroyed, inPipe>>

\* The objects without references: destroy_place_object_locks.
Unreferenced(count) == {p \in Place : pc[p] # "none" /\ count[p] = 0}

\* Mutant: the parent drops its reference and keeps the object.
BuggyDoPlaceKill(q) ==
  /\ die' = [die EXCEPT ![q] = IF @ = "no" THEN "asked" ELSE @]
  /\ refcount' = [refcount EXCEPT ![q] = @ - 1]
  /\ destroyed' = destroyed \cup Unreferenced(refcount')
  /\ inPipe' = IF signal_handle[q] THEN inPipe \cup {q} ELSE inPipe
  /\ UNCHANGED <<pc, signal_handle, dead, held>>

\* Mutant: the place that must die is not woken up.
SilentDoPlaceKill(q) ==
  /\ die' = [die EXCEPT ![q] = IF @ = "no" THEN "asked" ELSE @]
  /\ refcount' = [refcount EXCEPT ![q] = @ - 1]
  /\ destroyed' = destroyed \cup Unreferenced(refcount')
  /\ held' = [held EXCEPT ![q] = FALSE]
  /\ UNCHANGED <<pc, signal_handle, dead, inPipe>>

\* do_place_kill.
DoPlaceKill(q) ==
  /\ die' = [die EXCEPT ![q] = IF @ = "no" THEN "asked" ELSE @]
  /\ refcount' = [refcount EXCEPT ![q] = @ - 1]
  /\ destroyed' = destroyed \cup Unreferenced(refcount')
  /\ inPipe' = IF signal_handle[q] THEN inPipe \cup {q} ELSE inPipe
  /\ held' = [held EXCEPT ![q] = FALSE]
  /\ UNCHANGED <<pc, signal_handle, dead>>

\* place-kill, or the shutdown of the custodian of q.
PlaceKill(q) == pc[Main] = "run" /\ held[q] /\ DoPlaceKill(q)

\* place-wait finds that q is dead.
PlaceWait(q) == pc[Main] = "run" /\ held[q] /\ dead[q] /\ DoPlaceKill(q)

\* default_sleep returns because of a byte in the pipe, which it clears.
Wake(p) ==
  /\ pc[p] = "asleep" /\ p \in inPipe
  /\ pc' = [pc EXCEPT ![p] = "check"]
  /\ inPipe' = inPipe \ {p}
  /\ UNCHANGED objVars

\* scheme_place_check_for_interruption, which every turn of the scheduler
\* calls: p continues at next, or its main thread is killed.
CheckForInterruption(p, next) ==
  /\ die' = [die EXCEPT ![p] = IF @ = "asked" THEN "seen" ELSE @]
  /\ pc' = [pc EXCEPT ![p] = IF die[p] = "asked" THEN "end" ELSE next]
  /\ UNCHANGED <<signal_handle, dead, refcount, held, destroyed, inPipe>>

\* The place's main procedure returns, or (exit).
Exit(p) ==
  /\ p # Main /\ pc[p] = "run"
  /\ pc' = [pc EXCEPT ![p] = "end"]
  /\ UNCHANGED <<objVars, inPipe>>

\* terminate_current_place: place_set_result, which signals the parent, ...
PlaceSetResult(p) ==
  /\ pc[p] = "end"
  /\ pc' = [pc EXCEPT ![p] = "ended"]
  /\ inPipe' = IF held[p] THEN inPipe \cup {Main} ELSE inPipe
  /\ signal_handle' = [signal_handle EXCEPT ![p] = FALSE]
  /\ dead' = [dead EXCEPT ![p] = TRUE]
  /\ UNCHANGED <<die, refcount, held, destroyed>>

\* ... and then, in another critical section, the place's own reference.
DropReference(p) ==
  /\ pc[p] = "ended"
  /\ pc' = [pc EXCEPT ![p] = "gone"]
  /\ refcount' = [refcount EXCEPT ![p] = @ - 1]
  /\ destroyed' = destroyed \cup Unreferenced(refcount')
  /\ UNCHANGED <<signal_handle, die, dead, held, inPipe>>
=============================================================================
