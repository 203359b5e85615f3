-------------------------- MODULE GoroutineProofs --------------------------
(***************************************************************************)
(* The goroutines of an execution, for any number of goroutines, channels, *)
(* callbacks and any limit: the tracker counts what it says it counts, the *)
(* join hides neither a goroutine nor a failure, and a reported deadlock   *)
(* is one.                                                                 *)
(*                                                                         *)
(* The invariant adds to ExecutionSound where each kind of VM may be       *)
(* (Types), that a failure is recorded before its goroutine is released    *)
(* (Joined), that safe mode runs one VM at a time, so that the value       *)
(* blocked.Add(1) returned is still the tally when it is compared (Locked),*)
(* and what a fresh grace timer knows of the VMs (Timed).  The last two    *)
(* hold until a select has panicked; before that nothing is lost (Intact). *)
(***************************************************************************)
EXTENDS Goroutines, FiniteSetTheorems, TLAPS

MainPlaces == {"lock", "running", "spawning", "overLimit", "native", "nativeHeld", "arming",
               "parked", "woken", "exiting", "joining", "ended"}
SpawnedPlaces == {"none", "registered", "unscheduled", "lock", "running", "spawning", "overLimit",
                  "native", "nativeHeld", "nativeBody", "arming", "parked", "woken", "exiting",
                  "releasing", "done"}
CallbackPlaces == {"idle", "lock", "running", "native", "nativeHeld", "arming", "parked", "woken",
                   "done"}

Seats ==
    /\ pc \in [Actors -> Places]
    /\ pc[Main] \in MainPlaces
    /\ \A g \in Spawned : pc[g] \in SpawnedPlaces
    /\ \A k \in Callbacks : pc[k] \in CallbackPlaces

Types ==
    /\ Seats
    /\ safe \in BOOLEAN /\ torn \in BOOLEAN /\ lost \in Nat
    /\ ops \in [Actors -> Operations \cup {EmptySelect}]
    /\ outcome \in [Actors -> {"ok", "error", "cancelled"}]
    /\ gil \in Members \cup {Free}
    /\ cause \in {"none", "main", "host", "deadlock"}
    /\ panicked \in BOOLEAN
    /\ seen \in [Actors -> Nat]
    /\ timers \subseteq [by : Actors, fresh : BOOLEAN, owed : SUBSET Actors]

Waits == {"arming", "parked", "woken"}
Waiting == {a \in Actors : pc[a] \in Waits /\ Countable(ops[a])}
Unstarted == {g \in Spawned : pc[g] \in {"registered", "unscheduled"}}
Over == {a \in Actors : pc[a] = "overLimit"}

\* The tallies of the tracker.
Tallies ==
    /\ counted = Waiting
    /\ blocked = Cardinality(Waiting) + lost
    /\ unscheduled = Cardinality(Unstarted)
    /\ count = Cardinality(Launched) + Cardinality(Over)
    /\ Cardinality(Launched) <= MaxGoroutines

\* What the join may rely on: a failure is recorded before its goroutine is
\* released, and nobody is there once the arena is pooled.
Recorded ==
    \A g \in Spawned : outcome[g] = "error" =>
        /\ pc[g] \in {"exiting", "releasing", "done"}
        /\ pc[g] \in {"releasing", "done"} => panicked
Joined ==
    /\ Recorded
    /\ arena = "pooled" => pc[Main] = "ended" /\ Launched = {}
    /\ result = "ok" => /\ pc[Main] = "ended" /\ Launched = {}
                        /\ \A g \in Spawned : outcome[g] # "error"

Untouched == \A k \in Callbacks : pc[k] = "idle"

\* Until a select panics no token is lost and no unlocked mutex is unlocked, ...
Intact == lost > 0 \/ crashed => torn

\* ... and the interpreter lock of safe mode is held by whoever is inside.
Locked ==
    safe /\ ~torn => /\ \A a \in Members : pc[a] \in Inside => gil = a
                     /\ Untouched => \A a \in Members :
                                        pc[a] = "arming" /\ a \in counted => seen[a] = blocked

\* Since a fresh timer was armed nobody has moved but VMs that were due then.
Timed ==
    \A t \in timers : (safe /\ ~torn /\ t.fresh /\ cause = "none" /\ Untouched) =>
        /\ Live \subseteq counted
        /\ \A a \in Live : pc[a] # "arming"
        /\ Due \subseteq t.owed

Told == Tallies /\ Joined /\ Intact /\ Locked /\ Timed
ExecutionInv == Types /\ Told

-----------------------------------------------------------------------------
\* The VMs are finitely many, so is every set of them, and one more or one
\* fewer changes its size by one.
LEMMA SetsOfVMs ==
    ASSUME NEW S \in SUBSET Actors
    PROVE  /\ IsFiniteSet(S) /\ Cardinality(S) \in Nat
           /\ \A a \in Actors \ S : Cardinality(S \cup {a}) = Cardinality(S) + 1
           /\ \A a \in S : Cardinality(S \ {a}) = Cardinality(S) - 1
           /\ Cardinality(S) = 0 => S = {}
<1>1. IsFiniteSet(S)
  BY GoroutinesAssumption, FS_Subset
<1> QED BY <1>1, FS_CardinalityType, FS_AddElement, FS_RemoveElement, FS_EmptySet

\* The three kinds of VM are different ones.
LEMMA KindsOfVMs ==
    /\ Main \in Members /\ Main \in Actors /\ Main \notin Spawned /\ Main \notin Callbacks
    /\ Spawned \subseteq Members /\ Members \subseteq Actors
    /\ Spawned \subseteq Actors /\ Callbacks \subseteq Actors
    /\ \A a \in Members : a \notin Callbacks
    /\ \A a \in Actors : a \in Members \/ a \in Callbacks
    /\ \A a \in Members : a = Main \/ a \in Spawned
    /\ Free \notin Members
BY GoroutinesAssumption DEF Members, Actors

Busy == {"registered", "unscheduled", "lock", "running", "spawning", "overLimit", "native",
         "nativeHeld", "nativeBody", "arming", "parked", "woken"}

\* What a step does to one VM: nothing; it is registered by a running goroutine,
\* or fired by the host; it goes on; it is abandoned; its dispatch ends; its
\* failure is recorded; it is released; or it is the main goroutine and joins the
\* others.
Keeps(b) == outcome'[b] = outcome[b]
Rests(b) == pc'[b] = pc[b] /\ Keeps(b)
Launches(b) == /\ b \in Spawned /\ pc[b] = "none" /\ pc'[b] = "registered" /\ Keeps(b)
               /\ \E a \in Members : pc[a] = "running"
Fires(b) == b \in Callbacks /\ pc[b] = "idle" /\ pc'[b] = "running"
GoesOn(b) == /\ pc[b] \in Busy /\ pc'[b] \in Busy \ {"registered"} /\ Keeps(b)
             /\ pc'[b] \in {"unscheduled", "nativeBody"} => b \in Spawned
             /\ pc'[b] \in {"spawning", "overLimit"} => b \in Members
Drops(b) == b \in Spawned /\ pc[b] = "registered" /\ pc'[b] = "done" /\ Keeps(b)
Ends(b) == pc[b] \in Busy /\ pc'[b] = IF b \in Members THEN "exiting" ELSE "done"
Records(b) == /\ b \in Spawned /\ pc[b] = "exiting" /\ pc'[b] = "releasing" /\ Keeps(b)
              /\ outcome[b] = "error" => panicked'
Releases(b) == b \in Spawned /\ pc[b] = "releasing" /\ pc'[b] = "done" /\ Keeps(b)
Joins(b) == b = Main /\ Keeps(b) /\ <<pc[b], pc'[b]>> \in {<<"exiting", "joining">>, <<"joining", "ended">>}
Moves(b) == \/ Launches(b) \/ Fires(b) \/ GoesOn(b) \/ Drops(b) \/ Ends(b) \/ Records(b) \/ Releases(b) \/ Joins(b)

\* The steps that move no VM.
Aside == \/ \E a \in Actors, c \in Chans : CloseChannel(a, c)
         \/ \E t \in timers : GraceElapses(t)
         \/ HostCancels \/ \E a \in Actors : Crash(a)
         \/ UNCHANGED executionVars

\* Every step does one of these to each VM.
LEMMA StepMoves ==
    ASSUME Types, [ExecutionNext]_executionVars
    PROVE  /\ \A b \in Actors : Rests(b) \/ Moves(b)
           /\ panicked => panicked'
           /\ pc' = [b \in Actors |-> pc'[b]]
<1> DEFINE Others(a) == \A b \in Actors \ {a} : Rests(b)
           Goal == /\ \A b \in Actors : Rests(b) \/ Moves(b)
                   /\ panicked => panicked'
                   /\ pc' = [b \in Actors |-> pc'[b]]
<1> SUFFICES Goal
  OBVIOUS
<1>0. Seats /\ pc \in [Actors -> Places] /\ outcome \in [Actors -> {"ok", "error", "cancelled"}]
  BY DEF Types, Seats
<1>m. ASSUME NEW a \in Actors, NEW l, Goto(a, l)
      PROVE  /\ pc'[a] = l /\ \A b \in Actors \ {a} : pc'[b] = pc[b]
             /\ pc' = [b \in Actors |-> pc'[b]]
  BY <1>0, <1>m, Zenon DEF Goto
<1>g. ASSUME NEW a \in Actors, Others(a), Moves(a), panicked => panicked',
             pc' = [b \in Actors |-> pc'[b]]
      PROVE  Goal
  BY <1>g
<1>k. ASSUME NEW a \in Actors, NEW l, Goto(a, l), UNCHANGED <<outcome, panicked>>,
             pc[a] \in Busy, l \in Busy \ {"registered"},
             l \in {"unscheduled", "nativeBody"} => a \in Spawned,
             l \in {"spawning", "overLimit"} => a \in Members
      PROVE  Goal
  BY <1>m, <1>g, <1>k, Zenon DEF Keeps, Rests, Moves, GoesOn
<1>r. ASSUME NEW a \in Actors, NEW o, Leave(a, o), pc[a] \in Busy, UNCHANGED panicked
      PROVE  Goal
  <2>1. Others(a)
    BY <1>0, <1>m, <1>r DEF Leave, Keeps, Rests
  <2> QED BY <1>m, <1>g, <1>r, <2>1, Zenon DEF Leave, Moves, Ends
<1>b. ASSUME NEW a \in Actors, NEW l, NEW d \in Actors, NEW n, GotoBoth(a, l, d, n), a # d
      PROVE  /\ pc'[a] = l /\ pc'[d] = n /\ \A b \in Actors \ {a, d} : pc'[b] = pc[b]
             /\ pc' = [b \in Actors |-> pc'[b]]
  BY <1>0, <1>b, Zenon DEF GotoBoth
<1>h. ASSUME NEW a \in Actors, NEW d \in Actors, Moves(a), Moves(d), panicked => panicked',
             \A b \in Actors \ {a, d} : Rests(b), pc' = [b \in Actors |-> pc'[b]]
      PROVE  Goal
  BY <1>h
<1>1. ASSUME NEW a \in Actors, NEW g \in Spawned, Spawn(a, g) PROVE Goal
  <2>0. g \in Actors /\ a # g /\ a \in Members /\ UNCHANGED <<outcome, panicked>>
    BY <1>1, KindsOfVMs DEF Spawn, env, world
  <2>1. GoesOn(a) /\ Launches(g) /\ \A b \in Actors \ {a, g} : Rests(b)
    BY <1>b, <1>1, <2>0, KindsOfVMs DEF Spawn, GoesOn, Launches, Keeps, Rests, Busy
  <2> QED BY <1>b, <1>h, <1>1, <2>0, <2>1, Zenon DEF Spawn, Moves
<1>1l. ASSUME NEW a \in Actors, NEW g \in Spawned, Launch(a, g) PROVE Goal
  <2>0. g \in Actors /\ a # g /\ UNCHANGED <<outcome, panicked>>
    BY <1>1l, KindsOfVMs DEF Launch, env, world
  <2>1. GoesOn(a) /\ GoesOn(g) /\ \A b \in Actors \ {a, g} : Rests(b)
    BY <1>b, <1>1l, <2>0, KindsOfVMs DEF Launch, GoesOn, Keeps, Rests, Busy
  <2> QED BY <1>b, <1>h, <1>1l, <2>0, <2>1, ZenonT(30) DEF Launch, Moves
<1>1a. ASSUME NEW a \in Actors, NEW g \in Spawned, Abandon(a, g) PROVE Goal
  <2>0. g \in Actors /\ a # g /\ a \in Members /\ UNCHANGED panicked
    BY <1>0, <1>1a, KindsOfVMs DEF Abandon, world, Seats, CallbackPlaces
  <2>1. /\ pc'[a] = "exiting" /\ pc'[g] = "done" /\ \A b \in Actors \ {a, g} : pc'[b] = pc[b]
        /\ pc' = [b \in Actors |-> pc'[b]]
    BY <1>b, <1>1a, <2>0 DEF Abandon
  <2>2. Keeps(g) /\ \A b \in Actors \ {a, g} : Keeps(b)
    BY <1>0, <1>1a, <2>0 DEF Abandon, Keeps
  <2>3. Ends(a) /\ Drops(g) /\ \A b \in Actors \ {a, g} : Rests(b)
    BY <1>1a, <2>0, <2>1, <2>2 DEF Abandon, Ends, Drops, Rests, Busy
  <2> QED BY <1>h, <2>0, <2>1, <2>3, Zenon DEF Moves
<1>2. ASSUME NEW a \in Actors, SpawnOver(a) PROVE Goal
  BY <1>k, <1>2, KindsOfVMs DEF SpawnOver, world, Busy
<1>3. ASSUME NEW a \in Actors, RejectSpawn(a) PROVE Goal
  BY <1>r, <1>3 DEF RejectSpawn, Return, env, world, Busy
<1>4. ASSUME NEW g \in Spawned, Start(g) PROVE Goal
  BY <1>k, <1>4, KindsOfVMs DEF Start, env, world, Busy
<1>5. ASSUME NEW a \in Actors, Acquire(a) \/ Yield(a) \/ CallNative(a) \/ NativeReturns(a) PROVE Goal
  BY <1>k, <1>5, KindsOfVMs DEF Acquire, Yield, CallNative, NativeReturns, tracker, env, world, Busy
<1>6. ASSUME NEW g \in Spawned, NativeBodyReturns(g) PROVE Goal
  <2>1. Others(g) /\ Ends(g)
    BY <1>0, <1>m, <1>6, KindsOfVMs DEF NativeBodyReturns, Ends, Keeps, Rests, Busy
  <2> QED BY <1>m, <1>g, <1>6, <2>1, KindsOfVMs DEF NativeBodyReturns, Moves, world
<1>7. ASSUME NEW k \in Callbacks, CallbackFires(k) \/ CallbackReturns(k) PROVE Goal
  <2>1. Others(k) /\ (Fires(k) \/ Ends(k))
    BY <1>m, <1>7, KindsOfVMs DEF CallbackFires, CallbackReturns, Fires, Ends, Keeps, Rests, Busy
  <2> QED BY <1>m, <1>g, <1>7, <2>1, KindsOfVMs DEF CallbackFires, CallbackReturns, Moves, env, world
<1>8. ASSUME NEW a \in Actors, NEW b \in Actors, Exchange(a, b) PROVE Goal
  BY <1>k, <1>8, KindsOfVMs DEF Exchange, tracker, env, world, Busy
<1>9. ASSUME NEW a \in Actors, NEW o \in Operations, Enter(a, o) PROVE Goal
  BY <1>k, <1>9, KindsOfVMs DEF Enter, Busy
<1>10. ASSUME NEW a \in Actors, Arm(a) PROVE Goal
  BY <1>k, <1>10, KindsOfVMs DEF Arm, env, world, Busy
<1>11. ASSUME NEW a \in Actors, NEW b \in Actors, Rendezvous(a, b) PROVE Goal
  <2>1. \A d \in Actors : pc'[d] = pc[d] \/ (pc[d] = "parked" /\ pc'[d] = "woken")
    BY <1>0, <1>11 DEF Rendezvous, GotoBoth
  <2>2. outcome' = outcome /\ panicked' = panicked /\ pc' = [d \in Actors |-> pc'[d]]
    BY <1>0, <1>11, Zenon DEF Rendezvous, GotoBoth, env, world
  <2> QED BY <2>1, <2>2 DEF Moves, GoesOn, Keeps, Rests, Busy
<1>12. ASSUME NEW a \in Actors, Wake(a) PROVE Goal
  BY <1>k, <1>12, KindsOfVMs DEF Wake, tracker, env, world, Busy
<1>13. ASSUME NEW a \in Actors, Resume(a) PROVE Goal
  <2>1. CASE Goto(a, "running") /\ UNCHANGED outcome
    BY <1>k, <1>13, <2>1, ZenonT(30) DEF Resume, env, world, Busy
  <2>2. ASSUME NEW o, Leave(a, o) PROVE Goal
    BY <1>r, <1>13, <2>2, Zenon DEF Resume, env, world, Busy
  <2> QED BY <1>13, <2>1, <2>2, Zenon DEF Resume
<1>13p. ASSUME NEW a \in Actors, SelectPanics(a) PROVE Goal
  <2>1. CASE Goto(a, "running") /\ UNCHANGED outcome
    BY <1>k, <1>13p, <2>1, ZenonT(30) DEF SelectPanics, Busy
  <2>2. CASE Leave(a, "error")
    BY <1>r, <1>13p, <2>2, Zenon DEF SelectPanics, Busy
  <2> QED BY <1>13p, <2>1, <2>2, Zenon DEF SelectPanics, Return
<1>14. ASSUME NEW a \in Actors, NEW o \in {"ok", "error", "cancelled"}, Finish(a, o) PROVE Goal
  BY <1>r, <1>14 DEF Finish, Return, tracker, world, Busy
<1>15. ASSUME NEW g \in Spawned, Record(g) PROVE Goal
  <2>1. Others(g) /\ Records(g)
    BY <1>m, <1>15, KindsOfVMs, Zenon DEF Record, Records, Surfaces, Keeps, Rests
  <2> QED BY <1>m, <1>g, <1>15, <2>1, KindsOfVMs, ZenonT(30) DEF Record, Moves
<1>16. ASSUME NEW g \in Spawned, ReleaseVM(g) PROVE Goal
  <2>1. Others(g) /\ Releases(g)
    BY <1>m, <1>16, KindsOfVMs DEF ReleaseVM, Releases, Keeps, Rests
  <2> QED BY <1>m, <1>g, <1>16, <2>1, KindsOfVMs DEF ReleaseVM, Moves, env, world
<1>17. ASSUME BeginJoin \/ EndJoin PROVE Goal
  <2>1. Others(Main) /\ Joins(Main)
    BY <1>m, <1>17, KindsOfVMs DEF BeginJoin, EndJoin, Joins, Keeps, Rests
  <2> QED BY <1>m, <1>g, <1>17, <2>1, KindsOfVMs DEF BeginJoin, EndJoin, Moves
<1>18. ASSUME Aside PROVE Goal
  <2>1. UNCHANGED <<pc, outcome, panicked>>
    BY <1>18 DEF Aside, CloseChannel, GraceElapses, HostCancels, Crash, executionVars, sched, env, world
  <2> QED BY <1>0, <2>1 DEF Keeps, Rests
<1> QED BY <1>1, <1>1l, <1>1a, <1>2, <1>3, <1>4, <1>5, <1>6, <1>7, <1>8, <1>9, <1>10, <1>11, <1>12,
           <1>13, <1>13p, <1>14, <1>15, <1>16, <1>17, <1>18, ZenonT(30) DEF ExecutionNext, Step, Aside

\* So every step moves VMs among the places of their kind, ...
LEMMA SeatsStep == Types /\ [ExecutionNext]_executionVars => Seats'
<1> SUFFICES ASSUME Types, [ExecutionNext]_executionVars PROVE Seats'
  OBVIOUS
<1>0. Seats
  BY DEF Types
<1>1. ASSUME NEW b \in Spawned PROVE pc'[b] \in SpawnedPlaces
  BY <1>0, StepMoves, KindsOfVMs, GoroutinesAssumption DEF Seats, SpawnedPlaces, Busy, Rests, Moves,
     Launches, Fires, GoesOn, Drops, Ends, Records, Releases, Joins
<1>2. ASSUME NEW b \in Callbacks PROVE pc'[b] \in CallbackPlaces
  BY <1>0, StepMoves, KindsOfVMs, GoroutinesAssumption DEF Seats, CallbackPlaces, Busy, Rests, Moves,
     Launches, Fires, GoesOn, Drops, Ends, Records, Releases, Joins
<1>3. pc'[Main] \in MainPlaces
  BY <1>0, StepMoves, KindsOfVMs DEF Seats, MainPlaces, Busy, Rests, Moves,
     Launches, Fires, GoesOn, Drops, Ends, Records, Releases, Joins
<1>4. \A b \in Actors : pc'[b] \in Places
  BY <1>1, <1>2, <1>3, KindsOfVMs DEF Places, MainPlaces, SpawnedPlaces, CallbackPlaces
<1>5. pc' \in [Actors -> Places]
  BY <1>4, StepMoves
<1> QED BY <1>1, <1>2, <1>3, <1>5 DEF Seats

\* ... no callback goes back to being untouched, ...
LEMMA UntouchedBefore ==
    ASSUME Types, [ExecutionNext]_executionVars, Untouched'
    PROVE  Untouched
BY StepMoves, KindsOfVMs DEF Untouched, Rests, Moves, Launches, Fires, GoesOn, Drops, Ends, Records, Releases,
   Joins, Busy

\* ... and a failure is recorded before its goroutine is released.
LEMMA RecordedStep == Types /\ Recorded /\ [ExecutionNext]_executionVars => Recorded'
<1> SUFFICES ASSUME Types, Recorded, [ExecutionNext]_executionVars, NEW b \in Spawned,
                    outcome'[b] = "error"
             PROVE  /\ pc'[b] \in {"exiting", "releasing", "done"}
                    /\ pc'[b] \in {"releasing", "done"} => panicked'
  BY DEF Recorded
<1>1. b \in Actors /\ b \in Members /\ b \notin Callbacks /\ b # Main
  BY KindsOfVMs
<1>2. CASE Ends(b)
  BY <1>1, <1>2 DEF Ends
<1>3. CASE Records(b)
  BY <1>3 DEF Records, Keeps, Rests
<1>4. CASE Releases(b)
  BY <1>4, StepMoves DEF Releases, Keeps, Recorded
<1>5. CASE Launches(b) \/ GoesOn(b) \/ Drops(b)
  BY <1>5 DEF Launches, GoesOn, Drops, Keeps, Recorded, Busy
<1>6. CASE Rests(b)
  BY <1>6, StepMoves DEF Rests, Keeps, Recorded
<1> QED BY <1>1, <1>2, <1>3, <1>4, <1>5, <1>6, StepMoves DEF Moves, Fires, Joins

\* Locks are taken by members, and given back.
LEMMA LockTypes ==
    ASSUME gil \in Members \cup {Free}, NEW a \in Actors, Lock(a) \/ Unlock(a)
    PROVE  gil' \in Members \cup {Free}
BY DEF Lock, Unlock, UsesLock

\* A timer only loses what it is owed, and its freshness; or what it is owed.
LEMMA TimerTypes ==
    ASSUME timers \subseteq [by : Actors, fresh : BOOLEAN, owed : SUBSET Actors], NEW a \in Actors,
           timers' = {[t EXCEPT !.owed = @ \ {a}, !.fresh = @ /\ a \notin counted] : t \in timers}
    PROVE  timers' \subseteq [by : Actors, fresh : BOOLEAN, owed : SUBSET Actors]
<1>1. ASSUME NEW t \in timers
      PROVE  [t EXCEPT !.owed = @ \ {a}, !.fresh = @ /\ a \notin counted]
                \in [by : Actors, fresh : BOOLEAN, owed : SUBSET Actors]
  <2>1. t \in [by : Actors, fresh : BOOLEAN, owed : SUBSET Actors]
    BY Zenon
  <2>2. (t.fresh /\ a \notin counted) \in BOOLEAN /\ t.owed \ {a} \in SUBSET Actors
    BY <2>1, ZenonT(30)
  <2> QED BY <2>1, <2>2, Zenon
<1> QED BY <1>1, Zenon

LEMMA OwedTypes ==
    ASSUME timers \subseteq [by : Actors, fresh : BOOLEAN, owed : SUBSET Actors], NEW a \in Actors,
           timers' = {[t EXCEPT !.owed = @ \ {a}] : t \in timers}
    PROVE  timers' \subseteq [by : Actors, fresh : BOOLEAN, owed : SUBSET Actors]
<1>1. ASSUME NEW t \in timers
      PROVE  [t EXCEPT !.owed = @ \ {a}] \in [by : Actors, fresh : BOOLEAN, owed : SUBSET Actors]
  <2>1. t \in [by : Actors, fresh : BOOLEAN, owed : SUBSET Actors]
    BY Zenon
  <2>2. t.owed \ {a} \in SUBSET Actors
    BY <2>1, ZenonT(30)
  <2> QED BY <2>1, <2>2, Zenon
<1> QED BY <1>1, Zenon

\* Every step keeps every value in its type.
LEMMA TypesStep == ExecutionInv /\ [ExecutionNext]_executionVars => Types'
<1> SUFFICES ASSUME ExecutionInv, [ExecutionNext]_executionVars PROVE Types'
  OBVIOUS
<1>0. Types /\ Seats'
  BY SeatsStep DEF ExecutionInv
<1> DEFINE Quiet == UNCHANGED <<safe, torn, lost, ops, outcome, gil, cause, panicked, seen, timers>>
<1>q. CASE Quiet
  BY <1>0, <1>q DEF Types
<1>l. ASSUME UNCHANGED <<safe, torn, lost, ops, outcome, cause, panicked, seen, timers>>,
             gil' \in Members \cup {Free}
      PROVE  Types'
  BY <1>0, <1>l DEF Types
<1>g. gil \in Members \cup {Free}
  BY <1>0 DEF Types
<1>r. ASSUME NEW a \in Actors, NEW o \in {"ok", "error", "cancelled"}, Return(a, o)
      PROVE  /\ outcome' \in [Actors -> {"ok", "error", "cancelled"}]
             /\ gil' \in Members \cup {Free}
  BY <1>0, <1>g, <1>r, LockTypes DEF Return, Leave, Types
<1>1. ASSUME NEW a \in Actors, NEW g \in Spawned, Spawn(a, g) PROVE Types'
  BY <1>q, <1>1 DEF Spawn, env, world
<1>1l. ASSUME NEW a \in Actors, NEW g \in Spawned, Launch(a, g) PROVE Types'
  BY <1>q, <1>1l DEF Launch, tracker, env, world
<1>1a. ASSUME NEW a \in Actors, NEW g \in Spawned, Abandon(a, g) PROVE Types'
  <2>1. gil' \in Members \cup {Free}
    BY <1>g, <1>1a, LockTypes DEF Abandon
  <2> QED BY <1>0, <1>1a, <2>1 DEF Abandon, world, Types
<1>2. ASSUME NEW a \in Actors, SpawnOver(a) PROVE Types'
  BY <1>q, <1>2 DEF SpawnOver, world
<1>3. ASSUME NEW a \in Actors, RejectSpawn(a) PROVE Types'
  BY <1>0, <1>3, <1>r DEF RejectSpawn, env, world, Types
<1>4. ASSUME NEW g \in Spawned, Start(g) PROVE Types'
  BY <1>q, <1>4 DEF Start, env, world
<1>5. ASSUME NEW a \in Actors, Acquire(a) \/ Yield(a) \/ CallNative(a) \/ NativeReturns(a) PROVE Types'
  <2>1. gil' \in Members \cup {Free}
    BY <1>g, <1>5, LockTypes DEF Acquire, Yield, CallNative, NativeReturns
  <2> QED BY <1>l, <1>5, <2>1 DEF Acquire, Yield, CallNative, NativeReturns, tracker, env, world
<1>6. ASSUME NEW g \in Spawned, NativeBodyReturns(g) PROVE Types'
  BY <1>0, <1>6, KindsOfVMs DEF NativeBodyReturns, tracker, world, Types
<1>7. ASSUME NEW k \in Callbacks, CallbackFires(k) \/ CallbackReturns(k) PROVE Types'
  BY <1>q, <1>7 DEF CallbackFires, CallbackReturns, tracker, env, world
<1>8. ASSUME NEW a \in Actors, NEW b \in Actors, Exchange(a, b) PROVE Types'
  BY <1>q, <1>8, ZenonT(30) DEF Exchange, tracker, env, world
<1>9. ASSUME NEW a \in Actors, NEW o \in Operations, Enter(a, o) PROVE Types'
  <2>1. blocked \in Nat
    BY <1>0, SetsOfVMs DEF ExecutionInv, Types, Told, Tallies, Waiting
  <2>2. seen' \in [Actors -> Nat]
    BY <1>0, <1>9, <2>1 DEF Enter, Types
  <2>3. ops' \in [Actors -> Operations \cup {EmptySelect}]
    BY <1>0, <1>9 DEF Enter, Types
  <2> QED BY <1>0, <1>9, <2>2, <2>3 DEF Enter, Types
<1>10. ASSUME NEW a \in Actors, Arm(a) PROVE Types'
  <2>1. [by |-> a, fresh |-> TRUE, owed |-> Due'] \in [by : Actors, fresh : BOOLEAN, owed : SUBSET Actors]
    BY DEF Due
  <2>2. timers' \subseteq [by : Actors, fresh : BOOLEAN, owed : SUBSET Actors]
    BY <1>0, <1>10, <2>1, ZenonT(30) DEF Arm, Types
  <2>3. seen' \in [Actors -> Nat]
    BY <1>0, <1>10 DEF Arm, Types
  <2>4. gil' \in Members \cup {Free}
    BY <1>g, <1>10, LockTypes DEF Arm
  <2> QED BY <1>0, <1>10, <2>2, <2>3, <2>4 DEF Arm, env, world, Types
<1>11. ASSUME NEW a \in Actors, NEW b \in Actors, Rendezvous(a, b) PROVE Types'
  BY <1>q, <1>11, ZenonT(30) DEF Rendezvous, tracker, env, world
<1>12. ASSUME NEW a \in Actors, Wake(a) PROVE Types'
  BY <1>q, <1>12, ZenonT(30) DEF Wake, tracker, env, world
<1>13. ASSUME NEW a \in Actors, Resume(a) PROVE Types'
  <2>1. gil' \in Members \cup {Free}
    BY <1>g, <1>13, LockTypes, Zenon DEF Resume
  <2>2. outcome' \in [Actors -> {"ok", "error", "cancelled"}]
    BY <1>0, <1>13, ZenonT(30) DEF Resume, Leave, Types
  <2>3. timers' \subseteq [by : Actors, fresh : BOOLEAN, owed : SUBSET Actors]
    BY <1>0, <1>13, TimerTypes, Zenon DEF Resume, Types
  <2>4. ops' \in [Actors -> Operations \cup {EmptySelect}]
    BY <1>0, <1>13, Zenon DEF Resume, Types
  <2> QED BY <1>0, <1>13, <2>1, <2>2, <2>3, <2>4, ZenonT(30) DEF Resume, env, world, Types
<1>13p. ASSUME NEW a \in Actors, SelectPanics(a) PROVE Types'
  <2>1. /\ outcome' \in [Actors -> {"ok", "error", "cancelled"}]
        /\ gil' \in Members \cup {Free}
    BY <1>0, <1>g, <1>r, <1>13p, ZenonT(30) DEF SelectPanics, Types
  <2>2. timers' \subseteq [by : Actors, fresh : BOOLEAN, owed : SUBSET Actors]
    BY <1>0, <1>13p, OwedTypes, Zenon DEF SelectPanics, Types
  <2>3. ops' \in [Actors -> Operations \cup {EmptySelect}]
    BY <1>0, <1>13p, Zenon DEF SelectPanics, Types
  <2>4. lost' \in Nat /\ torn' \in BOOLEAN
    BY <1>0, <1>13p DEF SelectPanics, Types
  <2> QED BY <1>0, <1>13p, <2>1, <2>2, <2>3, <2>4, ZenonT(30) DEF SelectPanics, Types
<1>14. ASSUME NEW a \in Actors, NEW o \in {"ok", "error", "cancelled"}, Finish(a, o) PROVE Types'
  BY <1>0, <1>14, <1>r DEF Finish, tracker, world, Types
<1>15. ASSUME NEW g \in Spawned, Record(g) PROVE Types'
  <2>1. panicked' \in BOOLEAN
    BY <1>15, Zenon DEF Record
  <2> QED BY <1>0, <1>15, <2>1 DEF Record, tracker, Types
<1>16. ASSUME NEW g \in Spawned, ReleaseVM(g) PROVE Types'
  BY <1>q, <1>16 DEF ReleaseVM, env, world
<1>17. ASSUME BeginJoin \/ EndJoin PROVE Types'
  BY <1>0, <1>17 DEF BeginJoin, EndJoin, tracker, Types
<1>18. ASSUME Aside PROVE Types'
  <2>1. /\ UNCHANGED <<safe, torn, lost, ops, outcome, gil, panicked, seen>>
        /\ timers' \subseteq timers /\ cause' \in {cause, "host", "deadlock"}
    BY <1>18, ZenonT(30) DEF Aside, CloseChannel, GraceElapses, HostCancels, Crash, executionVars, sched, tracker, env, world
  <2> QED BY <1>0, <2>1 DEF Types
<1> QED BY <1>1, <1>1l, <1>1a, <1>2, <1>3, <1>4, <1>5, <1>6, <1>7, <1>8, <1>9, <1>10, <1>11, <1>12,
           <1>13, <1>13p, <1>14, <1>15, <1>16, <1>17, <1>18, ZenonT(30) DEF ExecutionNext, Step, Aside
-----------------------------------------------------------------------------
\* The sets the tracker tallies are sets of VMs.
LEMMA TalliedSets ==
    /\ Waiting \subseteq Actors /\ Unstarted \subseteq Actors
    /\ Launched \subseteq Actors /\ Over \subseteq Actors
BY KindsOfVMs DEF Waiting, Unstarted, Launched, Over

\* A VM that moves between places the tracker does not tell apart changes no
\* tally.
LEMMA QuietMove ==
    ASSUME ExecutionInv, NEW a \in Actors, NEW l, Goto(a, l),
           a \in Spawned => pc[a] \notin {"none", "done"} /\ l \notin {"none", "done"},
           pc[a] \notin {"registered", "unscheduled", "overLimit"},
           l \notin {"registered", "unscheduled", "overLimit"},
           pc[a] \in Waits <=> l \in Waits,
           UNCHANGED <<count, unscheduled, blocked, counted, lost, ops>>
    PROVE  Tallies'
<1>1. \A b \in Actors : pc'[b] = IF b = a THEN l ELSE pc[b]
  BY DEF ExecutionInv, Types, Seats, Goto
<1>2. Launched' = Launched
  BY <1>1, KindsOfVMs DEF Launched
<1>3. Unstarted' = Unstarted
  BY <1>1, KindsOfVMs DEF Unstarted
<1>4. Over' = Over
  BY <1>1 DEF Over
<1>5. Waiting' = Waiting
  BY <1>1 DEF Waiting
<1> QED BY <1>2, <1>3, <1>4, <1>5 DEF ExecutionInv, Told, Tallies

\* Every step keeps the tallies exact.
LEMMA TalliesStep == ExecutionInv /\ [ExecutionNext]_executionVars => Tallies'
<1> SUFFICES ASSUME ExecutionInv, [ExecutionNext]_executionVars PROVE Tallies'
  OBVIOUS
<1>0. Seats /\ Tallies
  BY DEF ExecutionInv, Types, Told
<1>t. lost \in Nat
  BY DEF ExecutionInv, Types
<1>b. ASSUME NEW a \in Actors, NEW l, NEW g \in Actors, NEW n, GotoBoth(a, l, g, n), a # g
      PROVE  \A b \in Actors : pc'[b] = IF b = g THEN n ELSE IF b = a THEN l ELSE pc[b]
  BY <1>0, <1>b, Zenon DEF GotoBoth, Seats
<1>n. /\ Cardinality(Launched) \in Nat /\ Cardinality(Over) \in Nat
      /\ Cardinality(Unstarted) \in Nat /\ Cardinality(Waiting) \in Nat
  BY TalliedSets, SetsOfVMs
<1>1. ASSUME NEW a \in Actors, NEW g \in Spawned, Spawn(a, g) PROVE Tallies'
  <2>0. g \in Actors /\ a # g
    BY <1>1, KindsOfVMs DEF Spawn
  <2>1. \A b \in Actors : pc'[b] = IF b = g THEN "registered" ELSE IF b = a THEN "spawning" ELSE pc[b]
    BY <1>b, <1>1, <2>0 DEF Spawn
  <2>2. g \notin Launched /\ Launched' = Launched \cup {g}
    BY <1>1, <2>1, KindsOfVMs DEF Spawn, Launched
  <2>3. g \notin Unstarted /\ Unstarted' = Unstarted \cup {g}
    BY <1>1, <2>1, KindsOfVMs DEF Spawn, Unstarted
  <2>4. Over' = Over
    BY <1>1, <2>1 DEF Spawn, Over
  <2>5. Waiting' = Waiting
    BY <1>1, <2>1 DEF Spawn, Waiting, Waits
  <2>6. /\ Cardinality(Launched') = Cardinality(Launched) + 1
        /\ Cardinality(Unstarted') = Cardinality(Unstarted) + 1
    BY <2>0, <2>2, <2>3, TalliedSets, SetsOfVMs
  <2>7. count' = count + 1 /\ unscheduled' = unscheduled + 1 /\ count + 1 <= MaxGoroutines
        /\ UNCHANGED <<counted, blocked, lost>>
    BY <1>1 DEF Spawn
  <2> QED BY <1>0, <1>n, <2>4, <2>5, <2>6, <2>7, GoroutinesAssumption DEF Tallies
<1>1l. ASSUME NEW a \in Actors, NEW g \in Spawned, Launch(a, g) PROVE Tallies'
  <2>0. g \in Actors /\ a # g
    BY <1>1l, KindsOfVMs DEF Launch
  <2>1. \A b \in Actors : pc'[b] = IF b = g THEN "unscheduled" ELSE IF b = a THEN "running" ELSE pc[b]
    BY <1>b, <1>1l, <2>0 DEF Launch
  <2>2. Launched' = Launched
    BY <1>1l, <2>1, KindsOfVMs DEF Launch, Launched
  <2>3. Unstarted' = Unstarted
    BY <1>1l, <2>1, KindsOfVMs DEF Launch, Unstarted
  <2>4. Over' = Over
    BY <1>1l, <2>1 DEF Launch, Over
  <2>5. Waiting' = Waiting
    BY <1>1l, <2>1 DEF Launch, Waiting, Waits
  <2> QED BY <1>0, <1>1l, <2>2, <2>3, <2>4, <2>5 DEF Launch, tracker, Tallies
<1>1a. ASSUME NEW a \in Actors, NEW g \in Spawned, Abandon(a, g) PROVE Tallies'
  <2>0. g \in Actors /\ a # g
    BY <1>1a, KindsOfVMs DEF Abandon
  <2>1. \A b \in Actors : pc'[b] = IF b = g THEN "done" ELSE IF b = a THEN "exiting" ELSE pc[b]
    BY <1>b, <1>1a, <2>0 DEF Abandon
  <2>2. g \in Launched /\ Launched' = Launched \ {g}
    BY <1>1a, <2>1, KindsOfVMs DEF Abandon, Launched
  <2>3. g \in Unstarted /\ Unstarted' = Unstarted \ {g}
    BY <1>1a, <2>1, KindsOfVMs DEF Abandon, Unstarted
  <2>4. Over' = Over
    BY <1>1a, <2>1 DEF Abandon, Over
  <2>5. Waiting' = Waiting
    BY <1>1a, <2>1 DEF Abandon, Waiting, Waits
  <2>6. /\ Cardinality(Launched') = Cardinality(Launched) - 1
        /\ Cardinality(Unstarted') = Cardinality(Unstarted) - 1
    BY <2>0, <2>2, <2>3, TalliedSets, SetsOfVMs
  <2>7. count' = count - 1 /\ unscheduled' = unscheduled - 1 /\ UNCHANGED <<counted, blocked, lost>>
    BY <1>1a DEF Abandon
  <2> QED BY <1>0, <1>n, <2>4, <2>5, <2>6, <2>7, GoroutinesAssumption DEF Tallies
<1>2. ASSUME NEW a \in Actors, SpawnOver(a) PROVE Tallies'
  <2>1. \A b \in Actors : pc'[b] = IF b = a THEN "overLimit" ELSE pc[b]
    BY <1>0, <1>2 DEF SpawnOver, Goto, Seats
  <2>2. a \notin Over /\ Over' = Over \cup {a}
    BY <1>2, <2>1 DEF SpawnOver, Over
  <2>3. Launched' = Launched
    BY <1>2, <2>1, KindsOfVMs DEF SpawnOver, Launched
  <2>4. Unstarted' = Unstarted
    BY <1>2, <2>1, KindsOfVMs DEF SpawnOver, Unstarted
  <2>5. Waiting' = Waiting
    BY <1>2, <2>1 DEF SpawnOver, Waiting, Waits
  <2>6. Cardinality(Over') = Cardinality(Over) + 1
    BY <2>2, TalliedSets, SetsOfVMs
  <2>7. count' = count + 1 /\ UNCHANGED <<counted, blocked, lost, unscheduled>>
    BY <1>2 DEF SpawnOver
  <2> QED BY <1>0, <1>n, <2>3, <2>4, <2>5, <2>6, <2>7 DEF Tallies
<1>3. ASSUME NEW a \in Actors, RejectSpawn(a) PROVE Tallies'
  <2>1. a \in Members
    BY <1>0, <1>3, KindsOfVMs DEF RejectSpawn, Seats, CallbackPlaces
  <2>2. \A b \in Actors : pc'[b] = IF b = a THEN "exiting" ELSE pc[b]
    BY <1>0, <1>3, <2>1 DEF RejectSpawn, Return, Leave, Goto, Seats
  <2>3. a \in Over /\ Over' = Over \ {a}
    BY <1>3, <2>2 DEF RejectSpawn, Over
  <2>4. Launched' = Launched
    BY <1>3, <2>2, KindsOfVMs DEF RejectSpawn, Launched
  <2>5. Unstarted' = Unstarted
    BY <1>3, <2>2, KindsOfVMs DEF RejectSpawn, Unstarted
  <2>6. Waiting' = Waiting
    BY <1>3, <2>2 DEF RejectSpawn, Waiting, Waits
  <2>7. Cardinality(Over') = Cardinality(Over) - 1
    BY <2>3, TalliedSets, SetsOfVMs
  <2>8. count' = count - 1 /\ UNCHANGED <<counted, blocked, lost, unscheduled>>
    BY <1>3 DEF RejectSpawn
  <2> QED BY <1>0, <1>n, <2>4, <2>5, <2>6, <2>7, <2>8 DEF Tallies
<1>4. ASSUME NEW g \in Spawned, Start(g) PROVE Tallies'
  <2>1. PICK l \in {"lock", "nativeBody"} : \A b \in Actors : pc'[b] = IF b = g THEN l ELSE pc[b]
    BY <1>0, <1>4 DEF Start, Goto, Seats
  <2>2. g \in Actors /\ g \in Unstarted /\ Unstarted' = Unstarted \ {g}
    BY <1>4, <2>1, KindsOfVMs DEF Start, Unstarted
  <2>3. Launched' = Launched
    BY <1>4, <2>1, KindsOfVMs DEF Start, Launched
  <2>4. Over' = Over
    BY <1>4, <2>1 DEF Start, Over
  <2>5. Waiting' = Waiting
    BY <1>4, <2>1 DEF Start, Waiting, Waits
  <2>6. Cardinality(Unstarted') = Cardinality(Unstarted) - 1
    BY <2>2, TalliedSets, SetsOfVMs
  <2>7. unscheduled' = unscheduled - 1 /\ UNCHANGED <<counted, blocked, lost, count>>
    BY <1>4 DEF Start
  <2> QED BY <1>0, <1>n, <2>3, <2>4, <2>5, <2>6, <2>7 DEF Tallies
<1>5. ASSUME NEW a \in Actors, Acquire(a) \/ Yield(a) \/ CallNative(a) \/ NativeReturns(a) PROVE Tallies'
  BY <1>5, QuietMove, KindsOfVMs DEF Acquire, Yield, CallNative, NativeReturns, tracker, Waits
<1>6. ASSUME NEW g \in Spawned, NativeBodyReturns(g) PROVE Tallies'
  BY <1>6, QuietMove, KindsOfVMs DEF NativeBodyReturns, tracker, Waits
<1>7. ASSUME NEW k \in Callbacks, CallbackFires(k) \/ CallbackReturns(k) PROVE Tallies'
  BY <1>7, QuietMove, KindsOfVMs DEF CallbackFires, CallbackReturns, tracker, Waits
<1>8. ASSUME NEW a \in Actors, NEW b \in Actors, Exchange(a, b) PROVE Tallies'
  BY <1>8, QuietMove, KindsOfVMs DEF Exchange, tracker, Waits
<1>9. ASSUME NEW a \in Actors, NEW o \in Operations, Enter(a, o) PROVE Tallies'
  <2>1. \A b \in Actors : /\ pc'[b] = IF b = a THEN "arming" ELSE pc[b]
                          /\ ops'[b] = IF b = a THEN o ELSE ops[b]
    BY <1>0, <1>9 DEF Enter, Goto, Seats, ExecutionInv, Types
  <2>2. Launched' = Launched
    BY <1>9, <2>1, KindsOfVMs DEF Enter, Launched
  <2>3. Unstarted' = Unstarted
    BY <1>9, <2>1, KindsOfVMs DEF Enter, Unstarted
  <2>4. Over' = Over
    <3>1. pc[a] = "running"
      BY <1>9 DEF Enter
    <3> QED BY <2>1, <3>1 DEF Over
  <2>5. a \notin Waiting
    BY <1>9 DEF Enter, Waiting, Waits
  <2>6. UNCHANGED <<count, unscheduled, lost>>
    BY <1>9 DEF Enter
  <2>7. CASE Countable(o)
    <3>0. \A b \in Actors : /\ b = a => Countable(ops'[b]) /\ pc'[b] \in Waits
                            /\ b # a => ops'[b] = ops[b] /\ pc'[b] = pc[b]
      BY <2>1, <2>7 DEF Waits
    <3>1. Waiting' = Waiting \cup {a}
      <4>1. Waiting' \subseteq Waiting \cup {a}
        BY <3>0, SMTT(20) DEF Waiting, Countable
      <4>2. Waiting \subseteq Waiting'
        BY <2>5, <3>0, SMTT(20) DEF Waiting, Countable
      <4>3. a \in Waiting'
        BY <3>0, SMTT(20) DEF Waiting, Countable
      <4> QED BY <4>1, <4>2, <4>3
    <3>2. Cardinality(Waiting') = Cardinality(Waiting) + 1
      BY <2>5, <3>1, TalliedSets, SetsOfVMs
    <3>3. blocked' = blocked + 1 /\ counted' = counted \cup {a}
      BY <1>9, <2>7 DEF Enter
    <3> QED BY <1>0, <1>t, <1>n, <2>2, <2>3, <2>4, <2>6, <3>1, <3>2, <3>3 DEF Tallies
  <2>8. CASE ~Countable(o)
    <3>1. Waiting' = Waiting
      BY <2>1, <2>5, <2>8 DEF Waiting, Waits, Countable
    <3>2. UNCHANGED <<blocked, counted>>
      BY <1>9, <2>8 DEF Enter
    <3> QED BY <1>0, <2>2, <2>3, <2>4, <2>6, <3>1, <3>2 DEF Tallies
  <2> QED BY <2>7, <2>8
<1>10. ASSUME NEW a \in Actors, Arm(a) PROVE Tallies'
  BY <1>10, QuietMove DEF Arm, Waits
<1>11. ASSUME NEW a \in Actors, NEW b \in Actors, Rendezvous(a, b) PROVE Tallies'
  <2>1. \A d \in Actors : pc'[d] = pc[d] \/ (pc[d] = "parked" /\ pc'[d] = "woken")
    BY <1>0, <1>11 DEF Rendezvous, GotoBoth, Seats
  <2>2. Launched' = Launched
    BY <2>1, KindsOfVMs DEF Launched
  <2>3. Unstarted' = Unstarted
    BY <2>1, KindsOfVMs DEF Unstarted
  <2>4. Over' = Over
    BY <2>1 DEF Over
  <2>5. Waiting' = Waiting
    BY <1>11, <2>1, ZenonT(30) DEF Rendezvous, Waiting, Waits
  <2> QED BY <1>0, <1>11, <2>2, <2>3, <2>4, <2>5, ZenonT(30) DEF Rendezvous, tracker, Tallies
<1>12. ASSUME NEW a \in Actors, Wake(a) PROVE Tallies'
  BY <1>12, QuietMove, KindsOfVMs DEF Wake, tracker, Waits
<1>13. ASSUME NEW a \in Actors, Resume(a) PROVE Tallies'
  <2>1. PICK l \in {"running", "exiting", "done"} :
           /\ \A b \in Actors : pc'[b] = IF b = a THEN l ELSE pc[b]
           /\ l = "done" => a \notin Members
    BY <1>0, <1>13, Zenon DEF Resume, Leave, Goto, Seats
  <2>2. \A b \in Actors : ops'[b] = IF b = a THEN EmptySelect ELSE ops[b]
    BY <1>13, ZenonT(30) DEF Resume, ExecutionInv, Types
  <2>3. Launched' = Launched
    BY <1>13, <2>1, KindsOfVMs, ZenonT(30) DEF Resume, Launched
  <2>4. Unstarted' = Unstarted
    BY <1>13, <2>1, KindsOfVMs, ZenonT(30) DEF Resume, Unstarted
  <2>5. Over' = Over
    BY <1>13, <2>1, ZenonT(30) DEF Resume, Over
  <2>6. Waiting' = Waiting \ {a}
    BY <2>1, <2>2 DEF Waiting, Waits
  <2>7. UNCHANGED <<count, unscheduled, lost>>
    BY <1>13, ZenonT(30) DEF Resume
  <2>8. CASE a \in counted
    <3>1. Cardinality(Waiting') = Cardinality(Waiting) - 1
      BY <1>0, <2>6, <2>8, TalliedSets, SetsOfVMs DEF Tallies
    <3>2. blocked' = blocked - 1 /\ counted' = counted \ {a}
      BY <1>13, <2>8, Zenon DEF Resume
    <3> QED BY <1>0, <1>t, <1>n, <2>3, <2>4, <2>5, <2>6, <2>7, <3>1, <3>2 DEF Tallies
  <2>9. CASE a \notin counted
    <3>1. Waiting' = Waiting
      BY <1>0, <2>6, <2>9 DEF Tallies
    <3>2. UNCHANGED <<blocked, counted>>
      BY <1>13, <2>9, Zenon DEF Resume
    <3> QED BY <1>0, <2>3, <2>4, <2>5, <2>7, <3>1, <3>2 DEF Tallies
  <2> QED BY <2>8, <2>9
<1>13p. ASSUME NEW a \in Actors, SelectPanics(a) PROVE Tallies'
  <2>1. PICK l \in {"running", "exiting", "done"} :
           /\ \A b \in Actors : pc'[b] = IF b = a THEN l ELSE pc[b]
           /\ l = "done" => a \notin Members
    BY <1>0, <1>13p, Zenon DEF SelectPanics, Return, Leave, Goto, Seats
  <2>2. \A b \in Actors : ops'[b] = IF b = a THEN EmptySelect ELSE ops[b]
    BY <1>13p, Zenon DEF SelectPanics, ExecutionInv, Types
  <2>3. Launched' = Launched
    BY <1>13p, <2>1, KindsOfVMs, ZenonT(30) DEF SelectPanics, Launched
  <2>4. Unstarted' = Unstarted
    BY <1>13p, <2>1, KindsOfVMs, ZenonT(30) DEF SelectPanics, Unstarted
  <2>5. Over' = Over
    BY <1>13p, <2>1, ZenonT(30) DEF SelectPanics, Over
  <2>6. Waiting' = Waiting \ {a}
    BY <2>1, <2>2 DEF Waiting, Waits
  <2>7. UNCHANGED <<count, unscheduled, blocked>>
    BY <1>13p, Zenon DEF SelectPanics
  <2>8. CASE a \in counted
    <3>1. Cardinality(Waiting') = Cardinality(Waiting) - 1
      BY <1>0, <2>6, <2>8, TalliedSets, SetsOfVMs DEF Tallies
    <3>2. lost' = lost + 1 /\ counted' = counted \ {a}
      BY <1>13p, <2>8, ZenonT(30) DEF SelectPanics
    <3> QED BY <1>0, <1>t, <1>n, <2>3, <2>4, <2>5, <2>6, <2>7, <3>1, <3>2 DEF Tallies
  <2>9. CASE a \notin counted
    <3>1. Waiting' = Waiting
      BY <1>0, <2>6, <2>9 DEF Tallies
    <3>2. lost' = lost /\ counted' = counted \ {a}
      BY <1>13p, <2>9, Zenon DEF SelectPanics
    <3> QED BY <1>0, <2>3, <2>4, <2>5, <2>6, <2>7, <3>1, <3>2 DEF Tallies
  <2> QED BY <2>8, <2>9
<1>14. ASSUME NEW a \in Actors, NEW o \in {"ok", "error", "cancelled"}, Finish(a, o) PROVE Tallies'
  BY <1>14, QuietMove DEF Finish, Return, Leave, tracker, Waits
<1>15. ASSUME NEW g \in Spawned, Record(g) PROVE Tallies'
  BY <1>15, QuietMove, KindsOfVMs, ZenonT(30) DEF Record, tracker, Waits
<1>16. ASSUME NEW g \in Spawned, ReleaseVM(g) PROVE Tallies'
  <2>1. g \in Actors /\ \A b \in Actors : pc'[b] = IF b = g THEN "done" ELSE pc[b]
    BY <1>0, <1>16, KindsOfVMs DEF ReleaseVM, Goto, Seats
  <2>2. g \in Launched /\ Launched' = Launched \ {g}
    BY <1>16, <2>1, KindsOfVMs DEF ReleaseVM, Launched
  <2>3. Unstarted' = Unstarted
    BY <1>16, <2>1, KindsOfVMs DEF ReleaseVM, Unstarted
  <2>4. Over' = Over
    BY <1>16, <2>1 DEF ReleaseVM, Over
  <2>5. Waiting' = Waiting
    BY <1>16, <2>1 DEF ReleaseVM, Waiting, Waits
  <2>6. Cardinality(Launched') = Cardinality(Launched) - 1
    BY <2>2, TalliedSets, SetsOfVMs
  <2>7. count' = count - 1 /\ UNCHANGED <<counted, blocked, lost, unscheduled>>
    BY <1>16 DEF ReleaseVM
  <2> QED BY <1>0, <1>n, <2>3, <2>4, <2>5, <2>6, <2>7, GoroutinesAssumption DEF Tallies
<1>17. ASSUME BeginJoin \/ EndJoin PROVE Tallies'
  BY <1>17, QuietMove, KindsOfVMs, ZenonT(30) DEF BeginJoin, EndJoin, tracker, Waits
<1>18. ASSUME Aside PROVE Tallies'
  BY <1>0, <1>18, ZenonT(30) DEF Tallies, Launched, Over, Waiting, Unstarted, Aside, CloseChannel,
     GraceElapses, HostCancels, Crash, executionVars, sched, tracker
<1> QED BY <1>1, <1>1l, <1>1a, <1>2, <1>3, <1>4, <1>5, <1>6, <1>7, <1>8, <1>9, <1>10, <1>11, <1>12,
           <1>13, <1>13p, <1>14, <1>15, <1>16, <1>17, <1>18, ZenonT(30) DEF ExecutionNext, Step, Aside
-----------------------------------------------------------------------------
\* Once the main goroutine has ended and no other is launched, no goroutine
\* of the program does anything any more; callbacks may.
LEMMA EndedStays ==
    ASSUME Types, [ExecutionNext]_executionVars, pc[Main] = "ended", Launched = {}
    PROVE  pc'[Main] = "ended" /\ Launched' = {} /\ \A g \in Spawned : outcome'[g] = outcome[g]
<1>1. \A b \in Members : pc[b] \in {"none", "done", "ended"}
  BY KindsOfVMs DEF Launched
<1>2. ASSUME NEW b \in Members PROVE pc'[b] = pc[b] /\ outcome'[b] = outcome[b]
  BY <1>1, StepMoves, KindsOfVMs DEF Keeps, Rests, Moves, Launches, Fires, GoesOn, Drops, Ends, Records,
     Releases, Joins, Busy
<1> QED BY <1>1, <1>2, KindsOfVMs, ZenonT(30) DEF Launched

\* The join returns what it should: every step keeps it so.
LEMMA JoinedStep == ExecutionInv /\ [ExecutionNext]_executionVars => Joined'
<1> SUFFICES ASSUME ExecutionInv, [ExecutionNext]_executionVars PROVE Joined'
  OBVIOUS
<1>0. Types /\ Seats /\ Joined /\ Tallies /\ Recorded'
  BY RecordedStep DEF ExecutionInv, Types, Told, Joined
<1>1. CASE EndJoin
  <2>1. pc'[Main] = "ended" /\ \A g \in Spawned : pc'[g] = pc[g]
    BY <1>0, <1>1, KindsOfVMs DEF EndJoin, Goto, Seats
  <2>2. Launched' = Launched /\ outcome' = outcome
    BY <1>1, <2>1, ZenonT(30) DEF EndJoin, Launched
  <2>3. count = 0 => Launched = {}
    BY <1>0, TalliedSets, SetsOfVMs DEF Tallies
  <2>4. count = 0 /\ ~panicked => \A g \in Spawned : outcome[g] # "error"
    BY <1>0, <2>3 DEF Joined, Recorded, Launched
  <2> QED BY <1>0, <1>1, <2>1, <2>2, <2>3, <2>4 DEF EndJoin, Joined
<1>2. CASE UNCHANGED <<arena, result>>
  BY <1>0, <1>2, EndedStays DEF Joined
<1>3. EndJoin \/ arena' = arena
  BY ZenonT(60) DEF ExecutionNext, Step, Spawn, Launch, Abandon, SpawnOver, RejectSpawn, Start, Acquire, Yield,
     CallNative, NativeReturns, NativeBodyReturns, CallbackFires, CallbackReturns, Exchange,
     CloseChannel, Enter, Arm, Rendezvous, Wake, Resume, SelectPanics, Crash, GraceElapses, Finish, Record,
     ReleaseVM, BeginJoin, HostCancels, env, world, executionVars
<1>4. EndJoin \/ result' = result
  BY ZenonT(60) DEF ExecutionNext, Step, Spawn, Launch, Abandon, SpawnOver, RejectSpawn, Start, Acquire, Yield,
     CallNative, NativeReturns, NativeBodyReturns, CallbackFires, CallbackReturns, Exchange,
     CloseChannel, Enter, Arm, Rendezvous, Wake, Resume, SelectPanics, Crash, GraceElapses, Finish, Record,
     ReleaseVM, BeginJoin, HostCancels, env, world, executionVars
<1> QED BY <1>1, <1>2, <1>3, <1>4

-----------------------------------------------------------------------------
Owner == \A a \in Members : pc[a] \in Inside => gil = a

\* The mode is the execution's, and a select that has panicked has.
LEMMA TornStays == [ExecutionNext]_executionVars => safe' = safe /\ (~torn' => ~torn)
<1> SUFFICES ASSUME [ExecutionNext]_executionVars PROVE safe' = safe /\ (~torn' => ~torn)
  OBVIOUS
<1>1. safe' = safe
  BY ZenonT(40) DEF ExecutionNext, Step, Spawn, Launch, Abandon, SpawnOver, RejectSpawn, Start,
     Acquire, Yield, CallNative, NativeReturns, NativeBodyReturns, CallbackFires, CallbackReturns,
     Exchange, CloseChannel, Enter, Arm, Rendezvous, Wake, Resume, SelectPanics, Crash, GraceElapses,
     Finish, Record, ReleaseVM, BeginJoin, EndJoin, HostCancels, env, world, executionVars
<1>2. torn' \/ UNCHANGED torn
  BY ZenonT(40) DEF ExecutionNext, Step, Spawn, Launch, Abandon, SpawnOver, RejectSpawn, Start,
     Acquire, Yield, CallNative, NativeReturns, NativeBodyReturns, CallbackFires, CallbackReturns,
     Exchange, CloseChannel, Enter, Arm, Rendezvous, Wake, Resume, SelectPanics, Crash, GraceElapses,
     Finish, Record, ReleaseVM, BeginJoin, EndJoin, HostCancels, env, world, executionVars
<1> QED BY <1>1, <1>2

\* Only a select that panics loses a token, and nobody unlocks the lock of safe
\* mode twice before one has.
LEMMA IntactStep == ExecutionInv /\ [ExecutionNext]_executionVars => Intact'
<1> SUFFICES ASSUME ExecutionInv, [ExecutionNext]_executionVars, ~torn' PROVE ~(lost' > 0 \/ crashed')
  BY DEF Intact
<1>1. ~torn /\ ~(lost > 0 \/ crashed)
  BY TornStays, Zenon DEF ExecutionInv, Told, Intact
<1>2. ASSUME NEW a \in Actors, Crash(a) PROVE FALSE
  <2>1. a \in Members /\ safe /\ gil = Free /\ pc[a] \in Inside
    BY <1>2, ZenonT(30) DEF Crash, UsesLock, Inside
  <2>2. gil = a
    BY <1>1, <2>1, ZenonT(30) DEF ExecutionInv, Told, Locked
  <2> QED BY <2>1, <2>2, KindsOfVMs, Zenon
<1>3. UNCHANGED <<lost, crashed>>
  BY <1>2, ZenonT(60) DEF ExecutionNext, Step, Spawn, Launch, Abandon, SpawnOver, RejectSpawn, Start,
     Acquire, Yield, CallNative, NativeReturns, NativeBodyReturns, CallbackFires, CallbackReturns,
     Exchange, CloseChannel, Enter, Arm, Rendezvous, Wake, Resume, SelectPanics, GraceElapses, Finish,
     Record, ReleaseVM, BeginJoin, EndJoin, HostCancels, tracker, env, world, executionVars
<1> QED BY <1>1, <1>3, Zenon

\* In safe mode a VM that gives the lock up holds it or finds it free, and one
\* that takes it finds it free: nobody else is inside.
LEMMA OwnerMove ==
    ASSUME ExecutionInv, safe, ~torn, NEW a \in Actors, NEW l, Goto(a, l),
           \/ UNCHANGED gil /\ (l \in Inside /\ a \in Members => pc[a] \in Inside)
           \/ Lock(a)
           \/ Unlock(a) /\ l \notin Inside /\ (a \in Members => gil = Free \/ pc[a] \in Inside)
    PROVE  Owner'
<1>1. \A b \in Actors : pc'[b] = IF b = a THEN l ELSE pc[b]
  BY DEF ExecutionInv, Types, Seats, Goto
<1>2. Owner
  BY DEF ExecutionInv, Told, Locked, Owner, Inside
<1>3. CASE UNCHANGED gil /\ (l \in Inside /\ a \in Members => pc[a] \in Inside)
  BY <1>1, <1>2, <1>3, KindsOfVMs DEF Owner
<1>4. CASE Lock(a)
  BY <1>1, <1>2, <1>4, KindsOfVMs DEF Owner, Lock, UsesLock
<1>5. CASE Unlock(a) /\ l \notin Inside /\ (a \in Members => gil = Free \/ pc[a] \in Inside)
  BY <1>1, <1>2, <1>5, KindsOfVMs DEF Owner, Unlock, UsesLock
<1> QED BY <1>3, <1>4, <1>5

\* Every step leaves at most one VM inside in safe mode.
LEMMA OwnerStep == ExecutionInv /\ safe /\ ~torn' /\ [ExecutionNext]_executionVars => Owner'
<1> SUFFICES ASSUME ExecutionInv, safe, ~torn, ~torn', [ExecutionNext]_executionVars PROVE Owner'
  BY TornStays, ZenonT(30)
<1>0. Seats /\ Owner
  BY DEF ExecutionInv, Types, Told, Locked, Owner, Inside
<1>r. ASSUME NEW a \in Actors, NEW o, Return(a, o), a \in Members => gil = Free \/ pc[a] \in Inside
      PROVE  Owner'
  BY <1>r, OwnerMove DEF Return, Leave, Inside
<1>b. ASSUME NEW a \in Actors, NEW l, NEW g \in Actors, NEW n, GotoBoth(a, l, g, n), a # g
      PROVE  \A b \in Actors : pc'[b] = IF b = g THEN n ELSE IF b = a THEN l ELSE pc[b]
  BY <1>0, <1>b, Zenon DEF GotoBoth, Seats
<1>1. ASSUME NEW a \in Actors, NEW g \in Spawned, Spawn(a, g) \/ Launch(a, g) PROVE Owner'
  <2>0. g \in Actors /\ a # g
    BY <1>1, KindsOfVMs DEF Spawn, Launch
  <2>1. PICK l \in {"spawning", "running"}, n \in {"registered", "unscheduled"} :
           \A b \in Actors : pc'[b] = IF b = g THEN n ELSE IF b = a THEN l ELSE pc[b]
    <3>1. GotoBoth(a, "spawning", g, "registered") \/ GotoBoth(a, "running", g, "unscheduled")
      BY <1>1, ZenonT(30) DEF Spawn, Launch
    <3>2. CASE GotoBoth(a, "spawning", g, "registered")
      BY <1>b, <2>0, <3>2
    <3>3. CASE GotoBoth(a, "running", g, "unscheduled")
      BY <1>b, <2>0, <3>3
    <3> QED BY <3>1, <3>2, <3>3
  <2>2. pc[a] \in Inside /\ gil' = gil
    BY <1>1 DEF Spawn, Launch, Inside
  <2> QED BY <1>0, <2>1, <2>2, KindsOfVMs DEF Owner, Inside
<1>1a. ASSUME NEW a \in Actors, NEW g \in Spawned, Abandon(a, g) PROVE Owner'
  <2>0. g \in Actors /\ a # g /\ a \in Members /\ gil = a
    BY <1>0, <1>1a, KindsOfVMs DEF Abandon, Seats, CallbackPlaces, Owner, Inside
  <2>1. \A b \in Actors : pc'[b] = IF b = g THEN "done" ELSE IF b = a THEN "exiting" ELSE pc[b]
    <3>1. GotoBoth(a, "exiting", g, "done")
      BY <1>1a, Zenon DEF Abandon
    <3> QED BY <1>b, <2>0, <3>1
  <2>2. \A b \in Members : b # a => pc[b] \notin Inside
    BY <1>0, <2>0 DEF Owner
  <2> QED BY <2>1, <2>2, KindsOfVMs DEF Owner, Inside
<1>2. ASSUME NEW a \in Actors, SpawnOver(a) PROVE Owner'
  BY <1>2, OwnerMove, KindsOfVMs DEF SpawnOver, Inside
<1>3. ASSUME NEW a \in Actors, RejectSpawn(a) PROVE Owner'
  BY <1>3, <1>r DEF RejectSpawn, Inside
<1>4. ASSUME NEW g \in Spawned, Start(g) PROVE Owner'
  BY <1>4, OwnerMove, KindsOfVMs, SMTT(20) DEF Start, Inside
<1>5. ASSUME NEW a \in Actors, Acquire(a) \/ Yield(a) \/ CallNative(a) \/ NativeReturns(a) PROVE Owner'
  BY <1>5, OwnerMove, KindsOfVMs, ZenonT(30) DEF Acquire, Yield, CallNative, NativeReturns, Inside
<1>6. ASSUME NEW g \in Spawned, NativeBodyReturns(g) PROVE Owner'
  BY <1>6, OwnerMove, KindsOfVMs DEF NativeBodyReturns, Inside
<1>7. ASSUME NEW k \in Callbacks, CallbackFires(k) \/ CallbackReturns(k) PROVE Owner'
  BY <1>7, OwnerMove, KindsOfVMs, ZenonT(30) DEF CallbackFires, CallbackReturns, Inside
<1>8. ASSUME NEW a \in Actors, NEW b \in Actors, Exchange(a, b) PROVE Owner'
  BY <1>8, OwnerMove, KindsOfVMs, ZenonT(30) DEF Exchange, Inside
<1>9. ASSUME NEW a \in Actors, NEW o \in Operations, Enter(a, o) PROVE Owner'
  BY <1>9, OwnerMove, KindsOfVMs, SMTT(20) DEF Enter, Inside
<1>10. ASSUME NEW a \in Actors, Arm(a) PROVE Owner'
  BY <1>10, OwnerMove, KindsOfVMs, ZenonT(30) DEF Arm, Inside
<1>11. ASSUME NEW a \in Actors, NEW b \in Actors, Rendezvous(a, b) PROVE Owner'
  <2>1. \A d \in Actors : pc'[d] = pc[d] \/ pc'[d] = "woken"
    BY <1>0, <1>11 DEF Rendezvous, GotoBoth, Seats
  <2> QED BY <1>0, <1>11, <2>1, KindsOfVMs, ZenonT(30) DEF Rendezvous, Owner, Inside
<1>12. ASSUME NEW a \in Actors, Wake(a) PROVE Owner'
  BY <1>12, OwnerMove, KindsOfVMs DEF Wake, Inside
<1>13. ASSUME NEW a \in Actors, Resume(a) PROVE Owner'
  <2>1. CASE Lock(a) /\ Goto(a, "running")
    BY <2>1, OwnerMove, Zenon
  <2>2. ASSUME NEW o, Leave(a, o), UNCHANGED gil PROVE Owner'
    BY <2>2, OwnerMove DEF Leave, Inside
  <2> QED BY <1>13, <2>1, <2>2, ZenonT(30) DEF Resume
<1>13p. ASSUME NEW a \in Actors, SelectPanics(a) PROVE Owner'
  BY <1>13p, ZenonT(30) DEF SelectPanics
<1>14. ASSUME NEW a \in Actors, NEW o \in {"ok", "error", "cancelled"}, Finish(a, o) PROVE Owner'
  BY <1>14, <1>r, SMTT(20) DEF Finish, Inside
<1>15. ASSUME NEW g \in Spawned, Record(g) PROVE Owner'
  BY <1>15, OwnerMove, KindsOfVMs, ZenonT(30) DEF Record, Inside
<1>16. ASSUME NEW g \in Spawned, ReleaseVM(g) PROVE Owner'
  BY <1>16, OwnerMove, KindsOfVMs DEF ReleaseVM, Inside
<1>17. ASSUME BeginJoin \/ EndJoin PROVE Owner'
  BY <1>17, OwnerMove, KindsOfVMs, ZenonT(30) DEF BeginJoin, EndJoin, Inside
<1>18. ASSUME Aside PROVE Owner'
  BY <1>0, <1>18, ZenonT(30) DEF Aside, CloseChannel, GraceElapses, HostCancels, Crash, executionVars,
     sched, Owner
<1> QED BY <1>1, <1>1a, <1>2, <1>3, <1>4, <1>5, <1>6, <1>7, <1>8, <1>9, <1>10, <1>11, <1>12,
           <1>13, <1>13p, <1>14, <1>15, <1>16, <1>17, <1>18, ZenonT(30) DEF ExecutionNext, Step, Aside

\* Every step keeps the tally a VM saw, until it compares it.
LEMMA LockedStep == ExecutionInv /\ [ExecutionNext]_executionVars => Locked'
<1> SUFFICES ASSUME ExecutionInv, [ExecutionNext]_executionVars, safe', ~torn' PROVE Locked'
  BY DEF Locked
<1> DEFINE Current == \A a \in Members : pc[a] = "arming" /\ a \in counted => seen[a] = blocked
<1>0. Seats /\ Types
  BY DEF ExecutionInv, Types
<1>s. safe /\ ~torn
  BY TornStays, ZenonT(30)
<1>o. Owner'
  BY <1>s, OwnerStep
<1>c. ASSUME Untouched' PROVE Current'
  <2>0. Untouched /\ Current /\ Owner
    BY <1>s, <1>c, UntouchedBefore DEF ExecutionInv, Told, Locked, Owner, Inside
  <2>1. ASSUME NEW a \in Actors, NEW o \in Operations, Enter(a, o) PROVE Current'
    <3>1. \A b \in Actors : pc'[b] = IF b = a THEN "arming" ELSE pc[b]
      BY <1>0, <2>1 DEF Enter, Goto, Seats
    <3>2. a \in Members
      BY <2>0, <2>1, KindsOfVMs DEF Untouched, Enter
    <3>3. \A b \in Members : b # a => pc[b] # "arming"
      BY <2>0, <2>1, <3>2 DEF Owner, Inside, Enter
    <3>4. a \notin counted
      BY <2>1 DEF Enter, ExecutionInv, Told, Tallies, Waiting, Waits
    <3>5. a \in counted' => seen'[a] = blocked'
      BY <1>0, <2>1, <3>4, SMTT(20) DEF Enter, Types
    <3> QED BY <3>1, <3>3, <3>5, KindsOfVMs
  <2>2. ASSUME NEW a \in Actors, Arm(a) PROVE Current'
    <3>1. \A b \in Actors : /\ pc'[b] = IF b = a THEN "parked" ELSE pc[b]
                            /\ seen'[b] = IF b = a THEN 0 ELSE seen[b]
      BY <1>0, <2>2, ZenonT(30) DEF Arm, Goto, Seats, Types
    <3> QED BY <2>0, <2>2, <3>1, KindsOfVMs, ZenonT(30) DEF Arm
  <2>3. ASSUME NEW a \in Actors, Resume(a) PROVE Current'
    <3>1. a \in Members
      BY <2>0, <2>3, KindsOfVMs, Zenon DEF Untouched, Resume
    <3>2. gil = Free
      BY <1>s, <2>3, <3>1, ZenonT(30) DEF Resume, UsesLock
    <3>3. \A b \in Members : pc[b] # "arming"
      BY <2>0, <3>2, KindsOfVMs DEF Owner, Inside
    <3>4. \A b \in Actors : b # a => pc'[b] = pc[b]
      BY <1>0, <2>3, Zenon DEF Resume, Leave, Goto, Seats
    <3>5. pc'[a] # "arming"
      BY <1>0, <2>3, ZenonT(30) DEF Resume, Leave, Goto, Seats
    <3> QED BY <3>3, <3>4, <3>5, KindsOfVMs
  <2>4. ASSUME UNCHANGED <<seen, blocked, counted>>, \A b \in Actors : pc'[b] = "arming" => pc[b] = "arming"
        PROVE  Current'
    BY <2>0, <2>4, KindsOfVMs
  <2>5. \/ \E a \in Actors : (\E o \in Operations : Enter(a, o)) \/ Arm(a) \/ Resume(a)
        \/ UNCHANGED <<seen, blocked, counted>> /\ \A b \in Actors : pc'[b] = "arming" => pc[b] = "arming"
    <3> DEFINE Calm == UNCHANGED <<seen, blocked, counted>>
                          /\ \A b \in Actors : pc'[b] = "arming" => pc[b] = "arming"
    <3>1. ASSUME NEW a \in Actors, NEW g \in Spawned, Spawn(a, g) \/ Launch(a, g) \/ Abandon(a, g)
          PROVE  Calm
      BY <1>0, <3>1, KindsOfVMs DEF Spawn, Launch, Abandon, GotoBoth, Seats, tracker
    <3>2. ASSUME NEW a \in Actors, SpawnOver(a) PROVE Calm
      BY <1>0, <3>2, KindsOfVMs DEF SpawnOver, Goto, Seats, tracker
    <3>3. ASSUME NEW a \in Actors, RejectSpawn(a) PROVE Calm
      BY <1>0, <3>3 DEF RejectSpawn, Return, Leave, Goto, Seats, tracker
    <3>4. ASSUME NEW g \in Spawned, Start(g) PROVE Calm
      BY <1>0, <3>4, KindsOfVMs DEF Start, Goto, Seats, tracker
    <3>5. ASSUME NEW a \in Actors, Acquire(a) \/ Yield(a) \/ CallNative(a) \/ NativeReturns(a) PROVE Calm
      BY <1>0, <3>5, KindsOfVMs DEF Acquire, Yield, CallNative, NativeReturns, Goto, Seats, tracker
    <3>6. ASSUME NEW g \in Spawned, NativeBodyReturns(g) PROVE Calm
      BY <1>0, <3>6, KindsOfVMs DEF NativeBodyReturns, Goto, Seats, tracker
    <3>7. ASSUME NEW k \in Callbacks, CallbackFires(k) \/ CallbackReturns(k) PROVE Calm
      BY <1>0, <3>7, KindsOfVMs DEF CallbackFires, CallbackReturns, Goto, Seats, tracker
    <3>8. ASSUME NEW a \in Actors, NEW b \in Actors, Exchange(a, b) PROVE Calm
      BY <1>0, <3>8, KindsOfVMs DEF Exchange, Goto, Seats, tracker
    <3>11. ASSUME NEW a \in Actors, NEW b \in Actors, Rendezvous(a, b) PROVE Calm
      BY <1>0, <3>11, KindsOfVMs DEF Rendezvous, GotoBoth, Seats, tracker
    <3>12. ASSUME NEW a \in Actors, Wake(a) PROVE Calm
      BY <1>0, <3>12, KindsOfVMs, ZenonT(30) DEF Wake, Goto, Seats, tracker
    <3>13. ASSUME NEW a \in Actors, SelectPanics(a) PROVE Calm
      BY <3>13, ZenonT(30) DEF SelectPanics
    <3>14. ASSUME NEW a \in Actors, NEW o \in {"ok", "error", "cancelled"}, Finish(a, o) PROVE Calm
      BY <1>0, <3>14 DEF Finish, Return, Leave, Goto, Seats, tracker
    <3>15. ASSUME NEW g \in Spawned, Record(g) PROVE Calm
      BY <1>0, <3>15, KindsOfVMs DEF Record, Goto, Seats, tracker
    <3>16. ASSUME NEW g \in Spawned, ReleaseVM(g) PROVE Calm
      BY <1>0, <3>16, KindsOfVMs DEF ReleaseVM, Goto, Seats, tracker
    <3>17. ASSUME BeginJoin \/ EndJoin PROVE Calm
      BY <1>0, <3>17, KindsOfVMs, ZenonT(30) DEF BeginJoin, EndJoin, Goto, Seats, tracker
    <3>18. ASSUME Aside PROVE Calm
      BY <3>18, ZenonT(30) DEF Aside, CloseChannel, GraceElapses, HostCancels, Crash, executionVars, sched,
         tracker, env, world
    <3> QED BY <3>1, <3>2, <3>3, <3>4, <3>5, <3>6, <3>7, <3>8, <3>11, <3>12,
               <3>13, <3>14, <3>15, <3>16, <3>17, <3>18, ZenonT(30) DEF ExecutionNext, Step, Aside
  <2> QED BY <2>1, <2>2, <2>3, <2>4, <2>5, ZenonT(30)
<1> QED BY <1>s, <1>o, <1>c DEF Locked, Owner, Inside
-----------------------------------------------------------------------------
\* The detector's comparison is right but for the lost tokens: when no callback
\* has entered and the tally is past the count, the goroutines of the program that
\* are not counted are no more than those.
LEMMA AllCounted ==
    ASSUME ExecutionInv, Untouched, blocked >= count + 1
    PROVE  Cardinality(Live \ counted) <= lost /\ (~torn => Live \subseteq counted)
<1>0. Tallies /\ Seats /\ lost \in Nat
  BY DEF ExecutionInv, Types, Told
<1>1. counted \subseteq Live
  BY <1>0, KindsOfVMs DEF Tallies, Waiting, Waits, Untouched, Live, Launched, Seats
<1>2. /\ Launched \subseteq Actors /\ Over \subseteq Actors /\ Live \subseteq Actors
      /\ Main \in Actors /\ Main \notin Launched
  BY KindsOfVMs DEF Live, Launched, Over
<1>3. /\ Cardinality(Launched) \in Nat /\ Cardinality(Over) \in Nat /\ Cardinality(Live) \in Nat
      /\ Cardinality(Launched \cup {Main}) = Cardinality(Launched) + 1
      /\ IsFiniteSet(Live)
  BY <1>2, SetsOfVMs
<1>4. pc[Main] = "ended" => Cardinality(Live) = Cardinality(Launched)
  BY DEF Live
<1>5. Cardinality(Live) <= Cardinality(Launched) + 1
  BY <1>3, <1>4 DEF Live
<1>6. Cardinality(counted) \in Nat /\ Cardinality(counted) + lost >= Cardinality(Launched) + 1
  BY <1>0, <1>3, TalliedSets, SetsOfVMs DEF Tallies
<1>7. Cardinality(Live \ counted) = Cardinality(Live) - Cardinality(counted)
  <2>1. Live \cap counted = counted
    BY <1>1
  <2>2. Cardinality(Live \ counted) = Cardinality(Live) - Cardinality(Live \cap counted)
    BY <1>3, FS_Difference, ZenonT(30)
  <2> QED BY <2>1, <2>2, Zenon
<1>8. Cardinality(Live \ counted) <= lost
  BY <1>0, <1>3, <1>5, <1>6, <1>7
<1>9. ASSUME ~torn PROVE Live \subseteq counted
  <2>1. lost = 0
    BY <1>0, <1>9 DEF ExecutionInv, Told, Intact
  <2>2. Live \ counted \in SUBSET Actors
    BY <1>2
  <2>3. Cardinality(Live \ counted) = 0
    BY <1>8, <2>1, <2>2, SetsOfVMs
  <2> QED BY <2>2, <2>3, SetsOfVMs
<1> QED BY <1>8, <1>9

\* While all goroutines of the program are parked or woken, nobody starts to be
\* due: a goroutine is woken only when it was due.
LEMMA DueShrinks ==
    ASSUME ExecutionInv, [ExecutionNext]_executionVars, Untouched', ~torn', cause' = "none", cause = "none",
           Live \subseteq counted, \A a \in Live : pc[a] # "arming",
           \A a \in counted : ~Resume(a)
    PROVE  /\ Live' \subseteq counted' /\ \A a \in Live' : pc'[a] # "arming"
           /\ Due' \subseteq Due /\ timers' \subseteq timers
<1> DEFINE Goal == /\ Live' \subseteq counted' /\ \A a \in Live' : pc'[a] # "arming"
                   /\ Due' \subseteq Due /\ timers' \subseteq timers
<1> SUFFICES Goal
  OBVIOUS
<1>0. Seats /\ Tallies /\ Untouched
  BY UntouchedBefore DEF ExecutionInv, Types, Told
<1>1. \A a \in Actors : pc[a] \in {"none", "done", "ended", "idle", "parked", "woken"}
  <2>1. \A a \in Live : pc[a] \in {"parked", "woken"}
    BY <1>0, SMTT(20) DEF Tallies, Waiting, Waits
  <2>2. \A a \in Actors : a \in Live \/ pc[a] \in {"none", "done", "ended", "idle"}
    BY <1>0, KindsOfVMs, ZenonT(30) DEF Live, Launched, Untouched
  <2> QED BY <2>1, <2>2
<1>2. \A a \in Actors : pc[a] \in {"parked", "woken"} => a \in Members /\ a \in Live
  BY <1>0, KindsOfVMs DEF Untouched, Live, Launched
<1>w. ASSUME \A d \in Actors : pc'[d] = pc[d] \/ (pc[d] = "parked" /\ pc'[d] = "woken" /\ Completes(d)),
             UNCHANGED <<ops, deaf, panicked, closed, counted>>, timers' \subseteq timers
      PROVE  Goal
  <2>1. Live' = Live
    BY <1>w, KindsOfVMs, ZenonT(30) DEF Live, Launched
  <2>2. ASSUME NEW a \in Due' PROVE a \in Due
    <3>1. a \in Actors
      BY DEF Due
    <3>2. CASE pc'[a] \in {"woken", "arming"}
      BY <1>w, <3>1, <3>2 DEF Due
    <3>3. CASE Completes(a)'
      <4>1. pc[a] = "parked"
        BY <1>w, <3>1, <3>3, ZenonT(30) DEF Completes
      <4>2. \A b \in Actors : pc'[b] = "parked" => pc[b] = "parked"
        BY <1>w
      <4>3. Completes(a)
        BY <1>w, <3>3, <4>1, <4>2, ZenonT(30) DEF Completes, OnClosed
      <4> QED BY <3>1, <4>3 DEF Due
    <3> QED BY <3>2, <3>3 DEF Due
  <2>3. \A a \in Live' : pc'[a] # "arming"
    BY <1>w, <2>1, KindsOfVMs, ZenonT(40) DEF Live, Launched
  <2> QED BY <1>w, <2>1, <2>2, <2>3, SMTT(20)
<1>101. ASSUME NEW a \in Actors, NEW g \in Spawned, Spawn(a, g) \/ Launch(a, g) \/ Abandon(a, g)
        PROVE  Goal
  BY <1>1, <1>101, KindsOfVMs, ZenonT(40) DEF Spawn, Launch, Abandon
<1>102. ASSUME NEW a \in Actors, SpawnOver(a) PROVE Goal
  BY <1>1, <1>102, KindsOfVMs, ZenonT(40) DEF SpawnOver
<1>103. ASSUME NEW a \in Actors, RejectSpawn(a) PROVE Goal
  BY <1>1, <1>103, KindsOfVMs, ZenonT(30) DEF RejectSpawn
<1>104. ASSUME NEW g \in Spawned, Start(g) PROVE Goal
  BY <1>1, <1>104, KindsOfVMs, ZenonT(30) DEF Start
<1>105. ASSUME NEW a \in Actors, Acquire(a) \/ Yield(a) \/ CallNative(a) \/ NativeReturns(a) PROVE Goal
  BY <1>1, <1>105, KindsOfVMs, ZenonT(30) DEF Acquire, Yield, CallNative, NativeReturns
<1>106. ASSUME NEW g \in Spawned, NativeBodyReturns(g) PROVE Goal
  BY <1>1, <1>106, KindsOfVMs DEF NativeBodyReturns
<1>107. ASSUME NEW k \in Callbacks, CallbackFires(k) \/ CallbackReturns(k) PROVE Goal
  <2>1. pc'[k] = "running"
    BY <1>0, <1>1, <1>107, KindsOfVMs DEF CallbackFires, CallbackReturns, Goto, Seats
  <2> QED BY <2>1 DEF Untouched
<1>108. ASSUME NEW a \in Actors, NEW b \in Actors, Exchange(a, b) PROVE Goal
  BY <1>1, <1>108, KindsOfVMs, ZenonT(40) DEF Exchange
<1>109. ASSUME NEW a \in Actors, NEW o \in Operations, Enter(a, o) PROVE Goal
  BY <1>1, <1>109, KindsOfVMs, ZenonT(30) DEF Enter
<1>110. ASSUME NEW a \in Actors, Arm(a) PROVE Goal
  BY <1>1, <1>110, KindsOfVMs, ZenonT(30) DEF Arm
<1>111. ASSUME NEW a \in Actors, NEW b \in Actors, Rendezvous(a, b) PROVE Goal
  <2>1. Completes(a) /\ Completes(b)
    BY <1>111, ZenonT(30) DEF Rendezvous, Completes, Meets
  <2>2. \A d \in Actors : pc'[d] = pc[d] \/ (pc[d] = "parked" /\ pc'[d] = "woken" /\ Completes(d))
    BY <1>0, <1>111, <2>1 DEF Rendezvous, GotoBoth, Seats
  <2> QED BY <1>w, <1>111, <2>2, ZenonT(30) DEF Rendezvous, tracker, env, world
<1>112. ASSUME NEW a \in Actors, Wake(a) PROVE Goal
  <2>1. a \in counted /\ Countable(ops[a])
    BY <1>0, <1>2, <1>112, Zenon DEF Wake, Tallies, Waiting
  <2>2. \A d \in {"send", "recv"} : <<d, ForeignChan>> \notin ops[a].cases
    BY <2>1, GoroutinesAssumption, Zenon DEF Countable
  <2>3. Completes(a)
    BY <1>112, <2>2, ZenonT(30) DEF Wake, Completes, OnClosed
  <2>4. \A d \in Actors : pc'[d] = pc[d] \/ (pc[d] = "parked" /\ pc'[d] = "woken" /\ Completes(d))
    BY <1>0, <1>112, <2>3, ZenonT(30) DEF Wake, Goto, Seats
  <2> QED BY <1>w, <1>112, <2>4, ZenonT(30) DEF Wake, tracker, env, world
<1>113. ASSUME NEW a \in Actors, Resume(a) PROVE Goal
  BY <1>0, <1>2, <1>113, ZenonT(30) DEF Resume
<1>113p. ASSUME NEW a \in Actors, SelectPanics(a) PROVE Goal
  BY <1>113p, ZenonT(30) DEF SelectPanics
<1>114. ASSUME NEW a \in Actors, NEW o \in {"ok", "error", "cancelled"}, Finish(a, o) PROVE Goal
  BY <1>1, <1>114, KindsOfVMs DEF Finish
<1>115. ASSUME NEW g \in Spawned, Record(g) PROVE Goal
  BY <1>1, <1>115, KindsOfVMs, ZenonT(30) DEF Record
<1>116. ASSUME NEW g \in Spawned, ReleaseVM(g) PROVE Goal
  BY <1>1, <1>116, KindsOfVMs, ZenonT(30) DEF ReleaseVM
<1>117. ASSUME BeginJoin \/ EndJoin PROVE Goal
  BY <1>1, <1>117, KindsOfVMs, Zenon DEF BeginJoin, EndJoin
<1>118. ASSUME Aside PROVE Goal
  <2>1. CASE \E a \in Actors, c \in Chans : CloseChannel(a, c)
    BY <1>1, <2>1, ZenonT(30) DEF CloseChannel
  <2>2. CASE UNCHANGED <<pc, ops, deaf, panicked, closed, counted>> /\ timers' \subseteq timers
    BY <1>w, <2>2, SMTT(20)
  <2> QED BY <1>118, <2>1, <2>2, ZenonT(30) DEF Aside, GraceElapses, HostCancels, Crash, executionVars,
       sched, tracker, env, world
<1> QED BY <1>101, <1>102, <1>103, <1>104, <1>105, <1>106, <1>107, <1>108, <1>109, <1>110, <1>111,
           <1>112, <1>113, <1>113p, <1>114, <1>115, <1>116, <1>117, <1>118, ZenonT(30) DEF ExecutionNext, Step, Aside

\* Every step keeps what a fresh timer knows.
LEMMA TimedStep == ExecutionInv /\ [ExecutionNext]_executionVars => Timed'
<1> SUFFICES ASSUME ExecutionInv, [ExecutionNext]_executionVars, NEW t \in timers',
                    safe', ~torn', t.fresh, cause' = "none", Untouched'
             PROVE  /\ Live' \subseteq counted'
                    /\ \A a \in Live' : pc'[a] # "arming"
                    /\ Due' \subseteq t.owed
  BY DEF Timed
<1> DEFINE Known(r) == /\ Live \subseteq counted
                       /\ \A a \in Live : pc[a] # "arming"
                       /\ Due \subseteq r.owed
<1>0. Untouched /\ Types /\ Tallies /\ Locked
  BY UntouchedBefore DEF ExecutionInv, Told
<1>1t. safe /\ ~torn
  BY TornStays, ZenonT(30)
<1>1. cause = "none"
  BY ZenonT(40) DEF ExecutionNext, Step, Spawn, Launch, Abandon, SpawnOver, RejectSpawn, Start, Acquire, Yield,
     CallNative, NativeReturns, NativeBodyReturns, CallbackFires, CallbackReturns, Exchange,
     CloseChannel, Enter, Arm, Rendezvous, Wake, Resume, SelectPanics, Crash, GraceElapses, Finish, Record,
     ReleaseVM, BeginJoin, EndJoin, HostCancels, env, world, executionVars
<1>2. \A r \in timers : r.fresh => Known(r)
  BY <1>0, <1>1, <1>1t DEF ExecutionInv, Told, Timed
<1>3. CASE \E a \in counted : Resume(a)
  <2>1. PICK a \in counted : Resume(a)
    BY <1>3
  <2>2. PICK r \in timers : t = [r EXCEPT !.owed = @ \ {a}, !.fresh = @ /\ a \notin counted]
    BY <2>1, Zenon DEF Resume
  <2>3. r \in [by : Actors, fresh : BOOLEAN, owed : SUBSET Actors]
    BY <1>0 DEF Types
  <2>4. t.fresh = (r.fresh /\ a \notin counted)
    BY <2>2, <2>3, ZenonT(30)
  <2> QED BY <2>1, <2>4, ZenonT(30)
<1>4. CASE (\A a \in counted : ~Resume(a)) /\ t \in timers
  BY <1>1, <1>2, <1>4, DueShrinks
<1>5. CASE (\A a \in counted : ~Resume(a)) /\ t \notin timers
  <2>1. ASSUME NEW a \in Actors, Resume(a) PROVE FALSE
    <3>1. a \notin counted
      BY <1>5, <2>1
    <3>2. PICK r \in timers : t = [r EXCEPT !.owed = @ \ {a}, !.fresh = @ /\ a \notin counted]
      BY <2>1, Zenon DEF Resume
    <3>3. r \in [by : Actors, fresh : BOOLEAN, owed : SUBSET Actors]
      BY <1>0 DEF Types
    <3>4. r.fresh /\ Live \subseteq counted
      BY <1>2, <3>2, <3>3
    <3>5. a \in Live
      BY <1>0, <2>1, KindsOfVMs, ZenonT(30) DEF Resume, Untouched, Live, Launched
    <3> QED BY <3>1, <3>4, <3>5
  <2>2. PICK a \in Actors : Arm(a)
    BY <1>5, <2>1, ZenonT(40) DEF ExecutionNext, Step, Spawn, Launch, Abandon, SpawnOver, RejectSpawn, Start, Acquire,
       Yield, CallNative, NativeReturns, NativeBodyReturns, CallbackFires, CallbackReturns,
       Exchange, CloseChannel, Enter, Rendezvous, Wake, SelectPanics, Crash, GraceElapses, Finish, Record,
       ReleaseVM, BeginJoin, EndJoin, HostCancels, tracker, executionVars
  <2>3. /\ a \in counted /\ AllParked(seen[a])
        /\ t = [by |-> a, fresh |-> TRUE, owed |-> Due']
    BY <1>5, <2>2, SMTT(20) DEF Arm
  <2>4. a \in Members /\ pc[a] = "arming" /\ gil = a
    BY <1>0, <1>1t, <2>2, KindsOfVMs, ZenonT(30) DEF Arm, Untouched, Locked, Inside
  <2>5. seen[a] = blocked
    BY <1>0, <1>1t, <2>3, <2>4, ZenonT(30) DEF Locked
  <2>6. Live \subseteq counted
    BY <1>0, <1>1t, <2>3, <2>5, AllCounted DEF AllParked
  <2>7. \A b \in Actors : pc'[b] = IF b = a THEN "parked" ELSE pc[b]
    BY <1>0, <2>2, ZenonT(40) DEF Arm, Goto, Types, Seats
  <2>8. Live' = Live /\ counted' = counted
    BY <2>2, <2>4, <2>7, KindsOfVMs, ZenonT(40) DEF Arm, Live, Launched
  <2>9. \A b \in Live : b # a => pc[b] # "arming"
    BY <1>0, <1>1t, <2>4, KindsOfVMs DEF Locked, Inside, Live, Launched
  <2>10. \A b \in Live' : pc'[b] # "arming"
    BY <2>7, <2>8, <2>9, KindsOfVMs, ZenonT(30) DEF Live, Launched
  <2> QED BY <2>3, <2>6, <2>8, <2>10
<1> QED BY <1>3, <1>4, <1>5, ZenonT(30)
-----------------------------------------------------------------------------
\* ExecutionInv holds in every state of an execution.
THEOREM ExecutionInvariance == ExecutionSpec => []ExecutionInv
<1>1. ExecutionInit => ExecutionInv
  <2> SUFFICES ASSUME ExecutionInit PROVE ExecutionInv
    OBVIOUS
  <2>1. Types
    BY GoroutinesAssumption, KindsOfVMs, ZenonT(30)
       DEF ExecutionInit, Types, Seats, Places, MainPlaces, SpawnedPlaces, CallbackPlaces
  <2>2. Waiting = {} /\ Unstarted = {} /\ Launched = {} /\ Over = {}
    BY KindsOfVMs DEF ExecutionInit, Waiting, Waits, Unstarted, Launched, Over
  <2>3. Tallies
    BY <2>2, FS_EmptySet, GoroutinesAssumption DEF ExecutionInit, Tallies
  <2>4. Joined
    BY KindsOfVMs DEF ExecutionInit, Joined, Recorded
  <2>5. Intact /\ Timed
    BY KindsOfVMs DEF ExecutionInit, Intact, Timed
  <2>6. Locked
    BY KindsOfVMs, ZenonT(30) DEF ExecutionInit, Locked, Inside
  <2> QED BY <2>1, <2>3, <2>4, <2>5, <2>6 DEF ExecutionInv, Told
<1>2. ExecutionInv /\ [ExecutionNext]_executionVars => ExecutionInv'
  BY TypesStep, TalliesStep, JoinedStep, IntactStep, LockedStep, TimedStep DEF ExecutionInv, Told
<1> QED BY <1>1, <1>2, PTL DEF ExecutionSpec

\* The tracker's counters are exact but for the tokens that panicking selects
\* lose, and until a select panics there are none and safe mode runs one goroutine
\* at a time; the registered goroutines stay within the limit, a pooled arena has
\* no goroutine left and a successful execution had no goroutine that failed
\* (handleGo, enterBlocking, handleSelect, JoinSpawnedGoroutines), for any number
\* of goroutines, callbacks, channels and selects.
THEOREM ExecutionIsSound == ExecutionSpec => []ExecutionSound
<1>1. ExecutionInv => ExecutionSound
  <2> SUFFICES ASSUME ExecutionInv PROVE ExecutionSound
    OBVIOUS
  <2>1. ASSUME safe, ~torn, NEW a \in Members, NEW b \in Members, {pc[a], pc[b]} \subseteq Inside
        PROVE  a = b
    BY <2>1, ZenonT(30) DEF ExecutionInv, Told, Locked
  <2> QED BY <2>1, ZenonT(30) DEF ExecutionInv, Types, Seats, Told, Tallies, Intact, Joined,
             ExecutionSound, Waiting, Waits, Unstarted, Over
<1> QED BY <1>1, ExecutionInvariance, PTL

\* When a deadlock is reported, the goroutines of the program that do not wait on
\* program channels are no more than the tokens panicking selects lost; and in
\* safe mode, when no select has panicked, none of them has been woken or can be
\* (enterBlocking, handleSelect, reportDeadlock), for any number of goroutines.
THEOREM DeadlockIsReal == ExecutionSpec => DeadlockReal
<1> DEFINE Claim == cause' = "deadlock" /\ cause = "none" /\ (\A k \in Callbacks : pc[k] = "idle")
                       => /\ Cardinality(Live \ counted) <= lost
                          /\ safe /\ ~torn => Stuck
<1>1. ExecutionInv /\ [ExecutionNext]_executionVars => Claim
  <2> SUFFICES ASSUME ExecutionInv, [ExecutionNext]_executionVars,
                      cause' = "deadlock", cause = "none", Untouched
               PROVE  Cardinality(Live \ counted) <= lost /\ (safe /\ ~torn => Stuck)
    BY DEF Untouched
  <2>1. PICK t \in timers : GraceElapses(t)
    BY ZenonT(40) DEF ExecutionNext, Step, Spawn, Launch, Abandon, SpawnOver, RejectSpawn, Start,
       Acquire, Yield, CallNative, NativeReturns, NativeBodyReturns, CallbackFires, CallbackReturns,
       Exchange, CloseChannel, Enter, Arm, Rendezvous, Wake, Resume, SelectPanics, Crash, Finish,
       Record, ReleaseVM, BeginJoin, EndJoin, HostCancels, env, world, executionVars
  <2>2. t.fresh /\ AllParked(blocked) /\ t.owed \cap Due = {}
    BY <2>1, ZenonT(30) DEF GraceElapses
  <2>3. Cardinality(Live \ counted) <= lost /\ (~torn => Live \subseteq counted)
    BY <2>2, AllCounted, Zenon DEF AllParked
  <2>4. ASSUME safe, ~torn PROVE Stuck
    <3>1. (\A a \in Live : pc[a] # "arming") /\ Due \subseteq t.owed
      BY <2>1, <2>2, <2>4 DEF ExecutionInv, Told, Timed
    <3>2. Due = {}
      BY <2>2, <3>1
    <3>3. \A a \in Live : a \in counted /\ a \in Actors /\ pc[a] \in Waits
      BY <2>3, <2>4 DEF ExecutionInv, Told, Tallies, Waiting
    <3> QED BY <3>1, <3>2, <3>3 DEF Stuck, Due, Waits
  <2> QED BY <2>3, <2>4
<1>2. ExecutionInv /\ [ExecutionNext]_executionVars => [Claim]_executionVars
  BY <1>1
<1> QED BY <1>2, ExecutionInvariance, PTL DEF ExecutionSpec, DeadlockReal
=============================================================================
