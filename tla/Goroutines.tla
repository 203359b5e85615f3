----------------------------- MODULE Goroutines -----------------------------
(***************************************************************************)
(* The goroutines of one execution of an interpreted program               *)
(* (internal/engine): spawning under the goroutine limit, parking on       *)
(* channels around the interpreter lock of safe mode, the deadlock         *)
(* detector with its grace timers, the first panic that wakes the          *)
(* siblings, and the join that ends the execution.                         *)
(*                                                                         *)
(* A host goroutine runs a VM: the main one, a spawned one, or a callback, *)
(* a closure that native code invokes on a goroutine of its own (a timer,  *)
(* a server handler) after the native call that received it has returned.  *)
(* A program channel is unbuffered; ForeignChan stands for every channel   *)
(* the runtime or the host owns, for a nil channel, and for the default of *)
(* a select: a case the deadlock detector sees no program behind.          *)
(*                                                                         *)
(* A select whose send meets a closed channel panics out of reflect.Select *)
(* and past the two calls that undo what the wait did: the tally stays     *)
(* raised, and in safe mode the VM goes on without the lock it believes it *)
(* holds.                                                                  *)
(***************************************************************************)
EXTENDS Naturals, FiniteSets

CONSTANTS Main, Spawned, Callbacks,  \* the VMs
          Chans, ForeignChan,        \* program channels, and the other ones
          Operations,                \* the channel operations a VM may block in
          Modes,                     \* values of VMLimits.SafeMode
          MaxGoroutines,             \* VMLimits.MaxGoroutines
          MaxParks,                  \* bound: blocking operations of a run
          MaxEvents,                 \* bound: failures, native calls, closes, callbacks
          Free                       \* nobody holds the interpreter lock

Members == {Main} \cup Spawned       \* the VMs the tracker is meant to count
Actors == Members \cup Callbacks
Cases == {"send", "recv"} \X (Chans \cup {ForeignChan})
\* A send or receive statement, a select, or the receive of a range loop.
Forms == {"plain", "select", "range"}
EmptySelect == [form |-> "select", cases |-> {}]

ASSUME GoroutinesAssumption ==
    /\ Main \notin Spawned \cup Callbacks /\ Spawned \cap Callbacks = {}
    /\ Free \notin Actors /\ ForeignChan \notin Chans
    /\ Operations \subseteq [form : Forms, cases : SUBSET Cases] /\ Modes \subseteq BOOLEAN
    /\ IsFiniteSet(Actors) /\ MaxGoroutines \in Nat /\ MaxParks \in Nat /\ MaxEvents \in Nat

VARIABLES
    safe,        \* the interpreter lock is in use
    pc,          \* where each VM is
    ops,         \* the operation a blocking VM waits in
    why,         \* how its wait ended: blockWake, or a send on a closed channel
    outcome,     \* what a VM's dispatch returned
    gil,         \* who locked interpreterLock last, when it is locked
    count,       \* tracker.GoroutineCount
    unscheduled, \* tracker.GoroutinesUnscheduled
    blocked,     \* tracker.blocked
    counted,     \* VMs whose blockToken says counted
    lost,        \* counted tokens that were never given to leaveBlocking
    torn,        \* a select has panicked in this execution
    crashed,     \* an unlocked mutex was unlocked: the process is gone
    seen,        \* the value blocked.Add(1) returned
    timers,      \* armed grace timers; fresh: blockEpoch is what it was then
    closed,      \* closed program channels
    deaf,        \* VMs parked with neither wake arm
    cause,       \* context.Cause of the execution context
    panicked,    \* globals.goroutinePanic is set and its signal closed
    result,      \* what the execution returned to the host
    arena,       \* the execution's register arena
    parks,       \* blocking operations so far
    events       \* failures, native calls, closes and callbacks so far

executionBounds == <<parks, events>>
sched == <<pc, ops, why, outcome, gil, deaf>>
tracker == <<count, unscheduled, blocked, counted, lost, seen, timers>>
world == <<safe, torn, crashed, closed, cause, panicked, result, arena, parks>>
env == <<world, events>>
executionVars == <<sched, tracker, env>>

ExecutionInit ==
    /\ safe \in Modes
    /\ pc = [a \in Actors |-> IF a = Main THEN "lock"
                              ELSE IF a \in Spawned THEN "none" ELSE "idle"]
    /\ ops = [a \in Actors |-> EmptySelect]
    /\ why = [a \in Actors |-> "value"]
    /\ outcome = [a \in Actors |-> "ok"]
    /\ gil = Free
    /\ count = 0 /\ unscheduled = 0 /\ blocked = 0
    /\ counted = {} /\ lost = 0 /\ torn = FALSE /\ crashed = FALSE
    /\ seen = [a \in Actors |-> 0]
    /\ timers = {} /\ closed = {} /\ deaf = {}
    /\ cause = "none" /\ panicked = FALSE
    /\ result = "none" /\ arena = "held" /\ parks = 0 /\ events = 0
-----------------------------------------------------------------------------
\* lockInterpreter: a callback VM is reentrant and takes no lock of its own.
UsesLock(a) == safe /\ a \in Members
\* releaseAroundBlock, unlockInterpreter: sync.Mutex does not ask who locked it.
Unlock(a) == /\ UsesLock(a) => gil # Free
             /\ gil' = IF UsesLock(a) THEN Free ELSE gil
\* reacquireAfterBlock, interpreterLock.Lock.
Lock(a) == /\ UsesLock(a) => gil = Free
           /\ gil' = IF UsesLock(a) THEN a ELSE gil

\* The goroutines that have been launched and not yet released.
Launched == {g \in Spawned : pc[g] \notin {"none", "done"}}
Live == Launched \cup (IF pc[Main] = "ended" THEN {} ELSE {Main})

\* isInterpretedChannel, selectIsCountable: only program channels.  A range
\* loop parks without enterBlocking.
Countable(o) == o.form # "range" /\ \A x \in o.cases : x[2] \in Chans
\* A case of o meets a case of p on an unbuffered channel.
Meets(o, p) == \E c \in Chans : \/ <<"send", c>> \in o.cases /\ <<"recv", c>> \in p.cases
                                \/ <<"recv", c>> \in o.cases /\ <<"send", c>> \in p.cases
OnClosed(o) == \E x \in o.cases : x[2] \in closed
\* The wait can end without anybody's help: the Go runtime will end it.
Completes(a) == /\ pc[a] = "parked"
                /\ \/ OnClosed(ops[a])
                   \/ panicked /\ a \notin deaf
                   \/ \E b \in Actors \ {a} : pc[b] = "parked" /\ Meets(ops[a], ops[b])
\* VMs that move on as soon as they are given the processor.
Due == {a \in Actors : pc[a] \in {"woken", "arming"} \/ Completes(a)}

\* GoroutinesUnscheduled == 0 && blocked >= GoroutineCount+1.
AllParked(b) == unscheduled = 0 /\ b >= count + 1

\* One of the MaxEvents events of a run.
Event == events < MaxEvents /\ events' = events + 1

\* One VM moves on, or two, in a process that is there.
Goto(a, l) == ~crashed /\ pc' = [pc EXCEPT ![a] = l]
GotoBoth(a, l, b, m) == ~crashed /\ pc' = [pc EXCEPT ![a] = l, ![b] = m]
\* Dispatch ends with o, ...
Leave(a, o) == /\ Goto(a, IF a \in Members THEN "exiting" ELSE "done")
               /\ outcome' = [outcome EXCEPT ![a] = IF a \in Members THEN o ELSE "ok"]
\* ... and RunDispatchedGuarded's deferred unlock.
Return(a, o) == Leave(a, o) /\ Unlock(a)
-----------------------------------------------------------------------------
\* handleGo under the limit: count and register, ...
Spawn(a, g) ==
    /\ a \in Members /\ pc[a] = "running" /\ pc[g] = "none"
    /\ count + 1 <= MaxGoroutines
    /\ count' = count + 1 /\ unscheduled' = unscheduled + 1
    /\ GotoBoth(a, "spawning", g, "registered")
    /\ UNCHANGED <<ops, why, outcome, gil, deaf, blocked, counted, lost, seen, timers, env>>

\* ... then launch, ...
Launch(a, g) ==
    /\ pc[a] = "spawning" /\ pc[g] = "registered"
    /\ GotoBoth(a, "running", g, "unscheduled")
    /\ UNCHANGED <<ops, why, outcome, gil, deaf, tracker, env>>

\* ... unless the capability hook refuses: AbandonGoroutine, and its error.
Abandon(a, g) ==
    /\ pc[a] = "spawning" /\ pc[g] = "registered"
    /\ count' = count - 1 /\ unscheduled' = unscheduled - 1
    /\ GotoBoth(a, "exiting", g, "done")
    /\ outcome' = [outcome EXCEPT ![a] = "error"]
    /\ Unlock(a) /\ Event
    /\ UNCHANGED <<ops, why, deaf, blocked, counted, lost, seen, timers, world>>

\* handleGo over the limit: the count is raised before it is compared.
SpawnOver(a) ==
    /\ a \in Members /\ pc[a] = "running"
    /\ count + 1 > MaxGoroutines
    /\ count' = count + 1
    /\ Goto(a, "overLimit") /\ Event
    /\ UNCHANGED <<ops, why, outcome, gil, deaf, unscheduled, blocked, counted, lost, seen, timers, world>>

\* Mutant: the count is not lowered.
RejectSpawnCounted(a) ==
    /\ pc[a] = "overLimit"
    /\ Return(a, "error")
    /\ UNCHANGED <<ops, why, deaf, tracker, env>>

\* ... and lowered again, with ErrGoroutineLimit.
RejectSpawn(a) ==
    /\ pc[a] = "overLimit"
    /\ count' = count - 1
    /\ Return(a, "error")
    /\ UNCHANGED <<ops, why, deaf, unscheduled, blocked, counted, lost, seen, timers, env>>

\* The scheduler runs the body of a compiled closure, or of a native function.
Start(g) ==
    /\ pc[g] = "unscheduled"
    /\ unscheduled' = unscheduled - 1
    /\ \E l \in {"lock", "nativeBody"} : Goto(g, l)
    /\ UNCHANGED <<ops, why, outcome, gil, deaf, count, blocked, counted, lost, seen, timers, env>>

\* lockInterpreter at the entry, and every re-acquisition outside a counted wait.
Acquire(a) ==
    /\ pc[a] = "lock" /\ Lock(a) /\ Goto(a, "running")
    /\ UNCHANGED <<ops, why, outcome, deaf, tracker, env>>

\* yieldInterpreterLock at a periodic check.
Yield(a) ==
    /\ UsesLock(a) /\ pc[a] = "running"
    /\ Unlock(a) /\ Goto(a, "lock")
    /\ UNCHANGED <<ops, why, outcome, deaf, tracker, env>>

\* A native call, and its return.  The lock is given up around a call marked
\* BlocksHostGoroutine and kept around any other.
CallNative(a) ==
    /\ pc[a] = "running" /\ Event
    /\ \/ Unlock(a) /\ Goto(a, "native")
       \/ UNCHANGED gil /\ Goto(a, "nativeHeld")
    /\ UNCHANGED <<ops, why, outcome, deaf, tracker, world>>

NativeReturns(a) ==
    /\ \/ pc[a] = "native" /\ Goto(a, "lock")
       \/ pc[a] = "nativeHeld" /\ Goto(a, "running")
    /\ UNCHANGED <<ops, why, outcome, gil, deaf, tracker, env>>

NativeBodyReturns(g) ==
    /\ pc[g] = "nativeBody"
    /\ \E o \in {"ok", "error"} : /\ outcome' = [outcome EXCEPT ![g] = o]
                                  /\ IF o = "error" THEN Event ELSE UNCHANGED events
    /\ Goto(g, "exiting")
    /\ UNCHANGED <<ops, why, gil, deaf, tracker, world>>

\* The host invokes a closure the program handed out, and the closure returns.
CallbackFires(k) ==
    /\ pc[k] = "idle" /\ pc[Main] # "ended" /\ Goto(k, "running") /\ Event
    /\ UNCHANGED <<ops, why, outcome, gil, deaf, tracker, world>>

CallbackReturns(k) ==
    /\ pc[k] = "running" /\ Goto(k, "done")
    /\ UNCHANGED <<ops, why, outcome, gil, deaf, tracker, env>>
-----------------------------------------------------------------------------
\* Nothing can end the wait of a plain send or receive at once: it was tried
\* first.  A select and a range are not.
WouldBlock(a, o) ==
    o.form = "plain" => ~OnClosed(o) /\ \A b \in Actors \ {a} : pc[b] = "parked" => ~Meets(o, ops[b])

\* A send or receive that completes at once (TrySend, TryRecv) wakes its peer.
Exchange(a, b) ==
    /\ pc[a] = "running" /\ pc[b] = "parked" /\ a # b
    /\ \E o \in Operations : o.form = "plain" /\ Meets(o, ops[b])
    /\ Goto(b, "woken") /\ why' = [why EXCEPT ![b] = "value"]
    /\ UNCHANGED <<ops, outcome, gil, deaf, tracker, env>>

\* handleChannelClose.
CloseChannel(a, c) ==
    /\ ~crashed /\ pc[a] = "running" /\ c \notin closed
    /\ closed' = closed \cup {c} /\ Event
    /\ UNCHANGED <<sched, tracker, safe, torn, crashed, cause, panicked, result, arena, parks>>

\* enterBlocking, up to the addition.  The context of a callback VM cannot be
\* cancelled, and the panic arm exists once a goroutine has been launched.
Enter(a, o) ==
    /\ pc[a] = "running" /\ parks < MaxParks
    /\ WouldBlock(a, o)
    /\ parks' = parks + 1
    /\ ops' = [ops EXCEPT ![a] = o]
    /\ IF Countable(o)
       THEN /\ blocked' = blocked + 1
            /\ counted' = counted \cup {a}
            /\ seen' = [seen EXCEPT ![a] = blocked + 1]
       ELSE UNCHANGED <<blocked, counted, seen>>
    /\ deaf' = IF a \in Callbacks /\ \A g \in Spawned : pc[g] = "none"
               THEN deaf \cup {a} ELSE deaf
    /\ Goto(a, "arming")
    /\ IF a \in Callbacks THEN Event ELSE UNCHANGED events
    /\ UNCHANGED <<why, outcome, gil, count, unscheduled, lost, timers, safe, torn, crashed, closed, cause, panicked, result, arena>>

\* enterBlocking's check with the value the addition returned, then
\* releaseAroundBlock and the park.  A timer is owed a turn by whoever could
\* move on when it was armed.
Arm(a) ==
    /\ pc[a] = "arming"
    /\ Goto(a, "parked")
    /\ seen' = [seen EXCEPT ![a] = 0]
    /\ Unlock(a)
    /\ UNCHANGED <<ops, why, outcome, deaf, count, unscheduled, blocked, counted, lost, env>>
    /\ timers' = IF a \in counted /\ AllParked(seen[a])
                 THEN timers \cup {[by |-> a, fresh |-> TRUE, owed |-> Due']}
                 ELSE timers

\* reflect.Select pairs two parked VMs.
Rendezvous(a, b) ==
    /\ pc[a] = "parked" /\ pc[b] = "parked" /\ a # b /\ Meets(ops[a], ops[b])
    /\ GotoBoth(a, "woken", b, "woken")
    /\ why' = [why EXCEPT ![a] = "value", ![b] = "value"]
    /\ UNCHANGED <<ops, outcome, gil, deaf, tracker, env>>


\* One reason for a parked VM to wake: a closed channel, a foreign channel,
\* the context's Done, or the panic signal.
Wake(a) ==
    /\ pc[a] = "parked"
    /\ \E w \in {"value", "closed", "cancelled", "panic"} :
          /\ w = "value" => \/ \E c \in closed : <<"recv", c>> \in ops[a].cases
                            \/ \E d \in {"send", "recv"} : <<d, ForeignChan>> \in ops[a].cases
          /\ w = "closed" => \E c \in closed : <<"send", c>> \in ops[a].cases
          /\ w = "cancelled" => cause # "none" /\ a \notin Callbacks
          /\ w = "panic" => panicked /\ a \notin deaf
          /\ why' = [why EXCEPT ![a] = w]
    /\ Goto(a, "woken")
    /\ UNCHANGED <<ops, outcome, gil, deaf, tracker, env>>

\* A select met a closed channel with a send: no call of it goes on to Resume.
Panics(a) == why[a] = "closed" /\ ops[a].form = "select"

\* reacquireAfterBlock, leaveBlocking, surfaceBlockingWake.  The panic of a
\* plain send on a closed channel is guarded, raised after both, and may be
\* recovered by the program.
Resume(a) ==
    /\ pc[a] = "woken" /\ ~Panics(a)
    /\ UsesLock(a) => gil = Free
    /\ \/ why[a] \in {"value", "closed"} /\ Lock(a) /\ Goto(a, "running") /\ UNCHANGED outcome
       \/ /\ why[a] # "value" /\ UNCHANGED gil
          /\ Leave(a, IF why[a] = "cancelled" THEN "cancelled" ELSE "error")
    /\ IF a \in counted
       THEN blocked' = blocked - 1 /\ counted' = counted \ {a}
       ELSE UNCHANGED <<blocked, counted>>
    /\ timers' = {[t EXCEPT !.owed = @ \ {a}, !.fresh = @ /\ a \notin counted] : t \in timers}
    /\ ops' = [ops EXCEPT ![a] = EmptySelect] /\ why' = [why EXCEPT ![a] = "value"]
    /\ deaf' = deaf \ {a}
    /\ UNCHANGED <<count, unscheduled, lost, seen, env>>

\* handleSelect has no guard around reflect.Select: handleRecoveredHandlerPanic
\* raises the panic in the program, which recovers or fails, with neither
\* reacquireAfterBlock nor leaveBlocking done.
SelectPanics(a) ==
    /\ pc[a] = "woken" /\ Panics(a)
    /\ torn' = TRUE
    /\ \/ Goto(a, "running") /\ UNCHANGED <<outcome, gil>>
       \/ Return(a, "error")
    /\ counted' = counted \ {a}
    /\ lost' = IF a \in counted THEN lost + 1 ELSE lost
    /\ timers' = {[t EXCEPT !.owed = @ \ {a}] : t \in timers}
    /\ ops' = [ops EXCEPT ![a] = EmptySelect] /\ why' = [why EXCEPT ![a] = "value"]
    /\ deaf' = deaf \ {a}
    /\ UNCHANGED <<count, unscheduled, blocked, seen, safe, crashed, closed, cause, panicked, result, arena, executionBounds>>

\* The next unlock of a VM finds the mutex unlocked, a fatal error.
Crash(a) ==
    /\ UsesLock(a) /\ gil = Free
    /\ pc[a] \in {"running", "arming", "overLimit", "spawning"}
    /\ crashed' = TRUE
    /\ UNCHANGED <<sched, tracker, safe, torn, closed, cause, panicked, result, arena, executionBounds>>

\* Mutant: a timer is not told from one armed before somebody resumed.
GraceElapsesAnyEpoch(t) ==
    /\ ~crashed /\ t \in timers /\ t.owed \cap Due = {}
    /\ timers' = timers \ {t}
    /\ cause' = IF AllParked(blocked) /\ cause = "none" THEN "deadlock" ELSE cause
    /\ UNCHANGED <<sched, count, unscheduled, blocked, counted, lost, seen, safe, torn, crashed, closed, panicked, result, arena, executionBounds>>

\* reportDeadlock, when the grace period of timer t is over.
GraceElapses(t) ==
    /\ ~crashed /\ t \in timers /\ t.owed \cap Due = {}
    /\ timers' = timers \ {t}
    /\ cause' = IF t.fresh /\ AllParked(blocked) /\ cause = "none"
                THEN "deadlock" ELSE cause
    /\ UNCHANGED <<sched, count, unscheduled, blocked, counted, lost, seen, safe, torn, crashed, closed, panicked, result, arena, executionBounds>>
-----------------------------------------------------------------------------
\* Dispatch ends: the body returned, it failed, or a periodic check saw the
\* cancellation or a sibling's panic.
Finish(a, o) ==
    /\ a \in Members /\ pc[a] = "running"
    /\ o = "cancelled" => cause # "none"
    /\ Return(a, o)
    /\ IF o = "error" THEN Event ELSE UNCHANGED events
    /\ UNCHANGED <<ops, why, deaf, tracker, world>>

\* surfaceGoroutineRunError, recordGoroutinePanic: the error is kept unless it
\* is the cancellation that follows main's return.
Surfaces(o) == o = "error" \/ (o = "cancelled" /\ cause # "main")
Record(g) ==
    /\ g \in Spawned /\ pc[g] = "exiting"
    /\ panicked' = (panicked \/ Surfaces(outcome[g]))
    /\ Goto(g, "releasing")
    /\ UNCHANGED <<ops, why, outcome, gil, deaf, tracker, safe, torn, crashed, closed, cause, result, arena, executionBounds>>

\* ReleaseGoroutine, the last deferred call.
ReleaseVM(g) ==
    /\ pc[g] = "releasing"
    /\ count' = count - 1 /\ Goto(g, "done")
    /\ UNCHANGED <<ops, why, outcome, gil, deaf, unscheduled, blocked, counted, lost, seen, timers, env>>

\* JoinSpawnedGoroutines, first half: cancel with ErrMainReturned.
BeginJoin ==
    /\ pc[Main] = "exiting"
    /\ cause' = IF cause = "none" THEN "main" ELSE cause
    /\ Goto(Main, "joining")
    /\ UNCHANGED <<ops, why, outcome, gil, deaf, tracker, safe, torn, crashed, closed, panicked, result, arena, executionBounds>>

\* WaitForGoroutines returns: nobody is left, or the grace ran out.  The first
\* of the errors is returned; the arena of a leaked execution is abandoned.
EndJoin ==
    /\ pc[Main] = "joining"
    /\ result' = IF outcome[Main] = "ok" /\ count = 0 /\ ~panicked THEN "ok" ELSE "error"
    /\ arena' = IF count = 0 THEN "pooled" ELSE "abandoned"
    /\ Goto(Main, "ended")
    /\ UNCHANGED <<ops, why, outcome, gil, deaf, tracker, safe, torn, crashed, closed, cause, panicked, executionBounds>>

\* The host cancels the run, or its deadline passes.
HostCancels ==
    /\ ~crashed /\ cause = "none" /\ cause' = "host" /\ Event
    /\ UNCHANGED <<sched, tracker, safe, torn, crashed, closed, panicked, result, arena, parks>>

Step(a) ==
    \/ SpawnOver(a) \/ RejectSpawn(a) \/ Acquire(a) \/ Yield(a)
    \/ CallNative(a) \/ NativeReturns(a) \/ Arm(a) \/ Wake(a) \/ Resume(a)
    \/ SelectPanics(a) \/ Crash(a)
    \/ \E g \in Spawned : Spawn(a, g) \/ Launch(a, g) \/ Abandon(a, g)
    \/ \E b \in Actors : Exchange(a, b) \/ Rendezvous(a, b)
    \/ \E c \in Chans : CloseChannel(a, c)
    \/ \E o \in Operations : Enter(a, o)
    \/ \E o \in {"ok", "error", "cancelled"} : Finish(a, o)

ExecutionNext ==
    \/ \E a \in Actors : Step(a)
    \/ \E g \in Spawned : Start(g) \/ NativeBodyReturns(g) \/ Record(g) \/ ReleaseVM(g)
    \/ \E k \in Callbacks : CallbackFires(k) \/ CallbackReturns(k)
    \/ \E t \in timers : GraceElapses(t)
    \/ BeginJoin \/ EndJoin \/ HostCancels

ExecutionSpec == ExecutionInit /\ [][ExecutionNext]_executionVars

(* A goroutine that can run is run, sync.Mutex starves nobody, a running VM
   reaches its next periodic check, timers fire, and the join is bounded by its
   grace.  A native call that is not marked as blocking returns; nothing else is
   assumed of native code or of the host. *)
ExecutionFairSpec ==
    /\ ExecutionSpec
    /\ \A a \in Actors :
          /\ WF_executionVars(\/ Arm(a) \/ RejectSpawn(a) \/ Wake(a) \/ Yield(a)
                              \/ SelectPanics(a) \/ Crash(a)
                              \/ pc[a] = "nativeHeld" /\ NativeReturns(a)
                              \/ \E g \in Spawned : Launch(a, g) \/ Abandon(a, g))
          /\ SF_executionVars(Acquire(a) \/ Resume(a))
          /\ SF_executionVars(Finish(a, "cancelled"))
    /\ \A g \in Spawned : WF_executionVars(Start(g) \/ Record(g) \/ ReleaseVM(g))
    /\ WF_executionVars(\E a, b \in Actors : Rendezvous(a, b))
    /\ WF_executionVars(\E t \in timers : GraceElapses(t))
    /\ WF_executionVars(BeginJoin \/ EndJoin)
-----------------------------------------------------------------------------
Places == {"none", "idle", "registered", "unscheduled", "lock", "running", "spawning",
           "overLimit", "native", "nativeHeld", "nativeBody", "arming", "parked", "woken",
           "exiting", "releasing", "joining", "ended", "done"}
\* Where a goroutine of safe mode has the interpreter lock.
Inside == {"running", "spawning", "overLimit", "nativeHeld", "arming"}

\* Every value has its type and the tracker's counters are what they count: the
\* blocked tally is the VMs holding a counted token and the tokens that panicking
\* selects lost, the goroutine count is the registered goroutines and the spawns
\* about to be refused, and the registered ones never exceed MaxGoroutines
\* (handleGo, AbandonGoroutine, enterBlocking, ReleaseGoroutine).  Until a select
\* panics no token is lost, safe mode has one goroutine at a time inside the
\* interpreter, and its lock is never unlocked twice (releaseAroundBlock,
\* reacquireAfterBlock).  The arena goes back to the pool only when no goroutine
\* of the execution is left, and an execution that succeeds had no goroutine that
\* failed, whenever it failed (JoinSpawnedGoroutines, releaseArenaUnlessLeaked,
\* runEntrypointFunction).
ExecutionSound ==
    /\ pc \in [Actors -> Places] /\ ops \in [Actors -> Operations \cup {EmptySelect}]
    /\ gil \in Members \cup {Free}
    /\ cause \in {"none", "main", "host", "deadlock"}
    /\ blocked = Cardinality(counted) + lost
    /\ counted = {a \in Actors : pc[a] \in {"arming", "parked", "woken"} /\ Countable(ops[a])}
    /\ unscheduled = Cardinality({g \in Spawned : pc[g] \in {"registered", "unscheduled"}})
    /\ count = Cardinality(Launched) + Cardinality({a \in Actors : pc[a] = "overLimit"})
    /\ Cardinality(Launched) <= MaxGoroutines
    /\ lost > 0 \/ crashed => torn
    /\ safe /\ ~torn => \A a, b \in Members : {pc[a], pc[b]} \subseteq Inside => a = b
    /\ arena = "pooled" => Launched = {}
    /\ result = "ok" => \A g \in Spawned : outcome[g] # "error"

\* Every goroutine of the program waits for another one of them.
Stuck == \A a \in Live : pc[a] = "parked" /\ a \in counted /\ ~Completes(a)

\* An execution fails with ErrDeadlock only when each of its goroutines has
\* entered a wait on program channels, but for as many as selects have panicked in
\* a counted wait: those tokens stay in the tally, and the detector takes a
\* goroutine that runs, or waits for the scheduler, native code or a foreign
\* channel, for a parked one.  In safe mode, when no select has panicked, the
\* execution is stuck for good: none of its goroutines has been woken or can be
\* (enterBlocking, handleSelect, reportDeadlock).  Callbacks of native code are
\* outside the count; the property speaks of the executions that none has entered.
DeadlockReal ==
    [][cause' = "deadlock" /\ cause = "none" /\ (\A k \in Callbacks : pc[k] = "idle")
          => /\ Cardinality(Live \ counted) <= lost
             /\ safe /\ ~torn => Stuck]_executionVars


\* "When every live VM goroutine is blocked that way a grace timer is armed; if
\* nothing has unblocked by the time it fires, the execution is cancelled with
\* fault.ErrDeadlock." (deadlock.go:38): nobody stays stuck for good.
DeadlockReported == []<>(~Stuck \/ cause # "none")

\* "A goroutine parked in a native call (sync.WaitGroup.Wait, a mutex, a socket)
\* [...] is not counted, because something the interpreter cannot see may still
\* wake it." (deadlock.go:42): no deadlock is reported while the main goroutine
\* or a spawned one is in a native call.
NativeWaitSpared ==
    [][cause' = "deadlock" /\ cause = "none" => \A a \in Live : pc[a] # "native"]_executionVars
=============================================================================
