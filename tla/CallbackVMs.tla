----------------------------- MODULE CallbackVMs -----------------------------
(***************************************************************************)
(* The callback virtual machines of internal/engine/callback_vm_cache.go   *)
(* and the cost budget they share with their parent (vm_run.go).  Host     *)
(* goroutines call wrappers of interpreted closures at any time, also      *)
(* while the parent starts or ends an execution: the one-slot cache is     *)
(* taken, filled and drained by atomic operations, each a step here, and   *)
(* every machine draws its instructions from chunks of one tracker.        *)
(***************************************************************************)
EXTENDS Integers, FiniteSets, FiniteSetsExt

CONSTANTS Invokers,       \* host goroutines that call wrappers
          MaxVMs,         \* callback machines ever built
          MaxExecutions,  \* executions of the parent
          CostBudget,     \* Limits.CostBudget, 0 when metering is off
          CostChunk,      \* units drawn from the tracker at a time
          Costs           \* the weights of the cost table

ASSUME CallbackBounds ==
    /\ {MaxVMs, MaxExecutions, CostBudget} \subseteq Nat
    /\ CostChunk \in Nat \ {0}
    /\ Costs \subseteq Nat \ {0} /\ IsFiniteSet(Costs) /\ Costs # {}

VMs    == 1..MaxVMs
Parent == 0
NoVM   == MaxVMs + 1

VARIABLES slot, released,        \* the cache
          built, discarded,      \* its counters
          caller,                \* per caller: what it does, and with which machine
          parent,                \* "idle", "running" or "draining"
          executions,
          alive,                 \* machines built and not discarded
          costRemaining,         \* the local counter of every machine
          shared,                \* Tracker.CostRemaining
          charged,               \* paid for since the last seed
          carried                \* the chunks held at that seed, less the deficits of
                                 \* machines discarded since

cacheVars == <<slot, released, built, discarded, alive>>
costVars  == <<costRemaining, shared, charged, carried>>
callbackVars == <<cacheVars, costVars, caller, parent, executions>>

At(step, vm) == [step |-> step, vm |-> vm]

CallbackInit ==
    /\ slot = NoVM /\ released = FALSE
    /\ built = 0 /\ discarded = 0 /\ alive = {}
    /\ caller = [c \in Invokers |-> At("out", NoVM)]
    /\ parent = "idle"
    /\ executions = 0
    /\ costRemaining = [v \in VMs \cup {Parent} |-> 0]
    /\ shared = 0 /\ charged = 0 /\ carried = 0

-----------------------------------------------------------------------------
(* The cost budget.                                                         *)

\* A machine's counter and the tracker, while an instruction is accounted for.
Meter(vm) == [local |-> costRemaining[vm], shared |-> shared, paid |-> 0, exhausted |-> FALSE]

\* Mutant of Refill: the chunk replaces the counter, and its deficit.
RefillForgets(m) ==
    LET take == IF m.shared < CostChunk THEN m.shared ELSE CostChunk IN
    IF CostBudget = 0 THEN [m EXCEPT !.local = -1]
    ELSE IF m.shared <= 0 THEN [m EXCEPT !.exhausted = TRUE]
    ELSE [m EXCEPT !.local = take, !.shared = @ - take]

\* RefillCostChunk; the local counter -1 marks a machine without a budget.
Refill(m) ==
    LET take == IF m.shared < CostChunk THEN m.shared ELSE CostChunk IN
    IF CostBudget = 0 THEN [m EXCEPT !.local = -1]
    ELSE IF m.shared <= 0 THEN [m EXCEPT !.exhausted = TRUE]
    ELSE [m EXCEPT !.local = @ + take, !.shared = @ - take, !.exhausted = m.local + take <= 0]

\* AccountForInstructionCost and chargeInstructionCost.
Account(m, cost) ==
    LET ready == IF m.local = 0 THEN Refill(m) ELSE m
        paid  == [ready EXCEPT !.local = @ - cost, !.paid = cost]
    IN  IF ready.local < 0 \/ ready.exhausted THEN ready
        ELSE IF paid.local > 0 THEN paid ELSE Refill(paid)

Metered(vm, m) ==
    /\ costRemaining' = [costRemaining EXCEPT ![vm] = m.local]
    /\ shared' = m.shared
    /\ charged' = charged + m.paid
    /\ UNCHANGED carried

\* SeedCostBudget by the parent; the chunks that machines of an earlier
\* execution still hold stay with them.
SeedCostBudget ==
    /\ costRemaining' = [costRemaining EXCEPT ![Parent] = IF CostBudget = 0 THEN -1 ELSE 0]
    /\ shared' = CostBudget
    /\ charged' = 0
    /\ carried' = MapThenSumSet(LAMBDA v : costRemaining[v], VMs)

\* ReturnUnspentCostChunk, and the counter of a machine that is no more.
ReturnUnspentCostChunk(vm, dies) ==
    LET unspent == IF CostBudget > 0 /\ costRemaining[vm] > 0 THEN costRemaining[vm] ELSE 0
        rest    == costRemaining[vm] - unspent
    IN  /\ shared' = shared + unspent
        /\ costRemaining' = [costRemaining EXCEPT ![vm] = IF dies THEN 0 ELSE rest]
        /\ carried' = IF dies THEN carried - rest ELSE carried
        /\ UNCHANGED charged

-----------------------------------------------------------------------------
(* The cache.                                                               *)

\* discard: the machine is released for good.  A machine built without a cache
\* is not counted.
Discard(vm) ==
    /\ alive' = alive \ {vm}
    /\ discarded' = discarded + 1
    /\ ReturnUnspentCostChunk(vm, TRUE)

\* callbackVMCache.acquire reads released first and swaps the slot after.
AcquireChecks(c) ==
    /\ caller[c].step = "out"
    /\ executions > 0
    /\ caller' = [caller EXCEPT ![c] = At(IF released THEN "build" ELSE "take", NoVM)]
    /\ UNCHANGED <<cacheVars, costVars, parent, executions>>

AcquireTakes(c) ==
    /\ caller[c].step = "take"
    /\ slot' = NoVM
    /\ caller' = [caller EXCEPT ![c] = IF slot = NoVM THEN At("build", NoVM) ELSE At("run", slot)]
    /\ UNCHANGED <<released, built, discarded, alive, costVars, parent, executions>>

Build(c) ==
    /\ caller[c].step = "build"
    /\ built < MaxVMs
    /\ built' = built + 1
    /\ alive' = alive \cup {built + 1}
    /\ caller' = [caller EXCEPT ![c] = At("run", built + 1)]
    /\ UNCHANGED <<slot, released, discarded, costVars, parent, executions>>

\* An instruction of the callback; an exhausted budget ends the run, with
\* frames left behind.
RunCallback(c) ==
    /\ caller[c].step = "run"
    /\ \E cost \in Costs :
         LET m == Account(Meter(caller[c].vm), cost) IN
         /\ Metered(caller[c].vm, m)
         /\ caller' = IF m.exhausted THEN [caller EXCEPT ![c].step = "dirty"] ELSE caller
    /\ UNCHANGED <<cacheVars, parent, executions>>

\* finish of a machine that must not be reused: it ended with an error or a
\* panic, or its arena is past the retire threshold.
FinishDiscards(c) ==
    /\ caller[c].step \in {"run", "dirty"}
    /\ Discard(caller[c].vm)
    /\ caller' = [caller EXCEPT ![c] = At("out", NoVM)]
    /\ UNCHANGED <<slot, released, built, parent, executions>>

\* finish of a clean machine: its chunk goes back before it is parked.
FinishReturns(c) ==
    /\ caller[c].step = "run"
    /\ ReturnUnspentCostChunk(caller[c].vm, FALSE)
    /\ caller' = [caller EXCEPT ![c].step = "park"]
    /\ UNCHANGED <<cacheVars, parent, executions>>

\* release: the machine is stored before released is read.
ReleaseStores(c) ==
    /\ caller[c].step = "park"
    /\ IF slot = NoVM
       THEN /\ slot' = caller[c].vm
            /\ caller' = [caller EXCEPT ![c] = At("check", NoVM)]
            /\ UNCHANGED <<discarded, alive, costVars>>
       ELSE /\ Discard(caller[c].vm)
            /\ caller' = [caller EXCEPT ![c] = At("out", NoVM)]
            /\ UNCHANGED slot
    /\ UNCHANGED <<released, built, parent, executions>>

\* Mutant of ReleaseChecks: release does not look again after its store.
ReleaseTrusts(c) ==
    /\ caller[c].step = "check"
    /\ caller' = [caller EXCEPT ![c].step = "out"]
    /\ UNCHANGED <<cacheVars, costVars, parent, executions>>

ReleaseChecks(c) ==
    /\ caller[c].step = "check"
    /\ caller' = [caller EXCEPT ![c].step = IF released THEN "undo" ELSE "out"]
    /\ UNCHANGED <<cacheVars, costVars, parent, executions>>

\* The Swap(nil) of release and of drain, with the discard of what it took.
EmptySlot ==
    /\ slot' = NoVM
    /\ IF slot = NoVM THEN UNCHANGED <<alive, discarded, costVars>> ELSE Discard(slot)
    /\ UNCHANGED <<released, built>>

ReleaseUndoes(c) ==
    /\ caller[c].step = "undo"
    /\ EmptySlot
    /\ caller' = [caller EXCEPT ![c].step = "out"]
    /\ UNCHANGED <<parent, executions>>

-----------------------------------------------------------------------------
(* The parent: prepareForExecution, its instructions, releaseOwnedArena.    *)

Execute ==
    /\ parent = "idle"
    /\ executions < MaxExecutions
    /\ executions' = executions + 1
    /\ SeedCostBudget
    /\ released' = FALSE
    /\ parent' = "running"
    /\ UNCHANGED <<slot, built, discarded, alive, caller>>

RunParent ==
    /\ parent = "running"
    /\ \E cost \in Costs :
         LET m == Account(Meter(Parent), cost) IN
         /\ Metered(Parent, m)
         /\ parent' = IF m.exhausted THEN "closing" ELSE parent
    /\ UNCHANGED <<cacheVars, caller, executions>>

CloseCache ==
    /\ parent \in {"running", "closing"}
    /\ released' = TRUE
    /\ parent' = "draining"
    /\ UNCHANGED <<slot, built, discarded, alive, costVars, caller, executions>>

Drain ==
    /\ parent = "draining"
    /\ EmptySlot
    /\ parent' = "idle"
    /\ UNCHANGED <<caller, executions>>

CallerStep(c) ==
    \/ AcquireChecks(c) \/ AcquireTakes(c) \/ Build(c) \/ RunCallback(c)
    \/ FinishDiscards(c) \/ FinishReturns(c)
    \/ ReleaseStores(c) \/ ReleaseChecks(c) \/ ReleaseUndoes(c)

CallbackNext ==
    \/ \E c \in Invokers : CallerStep(c)
    \/ Execute \/ RunParent \/ CloseCache \/ Drain

CallbackSpec == CallbackInit /\ [][CallbackNext]_callbackVars

-----------------------------------------------------------------------------
(* Properties                                                               *)

\* A machine is in one place: with one caller, in the slot, or gone; what the
\* counters call alive is exactly that; and a drained cache keeps nothing once
\* the releases under way are over ("exactly one of the two always discards
\* it", callback_vm_cache.go).
OneOwner ==
    LET held(c) == {caller[c].vm} \ {NoVM} IN
    /\ alive = (UNION {held(c) : c \in Invokers}) \cup ({slot} \ {NoVM})
    /\ \A c, d \in Invokers : c # d => held(c) \cap held(d) = {}
    /\ \A c \in Invokers : slot \notin held(c)
    /\ Cardinality(alive) = built - discarded
    /\ (released /\ parent = "idle" /\ slot # NoVM) =>
          \E c \in Invokers : caller[c].step \in {"check", "undo"}

\* Cost is neither made nor lost while machines draw chunks, fail, return
\* what is left and are reused across executions: what is charged, drawn and
\* left adds up to the budget and to the chunks that outlived the execution
\* they were drawn in; and the charge exceeds that by less than one
\* instruction per machine.
CostConserved ==
    LET machines == VMs \cup {Parent}
        held     == MapThenSumSet(LAMBDA v : costRemaining[v], machines)
    IN  (CostBudget > 0 /\ executions > 0) =>
          /\ shared + held + charged = CostBudget + carried
          /\ shared >= 0
          /\ \A v \in machines : costRemaining[v] > -Max(Costs)

\* The cache of callback machines keeps each machine with one owner and the
\* budget in balance, however calls, drains and executions interleave.
CallbacksSound == OneOwner /\ CostConserved
=============================================================================
