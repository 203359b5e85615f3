---------------------------- MODULE ProcessProofs ----------------------------
(***************************************************************************)
(* A native worker launch gives its admission back last, reports no        *)
(* success over something it still owns, lets no worker run without its    *)
(* watchdog and expires no phase before its deadline, for any lifetime,    *)
(* output budget, number of faults and goroutines that call Close.         *)
(***************************************************************************)
EXTENDS WorkerProcess, TLAPS

\* What the launch has made it still owns, until finish starts.
Ownership ==
    /\ finish = "no" => "admission" \in held
    /\ finish = "no" /\ launch \in 7..Started => "group" \in held
    /\ finish # "no" => launch \in {0, Started} /\ "worker" \notin tasks /\ phase.finished
    /\ "worker" \in tasks => launch = Started
    /\ tasks \cap {"worker", "child"} # {} => "group" \in held
    /\ "watchdog" \in tasks => "wdGroup" \in held
    /\ AdmissionHeldLongest

\* One goroutine cleans up, after finish has begun, and the steps behind it
\* have nothing left to release.
Cleanups ==
    /\ cleaner.by = "finish" <=> finish = "cleanup"
    /\ cleaner.by \in Closers => finish = "done"
    /\ cleaner.by # "none" =>
          /\ cleaner.step # 0
          /\ \A i \in 1..Len(CleanupSteps) : i < cleaner.step => CleanupSteps[i] \notin held

\* What finish has found out so far.
Verdict ==
    /\ launch = Started /\ "worker" \notin tasks => exit # "none"
    /\ finish # "no" /\ ~failed => exit = "ok" /\ ~phase.err
    /\ finish = "done" /\ ~cleanupErr => held = {}

\* A worker that may run has a watchdog that may run; a watchdog is only
\* cancelled once the worker's group is gone.
Supervision ==
    /\ ~lost /\ (tasks \ doomed) \cap {"worker", "child"} # {} => "watchdog" \in tasks \ doomed
    /\ host = "up" /\ launch \in 5..Len(LaunchSteps) /\ ~lost => "watchdog" \in tasks \ doomed
    /\ launch \in 1..4 => "watchdog" \notin tasks /\ wd = "none" /\ ~wdCancelled
    /\ wd = "done" => "watchdog" \notin tasks
    /\ wdCancelled /\ "watchdog" \in tasks => finish # "no" /\ "group" \notin held

\* The output stays within its budget, only a timer that is due has fired, and
\* a deadline being set is one.
Budgets ==
    /\ output.used <= OutputBytes
    /\ \A d \in phase.fired : d <= now
    /\ setting # NoCall => setting.deadline # 0

\* The conjuncts that relate several variables.
Kept == Ownership /\ Cleanups /\ Verdict /\ Supervision

ProcessInv == TypeOK /\ Kept /\ Budgets
-----------------------------------------------------------------------------
LEMMA LaunchOrder ==
    /\ Len(LaunchSteps) = 8 /\ Started = 9
    /\ LaunchSteps[1] = "service" /\ LaunchSteps[2] = "checkpoint" /\ LaunchSteps[3] = "container"
    /\ LaunchSteps[4] = "watchdog" /\ LaunchSteps[5] = "ready" /\ LaunchSteps[6] = "group"
    /\ LaunchSteps[7] = "image" /\ LaunchSteps[8] = "start"
  BY DEF LaunchSteps, Started

LEMMA CleanupOrder ==
    /\ Len(CleanupSteps) = 9
    /\ CleanupSteps[1] = "group" /\ CleanupSteps[2] = "image" /\ CleanupSteps[3] = "supervisor"
    /\ CleanupSteps[4] = "wdGroup" /\ CleanupSteps[5] = "wdImage" /\ CleanupSteps[6] = "container"
    /\ CleanupSteps[7] = "service" /\ CleanupSteps[8] = "checkpoint"
    /\ CleanupSteps[9] = "admission"
    /\ Resources = {"group", "image", "wdGroup", "wdImage", "container", "service", "checkpoint",
                    "admission"}
  BY DEF CleanupSteps, Resources

LEMMA InitProcessInv == Init => ProcessInv
<1> SUFFICES ASSUME Init PROVE ProcessInv
  OBVIOUS
<1> USE LaunchOrder, CleanupOrder DEF Init
<1>1. TypeOK
  <2>1. Lifetime \in Nat /\ Lifetime > 0 /\ MaxFaults \in Nat
    BY ProcessAssumption
  <2>2. {cancelled, wdCancelled, linked, lost, failed, cleanupErr} \subseteq BOOLEAN
    BY Zenon
  <2>3. /\ phase \in [deadline : 1..Never, timer : 1..Never, fired : SUBSET (1..Lifetime),
                       finished : BOOLEAN, err : BOOLEAN]
        /\ setting \in [deadline : 0..Lifetime, read : 0..Lifetime]
    BY <2>1 DEF Never, NoCall
  <2>4. cleaner \in [by : Closers \cup {"none", "finish"}, step : 0..Len(CleanupSteps)]
    BY DEF Unlocked
  <2> QED BY <2>1, <2>2, <2>3, <2>4 DEF TypeOK
<1>2. Ownership /\ Supervision
  BY DEF Ownership, AdmissionHeldLongest, Supervision
<1>3. Cleanups
  BY ProcessAssumption DEF Cleanups, Unlocked
<1>4. Verdict /\ Budgets
  BY ProcessAssumption DEF Verdict, Budgets
<1> QED BY <1>1, <1>2, <1>3, <1>4 DEF ProcessInv, Kept
-----------------------------------------------------------------------------
(* Values keep their types.                                                 *)

LEMMA LaunchTypes == ASSUME TypeOK, Launch PROVE TypeOK'
<1> USE LaunchOrder, CleanupOrder DEF TypeOK, launchVars, taskVars, phaseVars, endVars
<1>1. ASSUME NEW s \in {"service", "checkpoint", "container", "group", "image"}, NewResource(s)
      PROVE  TypeOK'
  BY <1>1 DEF NewResource, Launching
<1>2. CASE LaunchWatchdog
  BY <1>2 DEF LaunchWatchdog, Launching, Tasks
<1>3. CASE AwaitWatchdogReady
  BY <1>3 DEF AwaitWatchdogReady, Launching
<1>4. CASE Start
  BY <1>4 DEF Start, Launching, Tasks
<1>5. CASE LaunchFails
  <2>1. held' \subseteq Resources
    BY <1>5 DEF LaunchFails, Groups
  <2>2. wd' \in {"none", "running", "done"} /\ faults' \in 0..MaxFaults
    BY <1>5, ProcessAssumption DEF LaunchFails, Fault
  <2>3. wdCancelled' \in BOOLEAN
    <3>1. CASE wdCancelled' = wdCancelled
      BY <3>1
    <3>2. CASE wdCancelled' = (wdCancelled \/ wd' = "done")
      BY <3>2, Zenon
    <3> QED BY <1>5, <3>1, <3>2 DEF LaunchFails
  <2>4. linked' \in BOOLEAN
    BY <1>5 DEF LaunchFails
  <2>5. {cancelled, wdCancelled, linked, lost, failed, cleanupErr}' \subseteq BOOLEAN
    BY <1>5, <2>3, <2>4 DEF LaunchFails
  <2>6. launch' = 0 /\ UNCHANGED <<host, tasks, doomed, exit, now, phase, setting, output, finish,
                                   cleaner, closer>>
    BY <1>5 DEF LaunchFails
  <2> QED BY <2>1, <2>2, <2>5, <2>6
<1> QED BY <1>1, <1>2, <1>3, <1>4, <1>5 DEF Launch

LEMMA KernelTypes ==
    ASSUME TypeOK, Kernel \/ Watchdog \/ Contexts \/ CancelContext \/ HostDies \/ Tick
    PROVE  TypeOK'
<1> USE LaunchOrder, CleanupOrder DEF TypeOK, launchVars, taskVars, phaseVars, endVars
<1>1. CASE WorkerExits
  BY <1>1 DEF WorkerExits, Exits
<1>2. CASE Fork
  BY <1>2 DEF Fork, Tasks
<1>3. ASSUME NEW t \in Tasks, Die(t) PROVE TypeOK'
  BY <1>3 DEF Die, Exits
<1>4. CASE WatchdogKills
  <2>1. lost' \in BOOLEAN
    BY <1>4, Zenon DEF WatchdogKills
  <2>2. {cancelled, wdCancelled, linked, lost, failed, cleanupErr}' \subseteq BOOLEAN
    BY <1>4, <2>1 DEF WatchdogKills
  <2> QED BY <1>4, <2>2 DEF WatchdogKills
<1>5. CASE WatchdogCrashes
  BY <1>5, ProcessAssumption DEF WatchdogCrashes, Exits, Fault
<1>6. ASSUME NEW t \in Tasks, KillOnCancel(t) PROVE TypeOK'
  BY <1>6 DEF KillOnCancel
<1>7. CASE ReapWatchdog
  <2>1. held' \subseteq Resources /\ faults' \in 0..MaxFaults
    <3>1. CASE held' = held \ {"wdGroup", "wdImage"} /\ UNCHANGED faults
      BY <3>1
    <3>2. CASE Fault /\ held' \in {held, held \ {"wdGroup"}}
      BY <3>2, ProcessAssumption DEF Fault
    <3> QED BY <1>7, <3>1, <3>2 DEF ReapWatchdog
  <2>2. {cancelled, wdCancelled, linked, lost, failed, cleanupErr}' \subseteq BOOLEAN
    BY <1>7 DEF ReapWatchdog
  <2> QED BY <1>7, <2>1, <2>2 DEF ReapWatchdog
<1>8. CASE WatchdogExit \/ CancelContext
  <2>1. /\ cancelled' = TRUE /\ linked' \in BOOLEAN
        /\ UNCHANGED <<wdCancelled, lost, failed, cleanupErr>>
    BY <1>8, ZenonT(30) DEF WatchdogExit, CancelContext
  <2>2. {cancelled, wdCancelled, linked, lost, failed, cleanupErr}' \subseteq BOOLEAN
    BY <2>1
  <2> QED BY <1>8, <2>2, ZenonT(30) DEF WatchdogExit, CancelContext
<1>9. CASE HostDies
  BY <1>9 DEF HostDies
<1>10. CASE Tick
  BY <1>10, ProcessAssumption DEF Tick
<1> QED BY <1>1, <1>2, <1>3, <1>4, <1>5, <1>6, <1>7, <1>8, <1>9, <1>10
        DEF Kernel, Watchdog, Contexts

LEMMA PhaseTypes == ASSUME TypeOK, Budgets, Phases \/ Outputs PROVE TypeOK'
<1> USE LaunchOrder, CleanupOrder, ProcessAssumption
    DEF TypeOK, launchVars, taskVars, phaseVars, endVars, Never, NoCall
<1>1. ASSUME NEW d \in 1..Lifetime, SetDeadline(d) PROVE TypeOK'
  <2>1. CASE phase' = [phase EXCEPT !.err = TRUE] /\ cancelled' = TRUE /\ UNCHANGED setting
    <3>1. {cancelled, wdCancelled, linked, lost, failed, cleanupErr}' \subseteq BOOLEAN
      BY <1>1, <2>1 DEF SetDeadline
    <3> QED BY <1>1, <2>1, <3>1, ZenonT(30) DEF SetDeadline
  <2>2. CASE setting' = [deadline |-> d, read |-> now] /\ UNCHANGED <<phase, cancelled>>
    BY <1>1, <2>2 DEF SetDeadline
  <2> QED BY <1>1, <2>1, <2>2, Zenon DEF SetDeadline
<1>2. ASSUME NEW d \in 1..Lifetime, ExpirePhase(d) PROVE TypeOK'
  <2> DEFINE current == ~phase.finished /\ phase.deadline = d
  <2>1. cancelled' \in BOOLEAN
    BY <1>2, Zenon DEF ExpirePhase
  <2>2. {cancelled, wdCancelled, linked, lost, failed, cleanupErr}' \subseteq BOOLEAN
    BY <1>2, <2>1 DEF ExpirePhase
  <2>3. phase' \in [deadline : 1..Never, timer : 1..Never, fired : SUBSET (1..Lifetime),
                    finished : BOOLEAN, err : BOOLEAN]
    <3>1. phase' = [phase EXCEPT !.fired = @ \ {d}, !.err = @ \/ current]
      BY <1>2 DEF ExpirePhase
    <3>2. CASE current
      <4>1. phase' = [phase EXCEPT !.fired = @ \ {d}, !.err = TRUE]
        BY <3>1, <3>2, Zenon
      <4> QED BY <4>1, Zenon
    <3>3. CASE ~current
      <4>1. phase' = [phase EXCEPT !.fired = @ \ {d}]
        BY <3>1, <3>3, ZenonT(30)
      <4> QED BY <4>1
    <3> QED BY <3>2, <3>3
  <2> QED BY <1>2, <2>2, <2>3 DEF ExpirePhase
<1>3. CASE InstallDeadline
  <2>1. setting.deadline \in 1..Lifetime /\ setting.deadline \in 1..Never
    BY <1>3 DEF InstallDeadline, Budgets
  <2>2. setting' \in [deadline : 0..Lifetime, read : 0..Lifetime]
    BY <1>3 DEF InstallDeadline
  <2>3. phase' \in [deadline : 1..Never, timer : 1..Never, fired : SUBSET (1..Lifetime),
                    finished : BOOLEAN, err : BOOLEAN]
    <3>1. CASE phase' = [phase EXCEPT !.deadline = setting.deadline,
                                      !.timer = setting.deadline]
      BY <2>1, <3>1, Zenon
    <3>2. CASE phase' = phase
      BY <3>2
    <3> QED BY <1>3, <3>1, <3>2 DEF InstallDeadline
  <2> QED BY <1>3, <2>2, <2>3 DEF InstallDeadline
<1>4. CASE TimerFires
  <2>1. phase.timer \in 1..Lifetime
    BY <1>4 DEF TimerFires
  <2>2. phase' \in [deadline : 1..Never, timer : 1..Never, fired : SUBSET (1..Lifetime),
                    finished : BOOLEAN, err : BOOLEAN]
    <3>1. phase.fired \cup {phase.timer} \in SUBSET (1..Lifetime) /\ Never \in 1..Never
      BY <2>1
    <3>2. phase' = [phase EXCEPT !.timer = Never, !.fired = @ \cup {phase.timer}]
      BY <1>4 DEF TimerFires
    <3> HIDE DEF Never
    <3> QED BY <3>1, <3>2, Zenon
  <2> QED BY <1>4, <2>2 DEF TimerFires
<1>5. ASSUME NEW n \in 1..OutputBytes + 1, WriteOutput(n) \/ ChargeOutput(n) PROVE TypeOK'
  <2> DEFINE left == OutputBytes - output.used
  <2>1. left \in Nat /\ (n > left) \in BOOLEAN
    BY DEF Budgets
  <2>2. PICK kept \in Nat : Spend(kept, n > left)
    <3>1. /\ (IF n <= left THEN n ELSE left) \in Nat
          /\ (IF n <= left THEN n ELSE 0) \in Nat
      BY <2>1
    <3>2. \/ Spend(IF n <= left THEN n ELSE left, n > left)
          \/ Spend(IF n <= left THEN n ELSE 0, n > left)
      BY <1>5, Zenon DEF WriteOutput, ChargeOutput
    <3> QED BY <3>1, <3>2, Zenon
  <2>3. cancelled' \in BOOLEAN
    BY <2>2, Zenon DEF Spend
  <2>4. {cancelled, wdCancelled, linked, lost, failed, cleanupErr}' \subseteq BOOLEAN
    BY <2>2, <2>3 DEF Spend
  <2>5. output' \in [used : Nat, exceeded : BOOLEAN]
    <3>1. output.used + kept \in Nat
      OBVIOUS
    <3> QED BY <2>1, <2>2, <3>1, Zenon DEF Spend
  <2> QED BY <2>2, <2>4, <2>5 DEF Spend
<1> QED BY <1>1, <1>2, <1>3, <1>4, <1>5 DEF Phases, Outputs

LEMMA ReturnTypes ==
    ASSUME TypeOK, NEW error \in BOOLEAN, Return(error)
    PROVE  /\ cleaner' \in [by : Closers \cup {"none", "finish"}, step : 0..Len(CleanupSteps)]
           /\ finish' \in {"no", "published", "cleanup", "done"}
           /\ closer' \in [Closers -> {"idle", "waiting", "cleaning", "released", "retained"}]
           /\ cleanupErr' \in BOOLEAN
<1>1. cleaner' \in [by : Closers \cup {"none", "finish"}, step : 0..Len(CleanupSteps)]
  BY CleanupOrder DEF Return, Unlocked
<1>2. CASE cleaner.by = "finish"
  BY <1>1, <1>2 DEF Return, TypeOK
<1>3. CASE cleaner.by # "finish"
  <2>1. closer' = [closer EXCEPT ![cleaner.by] = IF error THEN "retained" ELSE "released"]
        /\ UNCHANGED <<finish, cleanupErr>>
    BY <1>3, Zenon DEF Return
  <2>2. (IF error THEN "retained" ELSE "released") \in {"retained", "released"}
    OBVIOUS
  <2>3. closer' \in [Closers -> {"idle", "waiting", "cleaning", "released", "retained"}]
    BY <2>1, <2>2, Zenon DEF TypeOK
  <2> QED BY <1>1, <2>1, <2>3 DEF TypeOK
<1> QED BY <1>2, <1>3

LEMMA AdvanceTypes ==
    ASSUME TypeOK, Advance
    PROVE  /\ cleaner' \in [by : Closers \cup {"none", "finish"}, step : 0..Len(CleanupSteps)]
           /\ finish' \in {"no", "published", "cleanup", "done"}
           /\ closer' \in [Closers -> {"idle", "waiting", "cleaning", "released", "retained"}]
           /\ cleanupErr' \in BOOLEAN
<1> USE CleanupOrder DEF TypeOK
<1>1. CASE cleaner.step = Len(CleanupSteps)
  BY <1>1, ReturnTypes, Zenon DEF Advance
<1>2. CASE cleaner.step # Len(CleanupSteps)
  <2>1. cleaner.step + 1 \in 0..Len(CleanupSteps)
    BY <1>2
  <2>2. cleaner' = [cleaner EXCEPT !.step = cleaner.step + 1]
        /\ UNCHANGED <<finish, cleanupErr, closer>>
    BY <1>2 DEF Advance
  <2> QED BY <2>1, <2>2
<1> QED BY <1>1, <1>2

LEMMA EndTypes == ASSUME TypeOK, Ends PROVE TypeOK'
<1> USE LaunchOrder, CleanupOrder
    DEF TypeOK, launchVars, taskVars, phaseVars, endVars
<1>1. CASE Finish
  <2> DEFINE late == now >= phase.deadline
  <2>1. failed' \in BOOLEAN
    <3>1. failed' = (launch = 0 \/ exit = "error" \/ cancelled \/ phase'.err)
      BY <1>1, Zenon DEF Finish
    <3> QED BY <3>1, Zenon
  <2>2. {cancelled, wdCancelled, linked, lost, failed, cleanupErr}' \subseteq BOOLEAN
    BY <1>1, <2>1 DEF Finish
  <2>3. phase' \in [deadline : 1..Never, timer : 1..Never, fired : SUBSET (1..Lifetime),
                    finished : BOOLEAN, err : BOOLEAN]
    <3>1. phase' = [phase EXCEPT !.finished = TRUE, !.timer = Never, !.err = @ \/ late]
      BY <1>1 DEF Finish
    <3>2. Never \in 1..Never
      BY ProcessAssumption DEF Never
    <3>3. CASE late
      <4>1. phase' = [phase EXCEPT !.finished = TRUE, !.timer = Never, !.err = TRUE]
        BY <3>1, <3>3, Zenon
      <4> QED BY <3>2, <4>1, Zenon
    <3>4. CASE ~late
      <4>1. phase' = [phase EXCEPT !.finished = TRUE, !.timer = Never]
        BY <3>1, <3>4, ZenonT(30)
      <4> QED BY <3>2, <4>1, Zenon
    <3> QED BY <3>3, <3>4
  <2>4. finish' = "published" /\ UNCHANGED <<host, launchVars, tasks, doomed, exit, now, setting,
                                             output, cleaner, closer, faults>>
    BY <1>1 DEF Finish
  <2> QED BY <2>2, <2>3, <2>4
<1>2. CASE FinishOutput
  <2>1. failed' \in BOOLEAN
    BY <1>2, Zenon DEF FinishOutput
  <2>2. {cancelled, wdCancelled, linked, lost, failed, cleanupErr}' \subseteq BOOLEAN
    BY <1>2, <2>1 DEF FinishOutput
  <2>3. cleaner' \in [by : Closers \cup {"none", "finish"}, step : 0..Len(CleanupSteps)]
    BY <1>2 DEF FinishOutput
  <2>4. finish' = "cleanup" /\ UNCHANGED <<host, launchVars, taskVars, phaseVars, output, closer,
                                           faults>>
    BY <1>2 DEF FinishOutput
  <2> QED BY <2>2, <2>3, <2>4
<1>3. ASSUME NEW g \in Groups, KillGroup(g) PROVE TypeOK'
  BY <1>3 DEF KillGroup
<1>4. ASSUME NEW s \in Resources, CleanupStep(s) PROVE TypeOK'
  <2>1. Advance
    BY <1>4, Zenon DEF CleanupStep
  <2>2. {cancelled, wdCancelled, linked, lost, failed, cleanupErr}' \subseteq BOOLEAN
    <3>1. cleanupErr' \in BOOLEAN
      BY <2>1, AdvanceTypes
    <3> QED BY <1>4, <3>1 DEF CleanupStep
  <2> QED BY <1>4, <2>1, <2>2, AdvanceTypes, ZenonT(30) DEF CleanupStep
<1>5. CASE StopSupervisor
  <2>1. {cancelled, wdCancelled, linked, lost, failed, cleanupErr}' \subseteq BOOLEAN
    <3>1. linked' = FALSE /\ wdCancelled' = TRUE /\ UNCHANGED <<lost, cancelled, failed, cleanupErr>>
      BY <1>5, Zenon DEF StopSupervisor
    <3>2. {cancelled, lost, failed, cleanupErr} \subseteq BOOLEAN
      OBVIOUS
    <3> HIDE DEF TypeOK
    <3> QED BY <3>1, <3>2, Zenon
  <2> QED BY <1>5, <2>1 DEF StopSupervisor
<1>6. CASE SupervisorStopped
  <2>1. Advance
    BY <1>6 DEF SupervisorStopped
  <2>2. {cancelled, wdCancelled, linked, lost, failed, cleanupErr}' \subseteq BOOLEAN
    <3>1. cleanupErr' \in BOOLEAN
      BY <2>1, AdvanceTypes
    <3>2. linked' = FALSE /\ UNCHANGED <<wdCancelled, lost, cancelled, failed>>
      BY <1>6, Zenon DEF SupervisorStopped
    <3>3. {cancelled, wdCancelled, lost, failed} \subseteq BOOLEAN
      OBVIOUS
    <3> HIDE DEF TypeOK
    <3> QED BY <3>1, <3>2, <3>3, ZenonT(30)
  <2> QED BY <1>6, <2>1, <2>2, AdvanceTypes DEF SupervisorStopped
<1>7. CASE CleanupFails
  <2>1. held' \subseteq Resources
    BY <1>7 DEF CleanupFails
  <2>2. /\ cleaner' \in [by : Closers \cup {"none", "finish"}, step : 0..Len(CleanupSteps)]
        /\ finish' \in {"no", "published", "cleanup", "done"}
        /\ closer' \in [Closers -> {"idle", "waiting", "cleaning", "released", "retained"}]
        /\ cleanupErr' \in BOOLEAN
    BY <1>7, ReturnTypes, Zenon DEF CleanupFails
  <2>3. faults' \in 0..MaxFaults
    BY <1>7, ProcessAssumption DEF CleanupFails, Fault
  <2>4. UNCHANGED <<host, launch, wd, wdCancelled, linked, taskVars, cancelled, phaseVars, output,
                    failed>>
    BY <1>7 DEF CleanupFails
  <2>5. {cancelled, wdCancelled, linked, lost, failed, cleanupErr}' \subseteq BOOLEAN
    BY <2>2, <2>4
  <2> QED BY <2>1, <2>2, <2>3, <2>4, <2>5
<1>8. ASSUME NEW c \in Closers, Close(c) PROVE TypeOK'
  <2>1. {cancelled, wdCancelled, linked, lost, failed, cleanupErr}' \subseteq BOOLEAN
    BY <1>8 DEF Close
  <2> QED BY <1>8, <2>1 DEF Close
<1>9. ASSUME NEW c \in Closers, CloseCleanup(c) PROVE TypeOK'
  BY <1>9 DEF CloseCleanup
<1> QED BY <1>1, <1>2, <1>3, <1>4, <1>5, <1>6, <1>7, <1>8, <1>9 DEF Ends, Clean

LEMMA StepTypes == ASSUME ProcessInv, [Next]_vars PROVE TypeOK'
<1>1. CASE Launch
  BY <1>1, LaunchTypes DEF ProcessInv
<1>2. CASE Kernel \/ Watchdog \/ Contexts \/ CancelContext \/ HostDies \/ Tick
  BY <1>2, KernelTypes DEF ProcessInv
<1>3. CASE Phases \/ Outputs
  BY <1>3, PhaseTypes DEF ProcessInv
<1>4. CASE Ends
  BY <1>4, EndTypes DEF ProcessInv
<1>5. CASE UNCHANGED vars
  BY <1>5 DEF ProcessInv, TypeOK, vars, launchVars, taskVars, phaseVars, endVars
<1> QED BY <1>1, <1>2, <1>3, <1>4, <1>5 DEF Next, Complete
-----------------------------------------------------------------------------
(* A launch adds what it makes and finds its watchdog running.              *)

LEMMA LaunchKeeps == ASSUME ProcessInv, Launch PROVE Kept'
<1> USE LaunchOrder
<1>1. host = "up" /\ launch \in 1..8 /\ finish = "no" /\ "admission" \in held
      /\ "worker" \notin tasks /\ doomed \subseteq tasks
  BY SMTT(20) DEF Launch, NewResource, LaunchWatchdog, AwaitWatchdogReady, Start, LaunchFails,
         Launching, ProcessInv, Kept, Ownership, TypeOK
<1>2. cleaner.by = "none"
  BY <1>1 DEF ProcessInv, Kept, Cleanups, TypeOK
<1>3. UNCHANGED <<host, exit, phase, finish, cleaner, doomed, lost>> /\ held \subseteq held'
  BY DEF Launch, NewResource, LaunchWatchdog, AwaitWatchdogReady, Start, LaunchFails, Launching,
         taskVars, phaseVars, endVars
<1>4. Cleanups'
  BY <1>1, <1>2, <1>3 DEF ProcessInv, Kept, Cleanups
<1>5. ASSUME NEW s \in {"service", "checkpoint", "container", "group", "image"}, NewResource(s)
      PROVE  Kept'
  <2>1. /\ launch' = launch + 1 /\ launch' \in 2..8 /\ launch # 4 /\ launch # 5
        /\ held' = held \cup {s} /\ (launch = 6 => s = "group")
        /\ UNCHANGED <<wd, wdCancelled, tasks, lost>>
    BY <1>1, <1>5 DEF NewResource, Launching, taskVars
  <2>2. Ownership'
    BY <1>1, <1>3, <2>1 DEF ProcessInv, Kept, Ownership, AdmissionHeldLongest
  <2>3. Verdict'
    BY <1>1, <1>3, <2>1 DEF Verdict
  <2>4. Supervision'
    BY <1>1, <1>3, <2>1 DEF ProcessInv, Kept, Supervision
  <2> QED BY <1>4, <2>2, <2>3, <2>4 DEF Kept
<1>6. CASE LaunchWatchdog
  <2>1. launch = 4 /\ launch' = 5 /\ wd' = "running" /\ tasks' = tasks \cup {"watchdog"}
        /\ "wdGroup" \in held' /\ UNCHANGED wdCancelled
    BY <1>1, <1>6 DEF LaunchWatchdog, Launching
  <2>2. Ownership'
    BY <1>1, <1>3, <2>1 DEF ProcessInv, Kept, Ownership, AdmissionHeldLongest
  <2>3. Verdict'
    BY <1>1, <1>3, <2>1 DEF Verdict
  <2>4. Supervision'
    BY <1>1, <1>3, <2>1 DEF ProcessInv, Kept, Supervision
  <2> QED BY <1>4, <2>2, <2>3, <2>4 DEF Kept
<1>7. CASE AwaitWatchdogReady
  <2>1. launch = 5 /\ launch' = 6 /\ UNCHANGED <<held, wd, wdCancelled, tasks>>
    BY <1>1, <1>7 DEF AwaitWatchdogReady, Launching, taskVars
  <2>2. Ownership'
    BY <1>1, <1>3, <2>1 DEF ProcessInv, Kept, Ownership, AdmissionHeldLongest
  <2>3. Verdict'
    BY <1>1, <1>3, <2>1 DEF Verdict
  <2>4. Supervision'
    BY <1>1, <1>3, <2>1 DEF ProcessInv, Kept, Supervision
  <2> QED BY <1>4, <2>2, <2>3, <2>4 DEF Kept
<1>8. CASE Start
  <2>1. launch = 8 /\ launch' = 9 /\ tasks' = tasks \cup {"worker"} /\ "group" \in held
        /\ UNCHANGED <<held, wd, wdCancelled>>
    BY <1>1, <1>8 DEF Start, Launching, ProcessInv, Kept, Ownership
  <2>2. Ownership'
    BY <1>1, <1>3, <2>1 DEF ProcessInv, Kept, Ownership, AdmissionHeldLongest
  <2>3. Verdict'
    BY <1>1, <1>3, <2>1 DEF Verdict
  <2>4. Supervision'
    BY <1>1, <1>3, <2>1 DEF ProcessInv, Kept, Supervision
  <2> QED BY <1>4, <2>2, <2>3, <2>4 DEF Kept
<1>9. CASE LaunchFails
  <2>1. launch' = 0 /\ UNCHANGED tasks
    BY <1>9 DEF LaunchFails, taskVars
  <2>2. wd' = "done" => "watchdog" \notin tasks
    BY <1>1, <1>9 DEF LaunchFails, ProcessInv, Kept, Supervision
  <2>3. wdCancelled' => wdCancelled \/ "watchdog" \notin tasks
    BY <1>9, <2>2, Zenon DEF LaunchFails
  <2>4. Ownership'
    BY <1>1, <1>3, <2>1 DEF ProcessInv, Kept, Ownership, AdmissionHeldLongest
  <2>5. Verdict'
    BY <1>1, <1>3, <2>1 DEF Verdict
  <2>6. Supervision'
    BY <1>1, <1>3, <2>1, <2>2, <2>3 DEF ProcessInv, Kept, Supervision
  <2> QED BY <1>4, <2>4, <2>5, <2>6 DEF Kept
<1> QED BY <1>5, <1>6, <1>7, <1>8, <1>9 DEF Launch
-----------------------------------------------------------------------------
(* Steps that leave the launch, the tasks and the cleanup alone.            *)

LEMMA QuietKeeps ==
    ASSUME ProcessInv,
           UNCHANGED <<launch, held, wd, wdCancelled, tasks, doomed, exit, lost, finish, failed,
                       cleaner, cleanupErr>>,
           host' = "up" => host = "up",
           phase.finished => phase'.finished /\ phase'.err = phase.err
    PROVE  Kept'
<1>1. Ownership'
  BY DEF ProcessInv, Kept, Ownership, AdmissionHeldLongest
<1>2. Cleanups'
  BY DEF ProcessInv, Kept, Cleanups
<1>3. Verdict'
  BY DEF ProcessInv, Kept, Verdict, Ownership
<1>4. Supervision'
  BY DEF ProcessInv, Kept, Supervision
<1> QED BY <1>1, <1>2, <1>3, <1>4 DEF Kept

LEMMA QuietStep ==
    ASSUME ProcessInv,
           WatchdogExit \/ CancelContext \/ HostDies \/ Tick \/ Phases \/ Outputs
             \/ (\E c \in Closers : Close(c)) \/ UNCHANGED vars
    PROVE  Kept'
<1> USE DEF launchVars, taskVars, phaseVars, endVars
<1>1. CASE WatchdogExit \/ CancelContext \/ HostDies \/ Tick \/ \E c \in Closers : Close(c)
  <2>1. UNCHANGED <<launch, held, wd, wdCancelled, tasks, doomed, exit, lost, finish, failed,
                    cleaner, cleanupErr, phase>> /\ (host' = "up" => host = "up")
    BY <1>1 DEF WatchdogExit, CancelContext, HostDies, Tick, Close
  <2> QED BY <2>1, QuietKeeps
<1>2. CASE Outputs
  <2>1. PICK kept, over : Spend(kept, over)
    BY <1>2, Zenon DEF Outputs, WriteOutput, ChargeOutput
  <2> QED BY <2>1, QuietKeeps DEF Spend
<1>3. CASE Phases
  <2>1. UNCHANGED <<host, launch, held, wd, wdCancelled, tasks, doomed, exit, lost, finish, failed,
                    cleaner, cleanupErr>>
    BY <1>3, Zenon DEF Phases, SetDeadline, ExpirePhase, InstallDeadline, TimerFires
  <2>2. ASSUME phase.finished PROVE phase'.finished /\ phase'.err = phase.err
    <3> USE <2>2 DEF ProcessInv, TypeOK
    <3>1. ASSUME NEW d \in 1..Lifetime, ExpirePhase(d)
          PROVE  phase'.finished /\ phase'.err = phase.err
      <4>1. phase' = [phase EXCEPT !.fired = @ \ {d}, !.err = @ \/ FALSE]
        BY <3>1 DEF ExpirePhase
      <4> QED BY <4>1
    <3>2. CASE InstallDeadline
      BY <3>2, Zenon DEF InstallDeadline
    <3>3. CASE TimerFires
      BY <3>3 DEF TimerFires
    <3> QED BY <1>3, <3>1, <3>2, <3>3 DEF Phases, SetDeadline
  <2> QED BY <2>1, <2>2, QuietKeeps, Zenon
<1>4. CASE UNCHANGED vars
  BY <1>4, QuietKeeps DEF vars
<1> QED BY <1>1, <1>2, <1>3, <1>4
-----------------------------------------------------------------------------
(* The kernel, the watchdog and its reaper.                                 *)

LEMMA KernelKeeps ==
    ASSUME ProcessInv, Kernel \/ Watchdog \/ (\E t \in Tasks : KillOnCancel(t)) \/ ReapWatchdog
    PROVE  Kept'
<1> USE LaunchOrder DEF launchVars, taskVars, phaseVars, endVars
<1>1. doomed \subseteq tasks /\ tasks \subseteq Tasks
  BY DEF ProcessInv, TypeOK
<1>2. UNCHANGED <<host, launch, phase, finish, failed, cleaner, cleanupErr>>
  BY DEF Kernel, WorkerExits, Fork, Die, Watchdog, WatchdogKills, WatchdogCrashes, KillOnCancel,
         ReapWatchdog
<1>3. ASSUME NEW t \in tasks, NEW status \in {"ok", "error", exit}, Exits(t, status),
             t = "worker" => status # "none",
             t = "watchdog" => lost' \/ t \in doomed,
             lost => lost',
             UNCHANGED launchVars
      PROVE  Kept'
  <2>1. tasks' = tasks \ {t} /\ doomed' = doomed \ {t}
        /\ (t = "worker" => exit' # "none") /\ (t # "worker" => exit' = exit)
    BY <1>3 DEF Exits
  <2>2. Ownership'
    BY <1>2, <1>3, <2>1 DEF ProcessInv, Kept, Ownership, AdmissionHeldLongest
  <2>3. Cleanups'
    BY <1>2, <1>3 DEF ProcessInv, Kept, Cleanups
  <2>4. Verdict'
    BY <1>2, <1>3, <2>1 DEF ProcessInv, Kept, Verdict, Ownership
  <2>5. Supervision'
    BY <1>1, <1>2, <1>3, <2>1 DEF ProcessInv, Kept, Supervision
  <2> QED BY <2>2, <2>3, <2>4, <2>5 DEF Kept
<1>4. CASE WorkerExits
  BY <1>3, <1>4 DEF WorkerExits
<1>5. CASE Fork
  <2>1. /\ "worker" \in tasks \ doomed /\ tasks' = tasks \cup {"child"}
        /\ UNCHANGED <<launchVars, doomed, exit, lost>>
    BY <1>5 DEF Fork
  <2>2. Ownership'
    BY <1>2, <2>1 DEF ProcessInv, Kept, Ownership, AdmissionHeldLongest
  <2>3. Cleanups'
    BY <1>2, <2>1 DEF ProcessInv, Kept, Cleanups
  <2>4. Verdict'
    BY <1>2, <2>1 DEF ProcessInv, Kept, Verdict
  <2>5. Supervision'
    BY <1>1, <1>2, <2>1 DEF ProcessInv, Kept, Supervision
  <2> QED BY <2>2, <2>3, <2>4, <2>5 DEF Kept
<1>6. ASSUME NEW t \in Tasks, Die(t) PROVE Kept'
  BY <1>1, <1>3, <1>6 DEF Die
<1>7. CASE WatchdogCrashes
  BY <1>3, <1>7 DEF WatchdogCrashes
<1>8. ASSUME UNCHANGED <<launchVars, tasks, exit>>,
             doomed \subseteq doomed', doomed' \subseteq tasks,
             lost => lost',
             "watchdog" \in doomed' \ doomed =>
                 /\ lost' \/ doomed' = tasks \/ tasks \cap {"worker", "child"} = {}
                 /\ lost' \/ host = "dead" \/ launch \notin 5..8
      PROVE  Kept'
  <2>1. Ownership'
    BY <1>2, <1>8 DEF ProcessInv, Kept, Ownership, AdmissionHeldLongest
  <2>2. Cleanups'
    BY <1>2, <1>8 DEF ProcessInv, Kept, Cleanups
  <2>3. Verdict'
    BY <1>2, <1>8 DEF ProcessInv, Kept, Verdict
  <2>4. Supervision'
    BY <1>1, <1>2, <1>8, SMTT(20) DEF ProcessInv, Kept, Supervision, TypeOK
  <2> QED BY <2>1, <2>2, <2>3, <2>4 DEF Kept
<1>9. CASE WatchdogKills
  <2>1. /\ doomed' = tasks /\ UNCHANGED <<launchVars, tasks, exit>>
        /\ (lost => lost') /\ (host = "up" /\ launch # Started => lost')
    BY <1>9, Zenon DEF WatchdogKills
  <2>2. host \in {"up", "dead"}
    BY DEF ProcessInv, TypeOK
  <2> QED BY <1>1, <1>8, <2>1, <2>2
<1>10. ASSUME NEW t \in Tasks, KillOnCancel(t) PROVE Kept'
  <2>1. /\ t \in tasks /\ doomed' = doomed \cup {t} /\ UNCHANGED <<launchVars, tasks, exit, lost>>
        /\ (t = "watchdog" => wdCancelled)
    BY <1>10 DEF KillOnCancel
  <2>2. t = "watchdog" => tasks \cap {"worker", "child"} = {} /\ launch \notin 5..8
    BY <2>1 DEF ProcessInv, Kept, Supervision, Ownership
  <2> QED BY <1>1, <1>8, <2>1, <2>2
<1>11. CASE ReapWatchdog
  <2>1. /\ "watchdog" \notin tasks /\ wd = "running" /\ wd' = "done"
        /\ UNCHANGED <<tasks, doomed, exit, lost>>
    BY <1>11 DEF ReapWatchdog
  <2>2. held' \subseteq held /\ held \ {"wdGroup", "wdImage"} \subseteq held'
    BY <1>11 DEF ReapWatchdog
  <2>3. Ownership'
    BY <1>2, <2>1, <2>2 DEF ProcessInv, Kept, Ownership, AdmissionHeldLongest
  <2>4. Cleanups'
    BY <1>2, <2>2 DEF ProcessInv, Kept, Cleanups
  <2>5. Verdict'
    BY <1>2, <2>1, <2>2 DEF ProcessInv, Kept, Verdict
  <2>6. Supervision'
    BY <1>1, <1>2, <2>1, <2>2 DEF ProcessInv, Kept, Supervision
  <2> QED BY <2>3, <2>4, <2>5, <2>6 DEF Kept
<1> QED BY <1>4, <1>5, <1>6, <1>7, <1>9, <1>10, <1>11 DEF Kernel, Watchdog
-----------------------------------------------------------------------------
(* finish and the cleanups it and Close run.                                *)

LEMMA WhileCleaning ==
    ASSUME ProcessInv, cleaner.by # "none"
    PROVE  /\ finish \in {"cleanup", "done"} /\ (finish = "cleanup" <=> cleaner.by = "finish")
           /\ cleaner.step \in 1..9
           /\ \A i \in 1..9 : i < cleaner.step => CleanupSteps[i] \notin held
           /\ launch \in {0, 9} /\ "worker" \notin tasks
  BY LaunchOrder, CleanupOrder DEF ProcessInv, Kept, Cleanups, Ownership, TypeOK

LEMMA FinishKeeps == ASSUME ProcessInv, Finish \/ FinishOutput PROVE Kept'
<1> USE LaunchOrder DEF launchVars, taskVars, phaseVars, endVars
<1>1. UNCHANGED <<host, launch, held, wd, wdCancelled, tasks, doomed, exit, lost, cleanupErr>>
      /\ finish' \in {"published", "cleanup"}
  BY DEF Finish, FinishOutput
<1>2. Supervision'
  BY <1>1 DEF ProcessInv, Kept, Supervision
<1>3. CASE Finish
  <2>1. /\ finish = "no" /\ finish' = "published" /\ UNCHANGED cleaner
        /\ launch \in {0, 9} /\ "worker" \notin tasks
    BY <1>3 DEF Finish, ProcessInv, Kept, Ownership
  <2>2. phase'.finished
    BY <1>3 DEF Finish, ProcessInv, TypeOK
  <2>3. Ownership'
    BY <1>1, <2>1, <2>2 DEF ProcessInv, Kept, Ownership, AdmissionHeldLongest
  <2>4. Cleanups'
    BY <1>1, <2>1 DEF ProcessInv, Kept, Cleanups
  <2>5. Verdict'
    <3>1. ~failed' => launch # 0 /\ exit # "error" /\ ~phase'.err
      BY <1>3, Zenon DEF Finish
    <3>2. exit \in {"none", "ok", "error"}
      BY DEF ProcessInv, TypeOK
    <3> QED BY <1>1, <2>1, <3>1, <3>2 DEF ProcessInv, Kept, Verdict
  <2> QED BY <1>2, <2>3, <2>4, <2>5 DEF Kept
<1>4. CASE FinishOutput
  <2>1. /\ finish = "published" /\ finish' = "cleanup" /\ UNCHANGED phase
        /\ cleaner' = [by |-> "finish", step |-> 1] /\ (~failed' => ~failed)
    BY <1>4, Zenon DEF FinishOutput
  <2>2. Ownership'
    BY <1>1, <2>1 DEF ProcessInv, Kept, Ownership, AdmissionHeldLongest
  <2>3. Cleanups'
    BY <2>1, ProcessAssumption DEF Cleanups
  <2>4. Verdict'
    BY <1>1, <2>1 DEF ProcessInv, Kept, Verdict
  <2> QED BY <1>2, <2>2, <2>3, <2>4 DEF Kept
<1> QED BY <1>3, <1>4

\* What a step of cleanup releases nothing uses any more.
LEMMA ReleaseKeeps ==
    ASSUME ProcessInv, cleaner.by # "none",
           NEW s, s = CleanupSteps[cleaner.step],
           held' \in {held, held \ {s}},
           s = "group" /\ held' # held => tasks \cap {"worker", "child"} = {},
           s = "wdGroup" /\ held' # held => "watchdog" \notin tasks,
           finish' \in {finish, "done"}, failed' = failed,
           UNCHANGED <<host, launch, tasks, doomed, exit, lost, phase, wd, wdCancelled>>
    PROVE  /\ Ownership' /\ Supervision'
           /\ (s = "admission" /\ held' # held => held' = {})
<1> USE LaunchOrder, CleanupOrder, WhileCleaning
<1>1. ASSUME s = "admission" PROVE held \subseteq {"admission"}
  <2>1. cleaner.step = 9
    <3>1. cleaner.step \in 1..9
      OBVIOUS
    <3>2. CleanupSteps[cleaner.step] = "admission"
      BY <1>1
    <3> HIDE WhileCleaning
    <3> QED BY <3>1, <3>2
  <2>2. \A i \in 1..8 : CleanupSteps[i] \notin held
    BY <2>1
  <2>3. {"group", "image", "wdGroup", "wdImage", "container", "service", "checkpoint"} \cap held = {}
    BY <2>2, SMTT(20)
  <2>4. held \subseteq Resources
    BY SMTT(20) DEF ProcessInv, TypeOK
  <2> QED BY <2>3, <2>4
<1>2. s = "admission" => tasks = {}
  BY <1>1, SMTT(20) DEF ProcessInv, Kept, Ownership, TypeOK, Tasks
<1>3. Ownership'
  BY <1>1, <1>2 DEF ProcessInv, Kept, Ownership, AdmissionHeldLongest
<1>4. Supervision'
  BY DEF ProcessInv, Kept, Supervision
<1> QED BY <1>1, <1>3, <1>4

LEMMA CleanKeeps == ASSUME ProcessInv, Clean PROVE Kept'
<1> USE LaunchOrder, CleanupOrder, WhileCleaning DEF launchVars, taskVars, phaseVars, endVars
<1>1. ASSUME NEW g \in Groups, KillGroup(g) PROVE Kept'
  <2>1. /\ cleaner.by # "none" /\ CleanupSteps[cleaner.step] = g
        /\ doomed' = doomed \cup (tasks \cap Population(g))
        /\ UNCHANGED <<host, launch, held, wd, wdCancelled, tasks, exit, lost, phase, finish,
                       failed, cleaner, cleanupErr>>
    BY <1>1 DEF KillGroup, Cleaning
  <2>2. (tasks \ doomed') \cap {"worker", "child"} = {}
    <3>1. CASE g = "group"
      BY <2>1, <3>1 DEF Population
    <3>2. CASE g # "group"
      <4>1. "group" \notin held
        BY <2>1, <3>2, SMTT(20)
      <4> QED BY <4>1 DEF ProcessInv, Kept, Ownership
    <3> QED BY <3>1, <3>2
  <2>3. Ownership'
    BY <2>1 DEF ProcessInv, Kept, Ownership, AdmissionHeldLongest
  <2>4. Cleanups'
    BY <2>1 DEF ProcessInv, Kept, Cleanups
  <2>5. Verdict'
    BY <2>1, SMTT(20) DEF ProcessInv, Kept, Verdict
  <2>6. Supervision'
    BY <2>1, <2>2 DEF ProcessInv, Kept, Supervision
  <2> QED BY <2>3, <2>4, <2>5, <2>6 DEF Kept
<1>2. ASSUME NEW s, cleaner.by # "none", s = CleanupSteps[cleaner.step],
             held' \in {held, held \ {s}}, s \notin held',
             s = "group" /\ held' # held => tasks \cap {"worker", "child"} = {},
             s = "wdGroup" /\ held' # held => "watchdog" \notin tasks,
             Advance, failed' = failed,
             UNCHANGED <<host, launch, tasks, doomed, exit, lost, phase, wd, wdCancelled>>
      PROVE  Kept'
  <2>1. CASE cleaner.step = 9
    <3>1. /\ cleaner' = Unlocked /\ finish' = "done"
          /\ cleanupErr' \in {FALSE, cleanupErr}
      BY <1>2, <2>1, ZenonT(30) DEF Advance, Return
    <3>2. Ownership' /\ Supervision' /\ (held' # held => held' = {})
      BY <1>2, <2>1, <3>1, ReleaseKeeps
    <3>3. held' = {}
      BY <1>2, <2>1, <3>2 DEF ProcessInv, Kept, Ownership, AdmissionHeldLongest
    <3>4. Cleanups'
      BY <3>1, ProcessAssumption DEF Cleanups, Unlocked
    <3>5. Verdict'
      BY <1>2, <3>1, <3>3 DEF ProcessInv, Kept, Verdict
    <3> QED BY <3>2, <3>4, <3>5 DEF Kept
  <2>2. CASE cleaner.step # 9
    <3>1. /\ cleaner' = [cleaner EXCEPT !.step = cleaner.step + 1]
          /\ UNCHANGED <<finish, cleanupErr>>
      BY <1>2, <2>2 DEF Advance
    <3>2. Ownership' /\ Supervision'
      <4>1. finish' \in {finish, "done"}
        BY <3>1
      <4> QED BY <1>2, <4>1, ReleaseKeeps
    <3>3. cleaner'.by = cleaner.by /\ cleaner'.step = cleaner.step + 1
      BY <3>1 DEF ProcessInv, TypeOK
    <3>4. \A i \in 1..9 : i < cleaner'.step => CleanupSteps[i] \notin held'
      <4>1. ASSUME NEW i \in 1..9, i < cleaner'.step PROVE CleanupSteps[i] \notin held'
        <5>1. i < cleaner.step \/ i = cleaner.step
          BY <1>2, <3>3, <4>1
        <5>2. CASE i < cleaner.step
          BY <1>2, <5>2
        <5>3. CASE i = cleaner.step
          BY <1>2, <5>3
        <5> QED BY <5>1, <5>2, <5>3
      <4> QED BY <4>1
    <3>5. Cleanups'
      BY <1>2, <3>1, <3>3, <3>4 DEF ProcessInv, Kept, Cleanups
    <3>6. Verdict'
      BY <1>2, <3>1, SMTT(20) DEF ProcessInv, Kept, Verdict
    <3> QED BY <3>2, <3>5, <3>6 DEF Kept
  <2> QED BY <2>1, <2>2
<1>3. ASSUME NEW s \in Resources, CleanupStep(s) PROVE Kept'
  <2>1. /\ cleaner.by # "none" /\ s = CleanupSteps[cleaner.step] /\ held' = held \ {s} /\ Advance
        /\ failed' = failed
        /\ UNCHANGED <<host, launch, tasks, doomed, exit, lost, phase, wd, wdCancelled>>
    BY <1>3 DEF CleanupStep, Cleaning
  <2>2. s \in held /\ s \in Groups => tasks \cap Population(s) = {}
    BY <1>3 DEF CleanupStep
  <2>3. /\ s = "group" /\ held' # held => tasks \cap {"worker", "child"} = {}
        /\ s = "wdGroup" /\ held' # held => "watchdog" \notin tasks
    BY <2>1, <2>2 DEF Groups, Population
  <2> QED BY <1>2, <2>1, <2>3
<1>4. CASE StopSupervisor
  <2>1. /\ cleaner.by # "none" /\ CleanupSteps[cleaner.step] = "supervisor"
        /\ UNCHANGED <<host, launch, held, wd, tasks, doomed, exit, lost, phase, finish,
                       failed, cleaner, cleanupErr>>
    BY <1>4 DEF StopSupervisor, Cleaning
  <2>2. "group" \notin held
    BY <2>1, SMTT(20)
  <2>3. Ownership'
    BY <2>1 DEF ProcessInv, Kept, Ownership, AdmissionHeldLongest
  <2>4. Cleanups'
    BY <2>1 DEF ProcessInv, Kept, Cleanups
  <2>5. Verdict'
    BY <2>1, SMTT(20) DEF ProcessInv, Kept, Verdict
  <2>6. Supervision'
    BY <2>1, <2>2 DEF ProcessInv, Kept, Supervision
  <2> QED BY <2>3, <2>4, <2>5, <2>6 DEF Kept
<1>5. CASE SupervisorStopped
  <2>1. /\ cleaner.by # "none" /\ CleanupSteps[cleaner.step] = "supervisor" /\ Advance
        /\ failed' = failed
        /\ UNCHANGED <<host, launch, held, tasks, doomed, exit, lost, phase, wd, wdCancelled>>
    BY <1>5, SMTT(20) DEF SupervisorStopped, Cleaning
  <2>2. "supervisor" \notin held
    BY SMTT(20) DEF ProcessInv, TypeOK
  <2> QED BY <1>2, <2>1, <2>2
<1>6. CASE CleanupFails
  <2> DEFINE s == CleanupSteps[cleaner.step]
  <2>1. /\ cleaner.by # "none" /\ s # "admission" /\ held' \in {held, held \ {s}}
        /\ cleaner' = Unlocked /\ finish' = "done" /\ failed' = failed
        /\ UNCHANGED <<host, launch, tasks, doomed, exit, lost, phase, wd, wdCancelled>>
    BY <1>6, ZenonT(30) DEF CleanupFails, Return
  <2>2. cleanupErr' \in {TRUE, cleanupErr} /\ (cleanupErr' = cleanupErr \/ cleanupErr' = TRUE)
        /\ (finish # "done" => cleanupErr' = TRUE)
    BY <1>6, <2>1, ZenonT(30) DEF CleanupFails, Return
  <2>3. s \in Groups /\ tasks \cap Population(s) # {} => held' = held
    BY <1>6, <2>1 DEF CleanupFails
  <2>4. /\ s = "group" /\ held' # held => tasks \cap {"worker", "child"} = {}
        /\ s = "wdGroup" /\ held' # held => "watchdog" \notin tasks
    BY <2>3 DEF Groups, Population
  <2>5. Ownership' /\ Supervision'
    BY <2>1, <2>4, ReleaseKeeps
  <2>6. Cleanups'
    BY <2>1, ProcessAssumption DEF Cleanups, Unlocked
  <2>7. Verdict'
    BY <2>1, <2>2 DEF ProcessInv, Kept, Verdict
  <2> QED BY <2>5, <2>6, <2>7 DEF Kept
<1> QED BY <1>1, <1>3, <1>4, <1>5, <1>6 DEF Clean

LEMMA EndsKeep == ASSUME ProcessInv, Ends PROVE Kept'
<1>1. ASSUME NEW c \in Closers, CloseCleanup(c) PROVE Kept'
  <2>1. /\ finish = "done" /\ cleaner' = [by |-> c, step |-> 1]
        /\ UNCHANGED <<host, launch, held, wd, wdCancelled, tasks, doomed, exit, lost, phase, finish,
                       failed, cleanupErr>>
    BY <1>1 DEF CloseCleanup, launchVars, taskVars, phaseVars
  <2>2. Ownership'
    BY <2>1 DEF ProcessInv, Kept, Ownership, AdmissionHeldLongest
  <2>3. Cleanups'
    BY <2>1, ProcessAssumption DEF Cleanups
  <2>4. Verdict'
    BY <2>1 DEF ProcessInv, Kept, Verdict
  <2>5. Supervision'
    BY <2>1 DEF ProcessInv, Kept, Supervision
  <2> QED BY <2>2, <2>3, <2>4, <2>5 DEF Kept
<1> QED BY <1>1, QuietStep, FinishKeeps, CleanKeeps DEF Ends
-----------------------------------------------------------------------------
\* The kernel, the watchdog, the contexts and the end of the host touch no
\* phase, no output and no clock.
LEMMA ElsewhereIdle ==
    ASSUME Kernel \/ Watchdog \/ Contexts \/ CancelContext \/ HostDies
    PROVE  UNCHANGED <<now, output, setting, phase>>
<1> USE DEF phaseVars
<1>1. CASE Kernel
  <2>1. CASE WorkerExits
    BY <2>1 DEF WorkerExits
  <2>2. CASE Fork
    BY <2>2 DEF Fork
  <2>3. ASSUME NEW t \in Tasks, Die(t) PROVE UNCHANGED <<now, output, setting, phase>>
    BY <2>3 DEF Die
  <2> QED BY <1>1, <2>1, <2>2, <2>3, Zenon DEF Kernel
<1>2. CASE Watchdog
  BY <1>2 DEF Watchdog, WatchdogKills, WatchdogCrashes
<1>3. CASE Contexts
  <2>1. ASSUME NEW t \in Tasks, KillOnCancel(t) PROVE UNCHANGED <<now, output, setting, phase>>
    BY <2>1 DEF KillOnCancel
  <2>2. CASE ReapWatchdog \/ WatchdogExit
    BY <2>2 DEF ReapWatchdog, WatchdogExit
  <2> QED BY <1>3, <2>1, <2>2, ZenonT(30) DEF Contexts
<1>4. CASE CancelContext \/ HostDies
  BY <1>4 DEF CancelContext, HostDies
<1> QED BY <1>1, <1>2, <1>3, <1>4, Zenon

LEMMA BudgetsKept == ASSUME ProcessInv, [Next]_vars PROVE Budgets'
<1> USE ProcessAssumption DEF launchVars, taskVars, phaseVars, endVars
<1>1. ASSUME UNCHANGED <<now, output, setting>>, phase'.fired \subseteq phase.fired PROVE Budgets'
  BY <1>1 DEF ProcessInv, Budgets
<1>2. CASE Launch \/ Kernel \/ Watchdog \/ Contexts \/ CancelContext \/ HostDies
  <2>1. CASE Launch
    BY <1>1, <2>1, SMTT(20) DEF Launch, NewResource, LaunchWatchdog, AwaitWatchdogReady, Start,
                                LaunchFails
  <2>2. CASE Kernel \/ Watchdog \/ Contexts \/ CancelContext \/ HostDies
    <3>1. UNCHANGED <<now, output, setting, phase>>
      BY <2>2, ElsewhereIdle
    <3> QED BY <1>1, <3>1
  <2> QED BY <1>2, <2>1, <2>2
<1>3. CASE Tick
  <2>1. now \in Nat /\ \A d \in phase.fired : d \in Nat /\ d <= now
    BY SMTT(20) DEF ProcessInv, Budgets, TypeOK
  <2>2. now' = now + 1 /\ UNCHANGED <<phase, setting, output>>
    BY <1>3 DEF Tick
  <2>3. \A d \in phase'.fired : d <= now'
    BY <2>1, <2>2
  <2> QED BY <2>2, <2>3 DEF ProcessInv, Budgets
<1>4. CASE Phases
  <2>1. /\ phase \in [deadline : 1..Never, timer : 1..Never, fired : SUBSET (1..Lifetime),
                      finished : BOOLEAN, err : BOOLEAN]
        /\ Budgets
    BY SMTT(20) DEF ProcessInv, TypeOK
  <2>2. ASSUME NEW d \in 1..Lifetime, SetDeadline(d) PROVE Budgets'
    <3>1. UNCHANGED <<now, output>> /\ phase'.fired = phase.fired
      BY <2>1, <2>2 DEF SetDeadline
    <3>2. setting' = setting \/ setting'.deadline = d
      BY <2>2 DEF SetDeadline
    <3>3. d # 0
      OBVIOUS
    <3> QED BY <2>1, <3>1, <3>2, <3>3, Zenon DEF Budgets
  <2>3. ASSUME NEW d \in 1..Lifetime, ExpirePhase(d) PROVE Budgets'
    <3>1. UNCHANGED <<now, output, setting>> /\ phase'.fired = phase.fired \ {d}
      BY <2>1, <2>3 DEF ExpirePhase
    <3> QED BY <1>1, <3>1
  <2>4. CASE InstallDeadline
    <3>1. UNCHANGED <<now, output>> /\ phase'.fired = phase.fired /\ setting' = NoCall
      BY <2>1, <2>4, Zenon DEF InstallDeadline
    <3> QED BY <2>1, <3>1 DEF Budgets
  <2>5. CASE TimerFires
    <3>1. UNCHANGED <<now, output, setting>> /\ phase'.fired = phase.fired \cup {phase.timer}
          /\ phase.timer <= now
      BY <2>1, <2>5 DEF TimerFires
    <3> QED BY <2>1, <3>1 DEF Budgets
  <2> QED BY <1>4, <2>2, <2>3, <2>4, <2>5, ZenonT(30) DEF Phases
<1>5. CASE Outputs
  <2>1. PICK n \in 1..OutputBytes + 1 : WriteOutput(n) \/ ChargeOutput(n)
    BY <1>5 DEF Outputs
  <2>2. output.used \in 0..OutputBytes
    BY DEF ProcessInv, TypeOK, Budgets
  <2>3. PICK kept \in 0..OutputBytes - output.used : \E over : Spend(kept, over)
    BY <2>1, <2>2 DEF WriteOutput, ChargeOutput
  <2>4. output'.used = output.used + kept /\ UNCHANGED <<now, phase, setting>>
    BY <2>3 DEF Spend
  <2>5. output'.used <= OutputBytes
    BY <2>2, <2>4
  <2> QED BY <2>4, <2>5 DEF ProcessInv, Budgets
<1>6. CASE Ends
  <2>1. CASE Finish
    <3>1. UNCHANGED <<now, output, setting>> /\ phase'.fired = phase.fired
      BY <2>1, SMTT(20) DEF Finish, ProcessInv, TypeOK
    <3> QED BY <1>1, <3>1
  <2>2. CASE FinishOutput \/ Clean \/ \E c \in Closers : Close(c) \/ CloseCleanup(c)
    BY <1>1, <2>2, Zenon DEF FinishOutput, Clean, KillGroup, CleanupStep, StopSupervisor,
                      SupervisorStopped, CleanupFails, Close, CloseCleanup
  <2> QED BY <1>6, <2>1, <2>2 DEF Ends
<1>7. CASE UNCHANGED vars
  BY <1>1, <1>7, Zenon DEF vars
<1> QED BY <1>2, <1>3, <1>4, <1>5, <1>6, <1>7 DEF Next, Complete

\* The invariant of a launch: what it owns, who cleans up, what finish found,
\* who supervises the worker and what its budgets allow.
THEOREM ProcessInvariance == Spec => []ProcessInv
<1>1. ASSUME ProcessInv, [Next]_vars PROVE ProcessInv'
  <2>1. Kept'
    BY <1>1, LaunchKeeps, KernelKeeps, QuietStep, EndsKeep DEF Next, Contexts, Complete
  <2> QED BY <1>1, <2>1, StepTypes, BudgetsKept DEF ProcessInv
<1> QED BY <1>1, InitProcessInv, PTL DEF Spec

\* process_linux.go, cleanup: the admission of a launch is released only after
\* every process, group, image and lease of it, whichever step of whichever
\* cleanup fails; Wait returns nil only for a worker that ended by itself, with
\* no phase expired and everything released.
THEOREM CleanupIsHonest == Spec => []CleanupHonest
<1>1. ProcessInv => CleanupHonest
  BY DEF ProcessInv, Kept, Ownership, Verdict, CleanupHonest, SuccessIsClean, WaitSucceeds
<1> QED BY <1>1, ProcessInvariance, PTL

\* The watchdog is ready before the worker's group is made and stopped after
\* the group is confirmed empty: a worker that can run has its watchdog, unless
\* the watchdog crashed or its lifetime ended during the launch.
THEOREM WorkerIsSupervised == Spec => []Supervised
<1>1. ProcessInv => Supervised
  BY DEF ProcessInv, Kept, Supervision, Supervised
<1> QED BY <1>1, ProcessInvariance, PTL

\* expirePhase compares the deadline its timer was armed with: a timer of an
\* earlier phase that fires late expires nothing.
THEOREM DuePhaseExpires == Spec => OnlyDueExpires
<1> DEFINE Due == phase.deadline <= now \/ \E d \in 1..now : SetDeadline(d)
<1>1. ASSUME ProcessInv, [Next]_vars PROVE [~phase.err /\ phase'.err => Due]_vars
  <2> SUFFICES ASSUME ~phase.err, phase'.err, Next PROVE Due
    BY <1>1, SMTT(20)
  <2> USE <1>1, ProcessAssumption DEF launchVars, taskVars, phaseVars, endVars, ProcessInv, TypeOK
  <2>1. CASE Phases
    <3>1. ASSUME NEW d \in 1..Lifetime, SetDeadline(d) PROVE Due
      BY <3>1 DEF SetDeadline
    <3>2. ASSUME NEW d \in 1..Lifetime, ExpirePhase(d) PROVE Due
      BY <3>2 DEF ExpirePhase, Budgets
    <3>3. CASE InstallDeadline \/ TimerFires
      BY <3>3, Zenon DEF InstallDeadline, TimerFires
    <3> QED BY <2>1, <3>1, <3>2, <3>3 DEF Phases
  <2>2. CASE Finish
    BY <2>2 DEF Finish
  <2>3. ~Phases /\ ~Finish => UNCHANGED phase
    <3> HIDE DEF ProcessInv, TypeOK
    <3> SUFFICES ASSUME ~Phases, ~Finish PROVE UNCHANGED phase
      OBVIOUS
    <3>1. CASE Launch
      BY <3>1 DEF Launch, NewResource, LaunchWatchdog, AwaitWatchdogReady, Start, LaunchFails
    <3>2. CASE Kernel \/ Watchdog \/ Contexts \/ CancelContext \/ HostDies \/ Tick
      BY <3>2, Zenon
         DEF Kernel, WorkerExits, Fork, Die, Watchdog, WatchdogKills, WatchdogCrashes, Tick,
             Contexts, KillOnCancel, ReapWatchdog, WatchdogExit, CancelContext, HostDies
    <3>3. CASE Outputs
      BY <3>3, Zenon DEF Outputs, WriteOutput, ChargeOutput, Spend
    <3>4. CASE FinishOutput \/ Clean \/ \E c \in Closers : Close(c) \/ CloseCleanup(c)
      BY <3>4, Zenon DEF FinishOutput, Clean, KillGroup, CleanupStep, StopSupervisor,
                  SupervisorStopped, CleanupFails, Close, CloseCleanup
    <3>5. CASE Complete
      BY <3>5 DEF Complete, vars
    <3> QED BY <3>1, <3>2, <3>3, <3>4, <3>5 DEF Next, Ends
  <2> QED BY <2>1, <2>2, <2>3
<1> QED BY <1>1, ProcessInvariance, PTL DEF Spec, OnlyDueExpires
=============================================================================
