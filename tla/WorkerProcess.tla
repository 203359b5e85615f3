----------------------------- MODULE WorkerProcess -----------------------------
(***************************************************************************)
(* One native worker launch, from the admission it was granted to the      *)
(* release of the last resource it owns                                    *)
(* (internal/sandboxlinux/process_linux.go and its siblings).              *)
(*                                                                         *)
(* Around the worker run: the launching goroutine, the goroutine that      *)
(* reaps the worker and finishes the process, the timers of its protocol   *)
(* phases, callers of SetDeadline, ChargeOutput and Close, the watchdog    *)
(* process with a reaper of its own, and the kernel, which delivers kills  *)
(* late.  The host may die at any step, and any launch or cleanup step may *)
(* fail.  The IPC stream is closed only after a cancellation and is not a  *)
(* variable of its own.                                                    *)
(***************************************************************************)
EXTENDS Naturals, Sequences, FiniteSets

CONSTANTS Closers,        \* goroutines that may call Close
          Lifetime,       \* the instant at which the whole launch expires
          OutputBytes,    \* the output budget shared by the worker's streams
          MaxFaults       \* bound: launch, cleanup and watchdog failures

ASSUME ProcessAssumption ==
    /\ Lifetime \in Nat \ {0}
    /\ OutputBytes \in Nat \ {0}
    /\ MaxFaults \in Nat
    /\ Closers \cap {"none", "finish"} = {}

VARIABLES
    host,        \* the host process: "up" or "dead"
    launch,      \* next step of prepare; 0 after a failure
    held,        \* resources the launch owns
    tasks,       \* live kernel tasks of the launch
    doomed,      \* tasks with a kill on its way
    exit,        \* what command.Wait reports of the worker
    cancelled,   \* the process context is cancelled
    wd,          \* the watchdog's WorkerProcess
    wdCancelled, \* its context is cancelled
    linked,      \* stopWatchdogExit is registered
    lost,        \* the watchdog is gone, and a worker may be left behind
    now,         \* the clock
    phase,       \* deadline, armed timer, timers that fired, finished, err
    setting,     \* SetDeadline inside phaseMutex: its deadline, its clock read
    output,      \* bytes used, budget exceeded
    finish,      \* progress of finish
    failed,      \* runErr # nil
    cleaner,     \* the goroutine inside cleanup, and its step
    cleanupErr,  \* what the cleanup of finish returned
    closer,      \* progress of each Close
    faults

launchVars == <<launch, held, wd, wdCancelled, linked>>
taskVars == <<tasks, doomed, exit, lost>>
phaseVars == <<now, phase, setting>>
endVars == <<finish, failed, cleaner, cleanupErr>>
vars == <<host, launchVars, taskVars, cancelled, phaseVars, output,
          endVars, closer, faults>>

LaunchSteps == <<"service", "checkpoint", "container", "watchdog", "ready",
                 "group", "image", "start">>

CleanupSteps == <<"group", "image", "supervisor", "wdGroup", "wdImage",
                  "container", "service", "checkpoint", "admission">>

Started == Len(LaunchSteps) + 1
Resources == {CleanupSteps[i] : i \in 1..Len(CleanupSteps)} \ {"supervisor"}
Tasks == {"worker", "child", "watchdog"}
Never == Lifetime + 1
NoCall == [deadline |-> 0, read |-> 0]
Unlocked == [by |-> "none", step |-> 0]

(* The cgroups, the tasks below each and the groups below each. *)
Groups == {"group", "wdGroup", "container", "service"}
Population(g) == CASE g = "group" -> {"worker", "child"}
                   [] g = "wdGroup" -> {"watchdog"}
                   [] OTHER -> Tasks
Children(g) == CASE g = "container" -> {"group", "wdGroup"}
                 [] g = "service" -> {"container", "group", "wdGroup"}
                 [] OTHER -> {}

Fault == faults < MaxFaults /\ faults' = faults + 1

Init ==
    /\ host = "up"
    /\ launch = 1
    /\ held = {"admission"}
    /\ tasks = {} /\ doomed = {}
    /\ exit = "none"
    /\ cancelled = FALSE
    /\ wd = "none" /\ wdCancelled = FALSE /\ linked = FALSE
    /\ lost = FALSE
    /\ now = 0
    /\ phase = [deadline |-> Never, timer |-> Never, fired |-> {},
                finished |-> FALSE, err |-> FALSE]
    /\ setting = NoCall
    /\ output = [used |-> 0, exceeded |-> FALSE]
    /\ finish = "no"
    /\ failed = FALSE
    /\ cleaner = Unlocked
    /\ cleanupErr = FALSE
    /\ closer = [c \in Closers |-> "idle"]
    /\ faults = 0

-----------------------------------------------------------------------------
(* launchNativeProcess and prepare, one resource at a time.  A step that fails
   may leave its resource owned, for cleanup to retry. *)

Launching(s) == host = "up" /\ launch \in 1..Len(LaunchSteps) /\ LaunchSteps[launch] = s

NewResource(s) ==
    /\ Launching(s)
    /\ s = "image" => ~cancelled
    /\ held' = held \cup {s}
    /\ launch' = launch + 1
    /\ UNCHANGED <<host, wd, wdCancelled, linked, taskVars, cancelled,
                   phaseVars, output, endVars, closer, faults>>

LaunchWatchdog ==
    /\ Launching("watchdog")
    /\ ~cancelled
    /\ wd' = "running"
    /\ tasks' = tasks \cup {"watchdog"}
    /\ held' = held \cup {"wdGroup", "wdImage"}
    /\ launch' = launch + 1
    /\ UNCHANGED <<host, wdCancelled, linked, doomed, exit, lost, cancelled,
                   phaseVars, output, endVars, closer, faults>>

(* The readiness byte may outlive the watchdog that sent it. *)
AwaitWatchdogReady ==
    /\ Launching("ready")
    /\ ~cancelled
    /\ ~wdCancelled
    /\ linked' = TRUE
    /\ launch' = launch + 1
    /\ UNCHANGED <<host, held, wd, wdCancelled, taskVars, cancelled,
                   phaseVars, output, endVars, closer, faults>>

Start ==
    /\ Launching("start")
    /\ ~cancelled
    /\ tasks' = tasks \cup {"worker"}
    /\ launch' = launch + 1
    /\ UNCHANGED <<host, held, wd, wdCancelled, linked, doomed, exit, lost,
                   cancelled, phaseVars, output, endVars, closer, faults>>

(* A launch step that returns an error.  A cancelled context fails the steps
   that look at it, and a watchdog that is gone fails "ready". *)
LaunchFails ==
    /\ host = "up"
    /\ launch \in 1..Len(LaunchSteps)
    /\ LET s == LaunchSteps[launch] IN
       /\ \/ /\ \/ cancelled /\ s \in {"watchdog", "ready", "image", "start"}
                \/ wdCancelled /\ s = "ready"
             /\ held' = held
             /\ UNCHANGED <<wd, wdCancelled, faults>>
          \/ /\ Fault
             /\ \E kept \in SUBSET (CASE s \in Groups \cup {"image"} -> {s}
                                      [] s = "watchdog" -> {"wdGroup", "wdImage"}
                                      [] OTHER -> {}) :
                    held' = held \cup kept
             /\ wd' \in IF s = "watchdog" /\ held' = held THEN {"none", "done"}
                        ELSE IF s = "watchdog" THEN {"done"} ELSE {wd}
             /\ wdCancelled' = (wdCancelled \/ wd' = "done")
       /\ linked' \in IF s = "ready" THEN BOOLEAN ELSE {linked}
    /\ launch' = 0
    /\ UNCHANGED <<host, taskVars, cancelled, phaseVars, output, endVars,
                   closer>>

-----------------------------------------------------------------------------
(* The kernel, the worker and the watchdog. *)

Exits(t, status) ==
    /\ tasks' = tasks \ {t}
    /\ doomed' = doomed \ {t}
    /\ exit' = IF t = "worker" THEN status ELSE exit

WorkerExits ==
    /\ "worker" \in tasks
    /\ \E status \in {"ok", "error"} : Exits("worker", status)
    /\ UNCHANGED <<host, launchVars, lost, cancelled, phaseVars,
                   output, endVars, closer, faults>>

Fork ==
    /\ "worker" \in tasks \ doomed
    /\ "child" \notin tasks
    /\ tasks' = tasks \cup {"child"}
    /\ UNCHANGED <<host, launchVars, doomed, exit, lost, cancelled,
                   phaseVars, output, endVars, closer, faults>>

Die(t) ==
    /\ t \in doomed
    /\ Exits(t, "error")
    /\ UNCHANGED <<host, launchVars, lost, cancelled, phaseVars,
                   output, endVars, closer, faults>>

(* exec.CommandContext kills the process of a cancelled context. *)
KillOnCancel(t) ==
    /\ host = "up"
    /\ t \in tasks \ doomed
    /\ \/ t = "worker" /\ cancelled
       \/ t = "watchdog" /\ wdCancelled
    /\ doomed' = doomed \cup {t}
    /\ UNCHANGED <<host, launchVars, tasks, exit, lost, cancelled,
                   phaseVars, output, endVars, closer, faults>>

(* Mutant: only the lifetime is polled. *)
WatchdogTimesOut ==
    /\ "watchdog" \in tasks
    /\ now >= Lifetime
    /\ tasks # doomed
    /\ doomed' = tasks
    /\ lost' = (lost \/ (host = "up" /\ launch # Started))
    /\ UNCHANGED <<host, launchVars, tasks, exit, cancelled, phaseVars,
                   output, endVars, closer, faults>>

(* HostWatchdog.Run: the host is gone or the lifetime is over.  A launch that
   has not started its worker by then may still start it, without a watchdog,
   until its own context expires. *)
WatchdogKills ==
    /\ "watchdog" \in tasks
    /\ host = "dead" \/ now >= Lifetime
    /\ tasks # doomed
    /\ doomed' = tasks
    /\ lost' = (lost \/ (host = "up" /\ launch # Started))
    /\ UNCHANGED <<host, launchVars, tasks, exit, cancelled,
                   phaseVars, output, endVars, closer, faults>>

WatchdogCrashes ==
    /\ "watchdog" \in tasks
    /\ Fault
    /\ Exits("watchdog", exit)
    /\ lost' = TRUE
    /\ UNCHANGED <<host, launchVars, cancelled, phaseVars, output,
                   endVars, closer>>

(* The watchdog's own reaper: finish cancels its context, tries its cleanup
   and closes done. *)
ReapWatchdog ==
    /\ host = "up"
    /\ wd = "running"
    /\ "watchdog" \notin tasks
    /\ wd' = "done"
    /\ wdCancelled' = TRUE
    /\ \/ held' = held \ {"wdGroup", "wdImage"} /\ UNCHANGED faults
       \/ Fault /\ held' \in {held, held \ {"wdGroup"}}
    /\ UNCHANGED <<host, launch, linked, taskVars, cancelled, phaseVars,
                   output, endVars, closer>>

(* context.AfterFunc(watchdog.context, process.cancel) *)
WatchdogExit ==
    /\ host = "up"
    /\ linked /\ wdCancelled
    /\ linked' = FALSE
    /\ cancelled' = TRUE
    /\ UNCHANGED <<host, launch, held, wd, wdCancelled, taskVars,
                   phaseVars, output, endVars, closer, faults>>

(* The caller's context is cancelled, or the lifetime of the launch is over. *)
CancelContext ==
    /\ host = "up"
    /\ ~cancelled
    /\ cancelled' = TRUE
    /\ UNCHANGED <<host, launchVars, taskVars, phaseVars, output,
                   endVars, closer, faults>>

HostDies ==
    /\ host = "up"
    /\ host' = "dead"
    /\ UNCHANGED <<launchVars, taskVars, cancelled, phaseVars, output,
                   endVars, closer, faults>>

-----------------------------------------------------------------------------
(* Phase deadlines and the output budget. *)

Tick ==
    /\ now < Lifetime
    /\ now' = now + 1
    /\ UNCHANGED <<host, launchVars, taskVars, cancelled, phase, setting,
                   output, endVars, closer, faults>>

PhaseUnlocked == setting = NoCall

(* SetDeadline up to the clock read, holding phaseMutex.  The calls that are
   refused before it change nothing and are left out. *)
SetDeadline(d) ==
    /\ host = "up"
    /\ PhaseUnlocked
    /\ ~phase.finished /\ launch = Started
    /\ ~cancelled
    /\ IF now >= d \/ now >= phase.deadline
       THEN phase' = [phase EXCEPT !.err = TRUE] /\ cancelled' = TRUE
            /\ UNCHANGED setting
       ELSE setting' = [deadline |-> d, read |-> now] /\ UNCHANGED <<phase, cancelled>>
    /\ UNCHANGED <<host, launchVars, taskVars, now, output, endVars,
                   closer, faults>>

(* Mutant: the timer is not armed again. *)
InstallUnarmed ==
    /\ host = "up"
    /\ setting # NoCall
    /\ setting' = NoCall
    /\ phase' = [phase EXCEPT !.deadline = setting.deadline]
    /\ UNCHANGED <<host, launchVars, taskVars, cancelled, now,
                   output, endVars, closer, faults>>

(* The rest of it.  The timer it stops may have fired already, and the stream
   may have been closed after a cancellation. *)
InstallDeadline ==
    /\ host = "up"
    /\ setting # NoCall
    /\ setting' = NoCall
    /\ \/ phase' = [phase EXCEPT !.deadline = setting.deadline,
                                 !.timer = setting.deadline]
       \/ cancelled /\ UNCHANGED phase
    /\ UNCHANGED <<host, launchVars, taskVars, cancelled, now, output, endVars,
                   closer, faults>>

(* Mutant: a superseded timer is not ignored. *)
ExpireAny(d) ==
    /\ host = "up"
    /\ PhaseUnlocked
    /\ d \in phase.fired
    /\ phase' = [phase EXCEPT !.fired = @ \ {d}, !.err = @ \/ ~phase.finished]
    /\ cancelled' = (cancelled \/ ~phase.finished)
    /\ UNCHANGED <<host, launchVars, taskVars, now, setting,
                   output, endVars, closer, faults>>

TimerFires ==
    /\ host = "up"
    /\ phase.timer <= now
    /\ phase' = [phase EXCEPT !.timer = Never, !.fired = @ \cup {phase.timer}]
    /\ UNCHANGED <<host, launchVars, taskVars, cancelled, now, setting,
                   output, endVars, closer, faults>>

ExpirePhase(d) ==
    /\ host = "up"
    /\ PhaseUnlocked
    /\ d \in phase.fired
    /\ LET current == ~phase.finished /\ phase.deadline = d IN
       /\ phase' = [phase EXCEPT !.fired = @ \ {d}, !.err = @ \/ current]
       /\ cancelled' = (cancelled \/ current)
    /\ UNCHANGED <<host, launchVars, taskVars, now, setting,
                   output, endVars, closer, faults>>

(* workerOutput.Write keeps what fits and ends the worker on the first excess
   byte; ChargeOutput takes all of a message or nothing. *)
Spend(kept, over) ==
    /\ output' = [used |-> output.used + kept, exceeded |-> over]
    /\ cancelled' = (cancelled \/ over)
    /\ UNCHANGED <<host, launchVars, taskVars, phaseVars, endVars,
                   closer, faults>>

WriteOutput(n) ==
    /\ host = "up" /\ launch = Started
    /\ finish = "no"
    /\ ~output.exceeded
    /\ LET left == OutputBytes - output.used IN
       Spend(IF n <= left THEN n ELSE left, n > left)

ChargeOutput(n) ==
    /\ host = "up" /\ launch = Started
    /\ ~output.exceeded
    /\ LET left == OutputBytes - output.used IN
       Spend(IF n <= left THEN n ELSE 0, n > left)

-----------------------------------------------------------------------------
(* finish, cleanup and Close. *)

(* finish up to the release of phaseMutex, after a failed prepare or when
   command.Wait returns. *)
Finish ==
    /\ host = "up"
    /\ finish = "no"
    /\ \/ launch = 0
       \/ launch = Started /\ "worker" \notin tasks
    /\ PhaseUnlocked
    /\ LET late == now >= phase.deadline IN
       /\ phase' = [phase EXCEPT !.finished = TRUE, !.timer = Never,
                                 !.err = @ \/ late]
       /\ failed' = (launch = 0 \/ exit = "error" \/ cancelled \/ phase'.err)
    /\ finish' = "published"
    /\ UNCHANGED <<host, launchVars, taskVars, cancelled, now, setting,
                   output, cleaner, cleanupErr, closer, faults>>

(* The rest of finish before its cleanup: output overflow and cancel. *)
FinishOutput ==
    /\ host = "up"
    /\ finish = "published"
    /\ failed' = (failed \/ output.exceeded)
    /\ cancelled' = TRUE
    /\ finish' = "cleanup"
    /\ cleaner' = [by |-> "finish", step |-> 1]
    /\ UNCHANGED <<host, launchVars, taskVars, phaseVars, output, cleanupErr,
                   closer, faults>>

(* Mutant: done is closed only after a cleanup that succeeds. *)
ReturnUndone(error) ==
    /\ cleaner' = Unlocked
    /\ IF cleaner.by = "finish"
       THEN /\ finish' = IF error THEN finish ELSE "done"
            /\ cleanupErr' = error /\ UNCHANGED closer
       ELSE /\ closer' = [closer EXCEPT ![cleaner.by] =
                             IF error THEN "retained" ELSE "released"]
            /\ UNCHANGED <<finish, cleanupErr>>

(* The return of cleanup, to finish or to a Close. *)
Return(error) ==
    /\ cleaner' = Unlocked
    /\ IF cleaner.by = "finish"
       THEN finish' = "done" /\ cleanupErr' = error /\ UNCHANGED closer
       ELSE /\ closer' = [closer EXCEPT ![cleaner.by] =
                             IF error THEN "retained" ELSE "released"]
            /\ UNCHANGED <<finish, cleanupErr>>

Advance == IF cleaner.step = Len(CleanupSteps) THEN Return(FALSE)
           ELSE /\ cleaner' = [cleaner EXCEPT !.step = @ + 1]
                /\ UNCHANGED <<finish, cleanupErr, closer>>

Cleaning(s) == host = "up" /\ cleaner.by # "none" /\ CleanupSteps[cleaner.step] = s

(* closeGroup writes cgroup.kill before it waits. *)
KillGroup(g) ==
    /\ Cleaning(g)
    /\ g \in held
    /\ tasks \cap Population(g) \notin SUBSET doomed
    /\ doomed' = doomed \cup (tasks \cap Population(g))
    /\ UNCHANGED <<host, launchVars, tasks, exit, lost, cancelled,
                   phaseVars, output, endVars, closer, faults>>

(* What the step owns is released, or was before.  The kernel removes a group
   only when no task and no group is below it. *)
CleanupStep(s) ==
    /\ Cleaning(s)
    /\ s \in held /\ s \in Groups => tasks \cap Population(s) = {}
    /\ s \in held => held \cap Children(s) = {}
    /\ held' = held \ {s}
    /\ Advance
    /\ UNCHANGED <<host, launch, wd, wdCancelled, linked, taskVars, cancelled,
                   phaseVars, output, failed, faults>>

(* stopSupervisor: cancel the watchdog, then wait for its reaper. *)
StopSupervisor ==
    /\ Cleaning("supervisor")
    /\ wd = "running"
    /\ ~wdCancelled \/ linked
    /\ linked' = FALSE
    /\ wdCancelled' = TRUE
    /\ UNCHANGED <<host, launch, held, wd, taskVars, cancelled, phaseVars,
                   output, endVars, closer, faults>>

SupervisorStopped ==
    /\ Cleaning("supervisor")
    /\ wd # "running"
    /\ linked' = FALSE
    /\ Advance
    /\ UNCHANGED <<host, launch, held, wd, wdCancelled, taskVars, cancelled,
                   phaseVars, output, failed, faults>>

(* Mutant: cleanup goes on after a step that failed. *)
CleanupGoesOn ==
    /\ host = "up"
    /\ cleaner.by # "none"
    /\ CleanupSteps[cleaner.step] \in held \ {"admission"}
    /\ Fault
    /\ Advance
    /\ UNCHANGED <<host, launchVars, taskVars, cancelled, phaseVars,
                   output, failed>>

(* Any step may fail, or time out, and cleanup keeps what is left.  Closing the
   handles of a group or an image can fail after its removal. *)
CleanupFails ==
    /\ host = "up"
    /\ cleaner.by # "none"
    /\ LET s == CleanupSteps[cleaner.step] IN
       /\ s = "supervisor" \/ s \in held \ {"admission"}
       /\ held' \in IF s \in {"supervisor", "checkpoint"} THEN {held}
                    ELSE IF s \in Groups
                            /\ (tasks \cap Population(s)) \cup (held \cap Children(s)) # {}
                    THEN {held} ELSE {held, held \ {s}}
       /\ s = "supervisor" => wd = "running" /\ wdCancelled /\ ~linked
    /\ Fault
    /\ Return(TRUE)
    /\ UNCHANGED <<host, launch, wd, wdCancelled, linked, taskVars, cancelled,
                   phaseVars, output, failed>>

(* Close: cancel, wait for done, then clean up again. *)
Close(c) ==
    /\ host = "up"
    /\ closer[c] \in {"idle", "retained"}
    /\ launch = Started \/ finish = "done"
    /\ closer' = [closer EXCEPT ![c] = "waiting"]
    /\ cancelled' = TRUE
    /\ UNCHANGED <<host, launchVars, taskVars, phaseVars, output, endVars,
                   faults>>

CloseCleanup(c) ==
    /\ host = "up"
    /\ closer[c] = "waiting"
    /\ finish = "done"
    /\ cleaner = Unlocked
    /\ closer' = [closer EXCEPT ![c] = "cleaning"]
    /\ cleaner' = [by |-> c, step |-> 1]
    /\ UNCHANGED <<host, launchVars, taskVars, cancelled, phaseVars,
                   output, finish, failed, cleanupErr, faults>>

(* Nothing is left to do: the host and its processes are gone, or the process
   is finished and nobody is closing it. *)
Complete ==
    /\ \/ host = "dead" /\ ("watchdog" \notin tasks)
       \/ finish = "done" /\ \A c \in Closers : closer[c] \notin {"waiting", "cleaning"}
    /\ UNCHANGED vars

Launch == \/ \E s \in {"service", "checkpoint", "container", "group", "image"} :
                NewResource(s)
          \/ LaunchWatchdog \/ AwaitWatchdogReady \/ Start \/ LaunchFails

Kernel == WorkerExits \/ Fork \/ \E t \in Tasks : Die(t)

Watchdog == WatchdogKills \/ WatchdogCrashes

Contexts == \/ \E t \in Tasks : KillOnCancel(t)
            \/ ReapWatchdog \/ WatchdogExit

Phases == \/ \E d \in 1..Lifetime : SetDeadline(d) \/ ExpirePhase(d)
          \/ InstallDeadline \/ TimerFires

Outputs == \E n \in 1..OutputBytes + 1 : WriteOutput(n) \/ ChargeOutput(n)

Clean == \/ \E g \in Groups : KillGroup(g)
         \/ \E s \in Resources : CleanupStep(s)
         \/ StopSupervisor \/ SupervisorStopped \/ CleanupFails

Ends == \/ Finish \/ FinishOutput \/ Clean
        \/ \E c \in Closers : Close(c) \/ CloseCleanup(c)

Next == \/ Launch \/ Kernel \/ Watchdog \/ Contexts \/ CancelContext \/ HostDies
        \/ Tick \/ Phases \/ Outputs \/ Ends \/ Complete

Spec == Init /\ [][Next]_vars

(* The scheduler runs every goroutine that can run, the kernel delivers its
   kills, a timer that is due fires and the watchdog's poll returns.  No caller
   need call, the clock need not advance and nothing need fail. *)
FairSpec ==
    /\ Spec
    /\ WF_vars(Launch)
    /\ WF_vars(\E t \in Tasks : Die(t))
    /\ WF_vars(Contexts)
    /\ WF_vars(WatchdogKills)
    /\ WF_vars(TimerFires \/ InstallDeadline)
    /\ SF_vars(\E d \in 1..Lifetime : ExpirePhase(d))
    /\ SF_vars(Finish \/ FinishOutput)
    /\ WF_vars(Clean)
    /\ \A c \in Closers : SF_vars(CloseCleanup(c))

-----------------------------------------------------------------------------
(* Type correctness of the process, its phases and the goroutines around it. *)
TypeOK ==
    /\ host \in {"up", "dead"}
    /\ launch \in 0..Started
    /\ held \subseteq Resources
    /\ doomed \subseteq tasks /\ tasks \subseteq Tasks
    /\ exit \in {"none", "ok", "error"}
    /\ wd \in {"none", "running", "done"}
    /\ {cancelled, wdCancelled, linked, lost, failed, cleanupErr} \subseteq BOOLEAN
    /\ now \in 0..Lifetime
    /\ phase \in [deadline : 1..Never, timer : 1..Never, fired : SUBSET (1..Lifetime),
                  finished : BOOLEAN, err : BOOLEAN]
    /\ setting \in [deadline : 0..Lifetime, read : 0..Lifetime]
    /\ output \in [used : Nat, exceeded : BOOLEAN]
    /\ finish \in {"no", "published", "cleanup", "done"}
    /\ cleaner \in [by : Closers \cup {"none", "finish"}, step : 0..Len(CleanupSteps)]
    /\ closer \in [Closers -> {"idle", "waiting", "cleaning", "released", "retained"}]
    /\ faults \in 0..MaxFaults

(* The admission of a launch is given back only when no process, group, image
   or checkpoint lease of it is left: cleanup stops at the first step that
   fails and a later Close resumes there. *)
AdmissionHeldLongest == "admission" \notin held => held = {} /\ tasks = {}

(* While a worker or a descendant of it can run, its watchdog runs, unless the
   watchdog crashed: it is ready before the group of the worker is made and is
   stopped only after that group is confirmed empty. *)
Supervised ==
    (tasks \ doomed) \cap {"worker", "child"} # {} /\ ~lost => "watchdog" \in tasks

(* What Wait reports as a success: the worker exited by itself before the
   deadline of its phase, within its output budget, and everything is
   released. *)
WaitSucceeds == finish = "done" /\ ~failed /\ ~cleanupErr /\ ~output.exceeded

(* Wait returns nil only for a worker that ended by itself with no phase
   expired, and only once the first cleanup released everything. *)
SuccessIsClean ==
    WaitSucceeds => held = {} /\ exit = "ok" /\ ~phase.err

(* A launch accounts for what it owns: its admission is given back last, and
   no success is reported over something retained, killed or expired. *)
CleanupHonest == TypeOK /\ AdmissionHeldLongest /\ SuccessIsClean

(* A phase expires only when its own deadline, or the one being set, has
   passed: a timer of an earlier phase that fires late is ignored. *)
OnlyDueExpires ==
    [][~phase.err /\ phase'.err =>
         phase.deadline <= now \/ \E d \in 1..now : SetDeadline(d)]_vars

(* A worker that loses its host or its watchdog dies, unless it loses both:
   the watchdog kills the group of a dead host, and the end of the watchdog
   cancels the process. *)
UnsupervisedDies ==
    host = "dead" \/ lost ~> "worker" \notin tasks \/ (host = "dead" /\ lost)

(* No worker outlives its supervision: a worker that may run has its watchdog,
   and one that loses the watchdog or the host is ended. *)
EndsUnsupervised == []Supervised /\ UnsupervisedDies

(* A phase whose deadline passes ends the worker, unless a caller installs
   another deadline first. *)
PhaseEnds ==
    \A d \in 1..Lifetime :
        phase.deadline = d /\ d <= now ~>
            phase.deadline # d \/ "worker" \notin tasks \/ host = "dead"

(* Every Close returns: done is closed, and no cleanup keeps the lock. *)
CloseReturns ==
    \A c \in Closers : closer[c] = "waiting" ~>
        closer[c] \in {"released", "retained"} \/ host = "dead"
=============================================================================
