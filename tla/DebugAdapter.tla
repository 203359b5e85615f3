---------------------------- MODULE DebugAdapter ----------------------------
(***************************************************************************)
(* `pipit dap': a client, the read loop, the dispatch goroutine with its   *)
(* handlers, and the run, pump and event goroutines of a launch            *)
(* (cmd/pipit/internal/dap), over the event queue of the debugger          *)
(* (internal/debug/debugger.go, engine/debug_session.go).  The barrier     *)
(* itself is DebugBarrier; here a machine parks and wakes in one step.     *)
(***************************************************************************)
EXTENDS Naturals, Sequences, FiniteSets, SequencesExt

CONSTANTS Machines, Entry,  \* debugged machines; the one of the entrypoint
          NoMachine,
          QueueDepth,       \* requestQueueDepth
          EventCap,         \* debugPendingEventCap
          MaxPauses,        \* stops of the world
          MaxAsked          \* resumes, pauses and inspections the client asks for

ASSUME AdapterAssumption ==
    /\ IsFiniteSet(Machines) /\ Entry \in Machines /\ NoMachine \notin Machines
    /\ {QueueDepth, EventCap, MaxPauses, MaxAsked} \subseteq Nat \ {0}

\* "inspect" is stackTrace, scopes, variables, setVariable, evaluate and
\* exceptionInfo; "step" is next, stepIn and stepOut.  The requests that only
\* read or set tables (initialize, threads, setBreakpoints) are left out.
OnceRequests    == {"launch", "configurationDone", "terminate", "disconnect"}
AdapterRequests == OnceRequests \cup {"continue", "step", "inspect", "pause"}

NoStop == 0   \* a nil *stopState; another is the stop it was made for

VARIABLES editor,      \* the client: what it sent and was told
          inbox,       \* the requests channel; is Stdin open?
          dispatcher,  \* the handler in progress
          server,      \* launcher set?, stop, the context of serve
          launch,      \* the launcher: runCancel set?, stopOnce
                       \* spent?, run context cancelled?
          run,         \* runLoop and the stdio pumps
          debuggee,    \* DebugSession
          machine,     \* its threads
          eventQueue,  \* pending and notify
          loop,        \* eventLoop and its context
          written      \* what went to Stdout: terminated events, stop last
                       \* reported, disconnect acknowledged?

adapterVars == <<editor, inbox, dispatcher, server, launch, run, debuggee, machine,
                 eventQueue, loop, written>>

\* A client of whom nothing has been read, or nothing more will be.
Unheard == [sent |-> {}, asked |-> 0, told |-> FALSE]
NoHandler == [at |-> "idle", req |-> "none", arg |-> NoStop]
Absent == [state |-> "out", gen |-> 0]
AtRest == [stopped |-> FALSE, gen |-> 0, focus |-> NoMachine, terminated |-> FALSE,
           pauseRequested |-> FALSE]

AdapterInit ==
    /\ editor = Unheard
    /\ inbox = [queue |-> <<>>, open |-> TRUE]
    /\ dispatcher = NoHandler
    /\ server = [launcher |-> FALSE, stop |-> NoStop, ctxDone |-> FALSE]
    /\ launch = [runCancel |-> FALSE, once |-> FALSE, cancelled |-> FALSE]
    /\ run = [at |-> "none", entered |-> FALSE, spawned |-> FALSE, pumps |-> "off"]
    /\ debuggee = AtRest
    /\ machine = [m \in Machines |-> Absent]
    /\ eventQueue = [pending |-> <<>>, notify |-> FALSE]
    /\ loop = [at |-> "off", gen |-> 0, cancelled |-> FALSE]
    /\ written = [terminated |-> 0, stopped |-> 0, acked |-> FALSE]

RunCancelled == launch.cancelled \/ server.ctxDone
RegisteredMachines == {m \in Machines : machine[m].state # "out"}
\* The execution of every machine that is left is cancelled: the run is, or the
\* entrypoint has returned and JoinSpawnedGoroutines has cancelled the others.
ExecutionCancelled == RunCancelled \/ machine[Entry] = Absent

-----------------------------------------------------------------------------
(* The client and the read loop.                                            *)

\* A client resumes and inspects after a stopped event, and says nothing
\* after disconnect.
MayAsk(req) ==
    /\ "disconnect" \notin editor.sent
    /\ IF req \in OnceRequests THEN req \notin editor.sent
       ELSE /\ editor.asked < MaxAsked
            /\ editor.told \/ (req = "pause" /\ "configurationDone" \in editor.sent)

\* A message is written, read and queued.
Ask(req) ==
    /\ inbox.open /\ Len(inbox.queue) < QueueDepth
    /\ MayAsk(req)
    /\ inbox' = [inbox EXCEPT !.queue = Append(@, req)]
    /\ editor' = [sent  |-> editor.sent \cup ({req} \cap OnceRequests),
                  asked |-> editor.asked + IF req \in OnceRequests THEN 0 ELSE 1,
                  told  |-> editor.told /\ req \notin {"continue", "step"}]
    /\ UNCHANGED <<dispatcher, server, launch, run, debuggee, machine, eventQueue, loop, written>>

\* The context of serve ends, and closeInput the stream.  A stream that ends by
\* itself is a client that says nothing more until the process ends, and is left
\* out; so is an end with nothing to drain, which is that of the process.
InputEnds ==
    /\ inbox.open /\ (inbox.queue # <<>> \/ dispatcher # NoHandler)
    /\ inbox' = [inbox EXCEPT !.open = FALSE]
    /\ editor' = Unheard
    /\ server' = [server EXCEPT !.ctxDone = TRUE]
    /\ UNCHANGED <<dispatcher, launch, run, debuggee, machine, eventQueue, loop, written>>

\* serve returns once the dispatch goroutine has drained the channel, and
\* with it Run and the process.
Serving == inbox.open \/ inbox.queue # <<>> \/ dispatcher # NoHandler

-----------------------------------------------------------------------------
(* The session's threads and its event queue.                               *)

\* appendEventLocked: pause events are never dropped.
AppendEvent(kind, gen, own) ==
    LET drop == SelectInSeq(eventQueue.pending, LAMBDA e : e.kind # "paused")
        kept == IF Len(eventQueue.pending) >= EventCap /\ drop # 0
                THEN RemoveAt(eventQueue.pending, drop) ELSE eventQueue.pending
    IN  eventQueue' = [pending |-> Append(kept, [kind |-> kind, gen |-> gen, own |-> own]),
                   notify  |-> TRUE]

ReleaseSession(w) == [w EXCEPT !.stopped = FALSE, !.focus = NoMachine]

MachinesRun == UNCHANGED <<editor, inbox, dispatcher, server, launch, loop, written>>

\* pauseHereLocked; own is false for a pause of another thread's stop.
PauseMachine(m, w, own) ==
    LET halted == IF w.stopped THEN w
                  ELSE [w EXCEPT !.stopped = TRUE, !.gen = @ + 1, !.focus = m]
    IN  /\ halted.gen <= MaxPauses
        /\ debuggee' = halted
        /\ machine' = [machine EXCEPT ![m] = [state |-> "parked", gen |-> halted.gen]]
        /\ AppendEvent("paused", halted.gen, own)
        /\ UNCHANGED run

\* deregister, with resetAfterLastThreadLocked.
Deregister(m) ==
    /\ machine' = [machine EXCEPT ![m] = Absent]
    /\ debuggee' = IF RegisteredMachines = {m}
                   THEN [AtRest EXCEPT !.gen = debuggee.gen] ELSE debuggee
    /\ AppendEvent("thread", 0, FALSE)
    /\ UNCHANGED run

RegisterMachine(m) ==
    /\ machine[m] = Absent
    /\ machine' = [machine EXCEPT ![m].state = "running"]
    /\ AppendEvent("thread", 0, FALSE)
    /\ UNCHANGED debuggee

\* The initialisers or the entrypoint start, and start a goroutine.
EnterProgram ==
    /\ run.at \in {"inits", "main"} /\ ~run.entered
    /\ RegisterMachine(Entry)
    /\ run' = [run EXCEPT !.entered = TRUE]
    /\ MachinesRun

SpawnMachine(m) ==
    /\ m # Entry /\ machine[Entry].state = "running" /\ ~run.spawned
    /\ RegisterMachine(m)
    /\ run' = [run EXCEPT !.spawned = TRUE]
    /\ MachinesRun

\* debugCheck.
CheckPoint(m) ==
    /\ machine[m].state = "running" /\ ~debuggee.terminated
    /\ IF debuggee.stopped /\ machine[m].gen # debuggee.gen THEN PauseMachine(m, debuggee, FALSE)
       ELSE IF debuggee.pauseRequested
       THEN PauseMachine(m, [debuggee EXCEPT !.pauseRequested = FALSE], TRUE)
       ELSE \/ PauseMachine(m, debuggee, TRUE)
            \/ /\ machine' = [machine EXCEPT ![m].state = "evaluating"]
               /\ UNCHANGED <<run, debuggee, eventQueue>>
    /\ MachinesRun

\* fireBreakpoint after the condition, evaluated without the mutex.
EndCondition(m) ==
    /\ machine[m].state = "evaluating"
    /\ \/ PauseMachine(m, debuggee, TRUE)
       \/ /\ machine' = [machine EXCEPT ![m].state = "running"]
          /\ UNCHANGED <<run, debuggee, eventQueue>>
    /\ MachinesRun

\* A machine returns: of itself, or because it was stopped or cancelled.
MachineReturns(m) ==
    /\ machine[m].state = "running"
    /\ Deregister(m)
    /\ MachinesRun

\* waitReleased returns.
WakeMachine(m) ==
    /\ machine[m].state = "parked"
    /\ \/ /\ ~debuggee.terminated
          /\ ~debuggee.stopped \/ machine[m].gen # debuggee.gen
          /\ machine' = [machine EXCEPT ![m].state = "running"]
          /\ UNCHANGED <<run, debuggee, eventQueue>>
       \/ (debuggee.terminated \/ ExecutionCancelled) /\ Deregister(m)
    /\ MachinesRun

-----------------------------------------------------------------------------
(* runLoop and the pumps.                                                   *)

RunOnly == UNCHANGED <<editor, inbox, dispatcher, launch, debuggee, machine, eventQueue>>
RunGoesOn(to) == run' = [run EXCEPT !.at = to, !.entered = FALSE]

\* ExecuteInits or ExecuteEntrypoint returns, with an error when a goroutine has
\* outlived the grace of the join.
PhaseReturns ==
    /\ run.at \in {"inits", "main"} /\ machine[Entry] = Absent
    /\ run.entered \/ RunCancelled \/ run.at = "inits"
    /\ \/ run.at = "inits" /\ RegisteredMachines = {} /\ RunGoesOn("main")
       \/ RunGoesOn("report")
    /\ RunOnly /\ UNCHANGED <<server, loop, written>>

ReportRun ==
    /\ run.at = "report"
    /\ server' = [server EXCEPT !.stop = NoStop]
    /\ RunGoesOn("emit")
    /\ RunOnly /\ UNCHANGED <<loop, written>>

\* emitTerminated, then the deferred restore of the streams.
EmitTerminated ==
    /\ run.at = "emit"
    /\ written' = [written EXCEPT !.terminated = @ + 1]
    /\ RunGoesOn("drain")
    /\ RunOnly /\ UNCHANGED <<server, loop>>

\* The pipes are closed and both pumps have ended.  A pump that met a line too long
\* for its scanner ended earlier and relayed nothing of the rest; what is relayed is
\* not modelled, so it ends here too.
PumpsEnd ==
    /\ run.at = "drain" /\ run.pumps = "on"
    /\ run' = [run EXCEPT !.pumps = "done"]
    /\ RunOnly /\ UNCHANGED <<server, loop, written>>

\* Mutant of RunEnds: done is closed before the pumps are waited for.
RunEndsEarly ==
    /\ run.at = "drain"
    /\ loop' = [loop EXCEPT !.cancelled = TRUE]
    /\ RunGoesOn("over")
    /\ RunOnly /\ UNCHANGED <<server, written>>

\* The other deferred calls: eventsCancel and close(l.done).
RunEnds ==
    /\ run.at = "drain" /\ run.pumps = "done"
    /\ loop' = [loop EXCEPT !.cancelled = TRUE]
    /\ RunGoesOn("over")
    /\ RunOnly /\ UNCHANGED <<server, written>>

-----------------------------------------------------------------------------
(* eventLoop over WaitForEvent.                                             *)

LoopOnly == UNCHANGED <<editor, inbox, dispatcher, server, launch, run, debuggee, machine, written>>

\* TryNextEvent.  Thread events are relayed at once; a pause of another
\* thread's stop is skipped.  The exit events of Debugger.exits, which the loop
\* skips too, are left out.
TryNextEvent ==
    /\ loop.at = "try"
    /\ IF eventQueue.pending = <<>>
       THEN loop' = [loop EXCEPT !.at = "select"] /\ UNCHANGED eventQueue
       ELSE LET e == Head(eventQueue.pending)
            IN  /\ eventQueue' = [eventQueue EXCEPT !.pending = Tail(@)]
                /\ loop' = IF e.kind = "paused" /\ e.own
                           THEN [loop EXCEPT !.at = "set", !.gen = e.gen] ELSE loop
    /\ LoopOnly

SelectEvent ==
    /\ loop.at = "select"
    /\ \/ eventQueue.notify /\ eventQueue' = [eventQueue EXCEPT !.notify = FALSE]
                        /\ loop' = [loop EXCEPT !.at = "try"]
       \/ (loop.cancelled \/ server.ctxDone) /\ loop' = [loop EXCEPT !.at = "over"]
                                             /\ UNCHANGED eventQueue
    /\ LoopOnly

SetStop ==
    /\ loop.at = "set"
    /\ server' = [server EXCEPT !.stop = loop.gen]
    /\ loop' = [loop EXCEPT !.at = "emit"]
    /\ UNCHANGED <<editor, inbox, dispatcher, launch, run, debuggee, machine, eventQueue, written>>

EmitStopped ==
    /\ loop.at = "emit"
    /\ written' = [written EXCEPT !.stopped = loop.gen]
    /\ editor' = [editor EXCEPT !.told = inbox.open]
    /\ loop' = [loop EXCEPT !.at = "try", !.gen = 0]
    /\ UNCHANGED <<inbox, dispatcher, server, launch, run, debuggee, machine, eventQueue>>

-----------------------------------------------------------------------------
(* The dispatch goroutine.                                                  *)

\* A handler's first step takes its request from the channel.
Takes(req) ==
    /\ dispatcher = NoHandler /\ inbox.queue # <<>> /\ Head(inbox.queue) = req
    /\ inbox' = [inbox EXCEPT !.queue = Tail(@)]
HandlerGoes(at, req, arg) == dispatcher' = [at |-> at, req |-> req, arg |-> arg]
Answers == dispatcher' = NoHandler

\* The arguments may not do.
HandleLaunch ==
    /\ Takes("launch") /\ Answers
    /\ \E valid \in BOOLEAN : server' = [server EXCEPT !.launcher = valid]
    /\ UNCHANGED <<editor, launch, run, debuggee, machine, eventQueue, loop, written>>

\* start compiles the program, and fails or spawns the goroutines.
HandleConfigurationDone ==
    /\ Takes("configurationDone") /\ Answers
    /\ \/ ~server.launcher /\ UNCHANGED <<launch, run, loop, written>>
       \/ /\ server.launcher
          /\ written' = [written EXCEPT !.terminated = @ + 1]
          /\ UNCHANGED <<launch, run, loop>>
       \/ /\ server.launcher
          /\ launch' = [launch EXCEPT !.runCancel = TRUE]
          /\ run' = [run EXCEPT !.at = "inits", !.pumps = "on"]
          /\ loop' = [loop EXCEPT !.at = "try"]
          /\ UNCHANGED written
    /\ UNCHANGED <<editor, server, debuggee, machine, eventQueue>>

\* Continue asks for the focus first; a step names a thread.
HandleResume ==
    /\ \/ /\ Takes("continue")
          /\ IF debuggee.focus = NoMachine THEN Answers
             ELSE HandlerGoes("resume", "continue", debuggee.focus)
       \/ Takes("step") /\ \E m \in Machines : HandlerGoes("resume", "step", m)
    /\ UNCHANGED <<editor, server, launch, run, debuggee, machine, eventQueue, loop, written>>

ResumeSession ==
    /\ dispatcher.at = "resume"
    /\ IF debuggee.stopped /\ machine[dispatcher.arg].state = "parked"
       THEN debuggee' = ReleaseSession(debuggee) /\ HandlerGoes("clear", dispatcher.req, NoStop)
       ELSE Answers /\ UNCHANGED debuggee
    /\ UNCHANGED <<editor, inbox, server, launch, run, machine, eventQueue, loop, written>>

ClearStop ==
    /\ dispatcher.at = "clear" /\ Answers
    /\ server' = [server EXCEPT !.stop = NoStop]
    /\ UNCHANGED <<editor, inbox, launch, run, debuggee, machine, eventQueue, loop, written>>

HandlePause ==
    /\ Takes("pause") /\ Answers
    /\ debuggee' = [debuggee EXCEPT
           !.pauseRequested = @ \/ (RegisteredMachines # {} /\ ~debuggee.stopped)]
    /\ UNCHANGED <<editor, server, launch, run, machine, eventQueue, loop, written>>

\* The answer is made from currentStop and the frames of its thread, and is
\* empty without a stop: nothing but the containers of the stop changes.
HandleInspect ==
    /\ Takes("inspect") /\ Answers
    /\ UNCHANGED <<editor, server, launch, run, debuggee, machine, eventQueue, loop, written>>

\* launcher.stop: runCancel and debugger.Stop, the first time, ...
StopLauncher(req) ==
    /\ Takes(req)
    /\ IF server.launcher /\ ~launch.once
       THEN /\ launch' = [launch EXCEPT !.once = TRUE, !.cancelled = launch.runCancel]
            /\ HandlerGoes("stop", req, NoStop)
       ELSE UNCHANGED launch /\ HandlerGoes("wait", req, NoStop)
    /\ UNCHANGED <<editor, server, run, debuggee, machine, eventQueue, loop, written>>

StopDebugger ==
    /\ dispatcher.at = "stop" /\ HandlerGoes("wait", dispatcher.req, NoStop)
    /\ debuggee' = IF RegisteredMachines = {} \/ debuggee.terminated THEN debuggee
                ELSE [ReleaseSession(debuggee) EXCEPT !.terminated = TRUE]
    /\ UNCHANGED <<editor, inbox, server, launch, run, machine, eventQueue, loop, written>>

\* ... and the wait for done.  Disconnect closes the input after its answer.
LauncherStopped ==
    /\ dispatcher.at = "wait" /\ Answers
    /\ launch.runCancel => run.at = "over"
    /\ inbox' = [inbox EXCEPT !.open = @ /\ dispatcher.req # "disconnect"]
    /\ written' = [written EXCEPT !.acked = @ \/ dispatcher.req = "disconnect"]
    /\ UNCHANGED <<editor, server, launch, run, debuggee, machine, eventQueue, loop>>

Dispatches ==
    \/ HandleLaunch \/ HandleConfigurationDone \/ HandleResume
    \/ ResumeSession \/ ClearStop \/ HandlePause \/ HandleInspect
    \/ \E req \in {"terminate", "disconnect"} : StopLauncher(req)
    \/ StopDebugger \/ LauncherStopped

RunSteps == PhaseReturns \/ ReportRun \/ EmitTerminated \/ PumpsEnd \/ RunEnds
LoopSteps == TryNextEvent \/ SelectEvent \/ SetStop \/ EmitStopped

AdapterNext ==
    /\ Serving
    /\ \/ \E req \in AdapterRequests : Ask(req)
       \/ InputEnds \/ EnterProgram
       \/ \E m \in Machines : SpawnMachine(m) \/ CheckPoint(m) \/ EndCondition(m)
                              \/ MachineReturns(m) \/ WakeMachine(m)
       \/ RunSteps \/ LoopSteps \/ Dispatches

AdapterSpec == AdapterInit /\ [][AdapterNext]_adapterVars
-----------------------------------------------------------------------------
\* handleDisconnect "stops the running script, drains the launcher goroutine,
\* acknowledges": at the acknowledgement the run is over, its entrypoint has
\* returned and its pumps relay nothing more, however the run, the pumps and the
\* stop interleave.  A goroutine that outlived the grace of the join may be left.
\* A launch is reported terminated once, and has been when it is over.  Until it is
\* over the pause in effect is queued, in the hands of the event loop or reported,
\* with thread events dropped at the limit of the queue or not.
AdapterSound ==
    /\ written.acked => run.at \in {"none", "over"} /\ machine[Entry] = Absent /\ run.pumps # "on"
    /\ written.terminated <= 1
    /\ run.at = "over" => written.terminated = 1
    /\ debuggee.stopped /\ ~server.ctxDone /\ run.at # "over" =>
           \/ written.stopped = debuggee.gen
           \/ loop.at \in {"set", "emit"} /\ loop.gen = debuggee.gen
           \/ /\ loop.at # "over"
              /\ \E i \in DOMAIN eventQueue.pending :
                    eventQueue.pending[i].own /\ eventQueue.pending[i].gen = debuggee.gen
=============================================================================
