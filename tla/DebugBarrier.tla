---------------------------- MODULE DebugBarrier ----------------------------
(***************************************************************************)
(* The stop-the-world barrier of the debugger: debug_session.go,           *)
(* debug_barrier.go, debug_hook.go, debug_step.go and the interpreter lock *)
(* of safe mode (vm_safe_gil.go).  A thread is one debugged virtual        *)
(* machine; each critical section of the session mutex, each wait and each *)
(* access to the interpreter lock is a step.  A select that panics out of  *)
(* its wait, past debugBlockLeave, is left to Goroutines.                  *)
(***************************************************************************)
EXTENDS Naturals, FiniteSets

CONSTANTS Threads,     \* virtual machines that may register
          Callbacks,   \* those that run a closure called by host code
          SafeMode,    \* Limits.SafeMode
          MaxStops,    \* stops of the world
          MaxEntries   \* registrations

ASSUME BarrierBounds ==
    /\ IsFiniteSet(Threads) /\ Callbacks \subseteq Threads
    /\ SafeMode \in BOOLEAN
    /\ {MaxStops, MaxEntries} \subseteq Nat

NoThread == "none"
NoStep   == [mode |-> "none", vm |-> NoThread, goroutine |-> NoThread]

VARIABLES session,   \* the fields of DebugSession that the mutex guards
          thread,    \* per thread: where its goroutine is, and its registration
          host,      \* the thread whose native call runs a callback
          gil,       \* the holder of the interpreter lock, or NoThread
          strayed,   \* an unlock found the lock free or held by another
          ctxDone,   \* the context of the execution is cancelled
          entries

debugVars == <<session, thread, host, gil, strayed, ctxDone, entries>>

Out == [at |-> "out", state |-> "none", gen |-> 0, wake |-> FALSE, stop |-> FALSE,
        inBlock |-> FALSE]

DebugInit ==
    /\ session = [stopped |-> FALSE, stopGen |-> 0, focus |-> NoThread, step |-> NoStep,
                  quiescent |-> FALSE, running |-> 0, pauseRequested |-> FALSE,
                  terminated |-> FALSE, breakpoints |-> FALSE, active |-> FALSE]
    /\ thread = [t \in Threads |-> Out]
    /\ host = [t \in Callbacks |-> NoThread]
    /\ gil = NoThread /\ strayed = FALSE
    /\ ctxDone = FALSE /\ entries = 0

Attached == {t \in Threads : thread[t].state # "none"}
GoroutineOf(t) == IF t \in Callbacks THEN host[t] ELSE t

-----------------------------------------------------------------------------
(* The session under its mutex.                                             *)

RecomputeActive(s) ==
    [s EXCEPT !.active = \/ s.breakpoints \/ s.step # NoStep \/ s.stopped
                         \/ s.terminated \/ s.pauseRequested]

CheckQuiescent(s) ==
    IF s.stopped /\ s.running = 0 THEN [s EXCEPT !.quiescent = TRUE] ELSE s

StopWorld(s, t) ==
    IF s.stopped THEN s
    ELSE CheckQuiescent(RecomputeActive(
            [s EXCEPT !.stopped = TRUE, !.stopGen = @ + 1, !.focus = t,
                      !.step = NoStep, !.quiescent = FALSE]))

\* Mutant of Poked: only the thread that stopped the world is woken.
FocusPoked == [t \in Threads |-> [thread[t] EXCEPT !.wake = @ \/ t = session.focus]]

\* releaseWorldLocked: the session, and the tokens put in the wake channels.
ReleaseWorld(s) == RecomputeActive([s EXCEPT !.stopped = FALSE, !.focus = NoThread])
Poked == [t \in Threads |-> [thread[t] EXCEPT !.wake = @ \/ thread[t].state = "parked"]]

\* terminateLocked, which cancels the execution too.
Terminate ==
    /\ session' = RecomputeActive([(IF session.stopped THEN ReleaseWorld(session) ELSE session)
                                      EXCEPT !.terminated = TRUE])
    /\ thread' = IF session.stopped THEN Poked ELSE thread
    /\ ctxDone' = TRUE

\* sync.Mutex.Unlock does not know the caller.
Unlock(t) ==
    IF SafeMode
    THEN gil' = NoThread /\ strayed' = (strayed \/ gil # t)
    ELSE UNCHANGED <<gil, strayed>>

Lock(t) == IF SafeMode THEN gil = NoThread /\ gil' = t ELSE UNCHANGED gil

Bounded(s) == s.stopped \/ s.stopGen < MaxStops

\* pauseHereLocked, and parkLocked up to the wait: the mutex and then the
\* interpreter lock are released.
PauseHere(t, s) ==
    LET halted == StopWorld(s, t)
    IN  /\ Bounded(s)
        /\ Unlock(t)
        /\ session' = CheckQuiescent([halted EXCEPT
                          !.running = IF thread[t].state = "running" THEN @ - 1 ELSE @])
        /\ thread' = [thread EXCEPT ![t].state = "parked", ![t].gen = halted.stopGen,
                                    ![t].at = "look"]

-----------------------------------------------------------------------------
(* A thread.                                                                *)

Stands(t, where) == thread[t].at = where
GoesOn(t, where) ==
    thread' = [thread EXCEPT ![t].at = where] /\ UNCHANGED <<session, gil, strayed>>

Register(t) ==
    /\ thread[t] = Out
    /\ entries < MaxEntries
    /\ entries' = entries + 1
    /\ session' = [session EXCEPT !.running = @ + 1]
    /\ Lock(t)

\* Execute: the interpreter lock, then debugEnter.
Enter(t) ==
    /\ t \notin Callbacks
    /\ Register(t)
    /\ thread' = [thread EXCEPT ![t] = [Out EXCEPT !.at = "check", !.state = "running"]]
    /\ UNCHANGED <<host, strayed, ctxDone>>

\* A native call of p runs an interpreted closure on machine c.  In safe mode
\* p gave up the interpreter lock around the call.
CallBack(p, c) ==
    /\ c \in Callbacks
    /\ Stands(p, "blocked") \/ (Stands(p, "code") /\ ~SafeMode)
    /\ Register(c)
    /\ thread' = [thread EXCEPT ![c] = [Out EXCEPT !.at = "check", !.state = "running"],
                                ![p].at = "native"]
    /\ host' = [host EXCEPT ![c] = p]
    /\ UNCHANGED <<strayed, ctxDone>>

\* Mode "over" stands for "out" too: both pause on the stepping machine alone,
\* at a line and a depth that are left open here.
StepMayPause(t) ==
    LET step == session.step
    IN  /\ step # NoStep /\ step.goroutine = GoroutineOf(t)
        /\ step.mode \in IF step.vm = t THEN {"in", "over"} ELSE {"in", "return"}

\* debugCheck before an instruction.  Whether a breakpoint or the step
\* matches the position is left open.
SafePoint(t) ==
    /\ Stands(t, "check")
    /\ \/ ~session.active /\ GoesOn(t, "code")
       \/ session.active /\ session.terminated /\ GoesOn(t, "leaving")
       \/ /\ session.active /\ ~session.terminated
          /\ IF session.stopped /\ thread[t].gen # session.stopGen
             THEN PauseHere(t, session)
             ELSE IF session.pauseRequested /\ Bounded(session)
             THEN PauseHere(t, [session EXCEPT !.pauseRequested = FALSE])
             ELSE \/ session.breakpoints /\ PauseHere(t, session)
                  \/ session.breakpoints /\ GoesOn(t, "evaluate")
                  \/ StepMayPause(t) /\ PauseHere(t, session)
                  \/ GoesOn(t, "code")
    /\ UNCHANGED <<host, ctxDone, entries>>

\* fireBreakpoint after the condition was evaluated without the mutex.
EndEvaluate(t) ==
    /\ Stands(t, "evaluate")
    /\ PauseHere(t, session) \/ GoesOn(t, "code")
    /\ UNCHANGED <<host, ctxDone, entries>>

\* debugPanicPoint inside an instruction.
PanicPoint(t) ==
    /\ Stands(t, "code") /\ session.active
    /\ \/ session.terminated /\ GoesOn(t, "leaving")
       \/ ~session.terminated /\ session.breakpoints /\ PauseHere(t, session)
    /\ UNCHANGED <<host, ctxDone, entries>>

\* The end of the instruction: the next one, or run returns.
EndInstruction(t) ==
    /\ Stands(t, "code")
    /\ GoesOn(t, "check") \/ GoesOn(t, "leaving")
    /\ UNCHANGED <<host, ctxDone, entries>>

\* releaseAroundBlock inside an instruction.
BlockEnter(t) ==
    /\ Stands(t, "code")
    /\ session' = CheckQuiescent([session EXCEPT !.running = @ - 1])
    /\ thread' = [thread EXCEPT ![t].at = "blocked", ![t].state = "blocked"]
    /\ Unlock(t)
    /\ UNCHANGED <<host, ctxDone, entries>>

\* reacquireAfterBlock: debugBlockLeave, which may park the thread, ...
BlockLeave(t) ==
    /\ Stands(t, "blocked")
    /\ IF session.stopped /\ thread[t].gen # session.stopGen
       THEN /\ Unlock(t)
            /\ thread' = [thread EXCEPT ![t] = [@ EXCEPT !.state = "parked", !.at = "look",
                                                         !.gen = session.stopGen,
                                                         !.inBlock = TRUE]]
            /\ session' = CheckQuiescent(session)
       ELSE /\ session' = [session EXCEPT !.running = @ + 1]
            /\ thread' = [thread EXCEPT ![t].state = "running", ![t].at = "unlocked"]
            /\ UNCHANGED <<gil, strayed>>
    /\ UNCHANGED <<host, ctxDone, entries>>

\* ... then the interpreter lock.
Relock(t) ==
    /\ Stands(t, "unlocked")
    /\ Lock(t)
    /\ thread' = [thread EXCEPT ![t].at = "check"]
    /\ UNCHANGED <<session, host, strayed, ctxDone, entries>>

\* waitReleased: look at the world, then wait for a token or the end.
Released(t) == ~session.stopped \/ thread[t].gen # session.stopGen

WaitReleased(t) ==
    /\ Stands(t, "look")
    /\ thread' = [thread EXCEPT ![t].stop = session.terminated,
                                ![t].at = IF session.terminated \/ Released(t)
                                          THEN "resume" ELSE "select"]
    /\ UNCHANGED <<session, host, gil, strayed, ctxDone, entries>>

\* Mutant of Select: a token is taken for the release itself.
SelectTrusts(t) ==
    /\ Stands(t, "select")
    /\ \/ /\ thread[t].wake
          /\ thread' = [thread EXCEPT ![t].wake = FALSE, ![t].at = "resume"]
       \/ /\ ctxDone \/ session.terminated
          /\ thread' = [thread EXCEPT ![t].stop = TRUE, ![t].at = "resume"]
    /\ UNCHANGED <<session, host, gil, strayed, ctxDone, entries>>

Select(t) ==
    /\ Stands(t, "select")
    /\ \/ /\ thread[t].wake
          /\ thread' = [thread EXCEPT ![t].wake = FALSE, ![t].at = "look"]
       \/ /\ ctxDone \/ session.terminated
          /\ thread' = [thread EXCEPT ![t].stop = TRUE, ![t].at = "resume"]
    /\ UNCHANGED <<session, host, gil, strayed, ctxDone, entries>>

\* The end of parkLocked: the interpreter lock, then the state.  debugCheck
\* goes on with the instruction or leaves; debugBlockLeave drops the action,
\* and the lock is taken a second time.
Resumed(t) ==
    /\ Stands(t, "resume")
    /\ Lock(t)
    /\ session' = [session EXCEPT !.running = @ + 1]
    /\ thread' = [thread EXCEPT ![t] = [@ EXCEPT !.state = "running", !.stop = FALSE,
                     !.inBlock = FALSE,
                     !.at = CASE thread[t].inBlock -> "unlocked"
                              [] ~thread[t].inBlock /\ thread[t].stop -> "leaving"
                              [] OTHER -> "code"]]
    /\ UNCHANGED <<host, strayed, ctxDone, entries>>

\* onThreadExitLocked: the step of a callback goes to its goroutine's parent.
StepAfterExit(t) ==
    IF session.step.vm # t THEN session.step
    ELSE IF t \in Callbacks THEN [session.step EXCEPT !.vm = NoThread, !.mode = "return"]
    ELSE NoStep

\* debugLeave: deregister, with the reset after the last thread; then the
\* interpreter lock.  The native call that ran a callback goes on.
Leave(t) ==
    LET counted == [session EXCEPT !.running = @ - 1, !.step = StepAfterExit(t)]
        left    == CheckQuiescent(RecomputeActive(counted))
        last    == Attached = {t}
    IN  /\ Stands(t, "leaving")
        /\ session' = IF last
                      THEN RecomputeActive([left EXCEPT !.terminated = FALSE, !.stopped = FALSE,
                               !.pauseRequested = FALSE, !.focus = NoThread, !.step = NoStep])
                      ELSE left
        /\ ctxDone' = (ctxDone /\ ~last)
        /\ thread' = [u \in Threads |->
                         CASE u = t -> Out
                           [] u # t /\ t \in Callbacks /\ host[t] = u ->
                                [thread[u] EXCEPT !.at = IF @ # "native" THEN @
                                                         ELSE IF thread[u].state = "blocked"
                                                         THEN "blocked" ELSE "code"]
                           [] OTHER -> thread[u]]
        /\ host' = [c \in Callbacks |-> IF c = t THEN NoThread ELSE host[c]]
        /\ Unlock(t)
        /\ UNCHANGED entries

-----------------------------------------------------------------------------
(* The client.                                                              *)

Resume(t, mode) ==
    /\ session.stopped
    /\ thread[t].state = "parked"
    /\ session' = ReleaseWorld([session EXCEPT !.step =
                      IF mode = "none" THEN NoStep
                      ELSE [mode |-> mode, vm |-> t, goroutine |-> GoroutineOf(t)]])
    /\ thread' = Poked
    /\ UNCHANGED <<host, gil, strayed, ctxDone, entries>>

\* Stop, and Resume with the stop action.
StopSession ==
    /\ Attached # {} /\ ~session.terminated
    /\ Terminate
    /\ UNCHANGED <<host, gil, strayed, entries>>

RequestPause ==
    /\ Attached # {} /\ ~session.stopped /\ ~session.pauseRequested
    /\ session' = RecomputeActive([session EXCEPT !.pauseRequested = TRUE])
    /\ UNCHANGED <<thread, host, gil, strayed, ctxDone, entries>>

\* SetBreakpoint, ClearBreakpoint and the other setters: is any set?
SetBreakpoints(any) ==
    /\ session.breakpoints # any
    /\ session' = RecomputeActive([session EXCEPT !.breakpoints = any])
    /\ UNCHANGED <<thread, host, gil, strayed, ctxDone, entries>>

CancelExecution ==
    /\ Attached # {} /\ ~ctxDone
    /\ ctxDone' = TRUE
    /\ UNCHANGED <<session, thread, host, gil, strayed, entries>>

DebugNext ==
    \/ \E t \in Threads :
        \/ Enter(t) \/ SafePoint(t) \/ EndEvaluate(t) \/ PanicPoint(t) \/ EndInstruction(t)
        \/ BlockEnter(t) \/ BlockLeave(t) \/ Relock(t)
        \/ WaitReleased(t) \/ Select(t) \/ Resumed(t) \/ Leave(t)
        \/ \E c \in Callbacks : CallBack(t, c)
        \/ \E mode \in {"none", "in", "over"} : Resume(t, mode)
    \/ StopSession \/ RequestPause \/ CancelExecution
    \/ \E any \in BOOLEAN : SetBreakpoints(any)

DebugSpec == DebugInit /\ [][DebugNext]_debugVars

-----------------------------------------------------------------------------
(* Properties                                                               *)

\* While the world stays stopped, a thread parked for that stop stays parked
\* unless the debugger ends the execution or its context is cancelled: "its
\* frames and arena are immutable until it is resumed" (DebugThreadParked).
PauseHolds ==
    [][\A t \in Threads :
        /\ thread[t].state = "parked" /\ ~Released(t)
        /\ session'.stopped /\ session'.stopGen = session.stopGen
        /\ ~session.terminated /\ ~ctxDone
        => thread'[t].state = "parked" /\ thread'[t].at \in {"look", "select"}]_debugVars

\* The count the barrier waits on is the number of running threads, the
\* hot-path flag is set while any pause condition exists, and a step never
\* names a machine that left.
BarrierConsistent ==
    /\ session.running = Cardinality({t \in Threads : thread[t].state = "running"})
    /\ (session.stopped \/ session.terminated \/ session.pauseRequested
        \/ session.breakpoints \/ session.step # NoStep) => session.active
    /\ session.step.vm \in Attached \cup {NoThread}

\* No wake-up is lost: a thread that waits on its channel although its stop
\* was released has a token in it, however Resume, a new stop and the two
\* steps of the wait loop interleave.
WakeupPending ==
    \A t \in Threads : Stands(t, "select") /\ Released(t) => thread[t].wake

\* What parks, wakes and steps threads is consistent at every step.
BarrierSound == BarrierConsistent /\ WakeupPending

\* "releases the interpreter lock when this VM holds it"
\* (releaseInterpreterLockForBlock): no unlock by a machine that does not
\* hold it.
UnlockedByHolder == ~strayed
=============================================================================
