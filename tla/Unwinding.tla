------------------------------ MODULE Unwinding ------------------------------
(***************************************************************************)
(* Deferred calls, panics, recover and runtime.Goexit in one virtual       *)
(* machine of the interpreter (internal/engine).  The program is           *)
(* nondeterministic: the running frame may call, defer, panic, recover,    *)
(* exit or return in any order.  What is kept is the control of the Go     *)
(* code: the interpreter's own call stack and defer stack, and `control',  *)
(* the Go stack of dispatch loops and unwinders that run on top of one     *)
(* another, because a deferred call may run inside a nested dispatch loop. *)
(***************************************************************************)
EXTENDS Integers, Sequences, SequencesExt

CONSTANTS MaxFrames,   \* frames pushed by ordinary calls
          MaxDefers,   \* deferred calls registered
          MaxPanics,   \* panics raised, by whatever means
          MaxExits,    \* calls of runtime.Goexit
          MaxFaults    \* errors that end a dispatch loop without unwinding

ASSUME UnwindBounds == {MaxFrames, MaxDefers, MaxPanics, MaxExits, MaxFaults} \subseteq Nat

VARIABLES callStack,        \* frames, the running one last (vm.CallStack, FramePointer)
          deferStack,       \* the array behind vm.deferStack; a pop leaves the entry
          deferLen,         \* len(vm.deferStack)
          control,          \* dispatch loops and unwinders, the innermost last
          panicking,        \* vm.panicking
          evalError,        \* vm.evalError
          recoverEligible,  \* vm.recoverEligibleFrame, 0 for none
          budget,           \* how many calls, panics, exits and faults are left
          owner, ran,       \* per deferred call: the frame that registered it, its runs
          outcome           \* of the execution, once it has ended

unwindVars == <<callStack, deferStack, deferLen, control, panicking, evalError, recoverEligible,
                budget, owner, ran, outcome>>

\* What a deferred call targets: a compiled closure without or with recover(),
\* or a native function or builtin.
Targets == {"plain", "recovering", "native"}

\* The per-frame slot of a trivial defer (SimpleDeferRecord).
NoRecord == [id |-> 0, target |-> "native", active |-> FALSE, consumed |-> FALSE]

Frame(recovers, serial, base) ==
    [recovers |-> recovers, serial |-> serial, deferBase |-> base,
     simpleDefer |-> NoRecord, returning |-> FALSE]

\* The entries of control: a dispatch loop with its base frame and the value
\* of recoverEligible it restores, and the unwinders with the frame they are
\* working on (0 before they have read vm.currentFrame) and the defer index
\* their loop runs to or is at (-1 before the loop).
Loop(base, prior) == [kind |-> "loop", base |-> base, prior |-> prior]
Worker(kind, fp, base) == [kind |-> kind, fp |-> fp, base |-> base]

FramePointer == Len(callStack)
Top          == Last(control)
frame        == Last(callStack)

\* vm.baseFramePointer: the base of the innermost dispatch loop.
BaseFramePointer == LET loops == SelectSeq(control, LAMBDA c : c.kind = "loop") IN Last(loops).base

UnwindInit ==
    /\ callStack = <<Frame(FALSE, 1, 0)>>
    /\ deferStack = <<>>
    /\ deferLen = 0
    /\ control = <<Loop(1, 0)>>
    /\ panicking = FALSE
    /\ evalError = "none"
    /\ recoverEligible = 0
    /\ budget = [frames |-> MaxFrames, panics |-> MaxPanics, exits |-> MaxExits,
                 faults |-> MaxFaults]
    /\ owner = <<>>
    /\ ran = <<>>
    /\ outcome = "running"

\* The runs of a deferred call are told apart up to the second.
Again(n) == IF n = 2 THEN 2 ELSE n + 1

Spend(what) == budget[what] > 0 /\ budget' = [budget EXCEPT ![what] = @ - 1]

-----------------------------------------------------------------------------
(* Ending a dispatch loop, and running one deferred call.                   *)

\* The loop on top of c returns err: the execution ends, or the
\* executeDeferredCall that ran the loop records the error on the machine.
LoopReturns(c, err) ==
    /\ control' = Front(c)
    /\ recoverEligible' = Last(c).prior
    /\ evalError' = IF err = "none" THEN evalError ELSE err
    /\ outcome' = IF Len(c) = 1 THEN err ELSE outcome

\* A handler that left these frames: opDone when none of the loop's frames
\* is left, opFrameChanged otherwise.
DoneOrChanged(c, frames) ==
    IF Len(frames) < BaseFramePointer
    THEN LoopReturns(c, "none")
    ELSE control' = c /\ UNCHANGED <<recoverEligible, evalError, outcome>>

\* executeDeferredCall on these frames and len entries.  Native and builtin targets
\* run to their end and may panic, which only sets vm.panicking; a closure
\* gets a frame and a nested dispatch loop.
ExecuteDeferredCall(call, frames, len, c) ==
    /\ ran' = [ran EXCEPT ![call.id] = Again(@)]
    /\ deferLen' = len
    /\ UNCHANGED <<deferStack, owner, outcome, evalError>>
    /\ \/ /\ call.target = "native"
          /\ callStack' = frames
          /\ control' = c
          /\ UNCHANGED recoverEligible
          /\ \/ UNCHANGED <<panicking, budget>>
             \/ Spend("panics") /\ panicking' = TRUE
       \/ /\ call.target # "native"
          /\ callStack' = Append(frames, Frame(call.target = "recovering",
                                               MaxFrames + 1 + call.id, len))
          /\ recoverEligible' = Len(frames) + 1
          /\ control' = Append(c, Loop(Len(frames) + 1, recoverEligible))
          /\ UNCHANGED <<panicking, budget>>

\* The call is not run, because it was already started inline.
SkipDeferredCall(frames, len, c) ==
    /\ callStack' = frames /\ deferLen' = len /\ control' = c
    /\ UNCHANGED <<deferStack, panicking, evalError, recoverEligible, budget, owner, ran, outcome>>

\* Mutant of PopAndExecute: the mark of an inline start is not looked at.
PopUnmarked(c) == ExecuteDeferredCall(deferStack[deferLen], callStack, deferLen - 1, c)

\* One turn of the loops that pop an entry before they execute it.
PopAndExecute(c) ==
    IF deferStack[deferLen].started
    THEN SkipDeferredCall(callStack, deferLen - 1, c)
    ELSE ExecuteDeferredCall(deferStack[deferLen], callStack, deferLen - 1, c)

\* runFrameSimpleDefer on the last of these frames.
RunFrameSimpleDefer(frames, c) ==
    LET record  == Last(frames).simpleDefer
        cleared == [frames EXCEPT ![Len(frames)].simpleDefer.active = FALSE]
    IN  IF record.consumed THEN SkipDeferredCall(cleared, deferLen, c)
                           ELSE ExecuteDeferredCall(record, cleared, deferLen, c)

-----------------------------------------------------------------------------
(* The opcode handlers, run by the innermost dispatch loop.                 *)

Running == outcome = "running" /\ Top.kind = "loop"
InBody  == Running /\ ~frame.returning

CallFunction ==
    /\ InBody
    /\ Spend("frames")
    /\ \E recovers \in BOOLEAN :
         callStack' = Append(callStack, Frame(recovers, budget.frames + 1, deferLen))
    /\ UNCHANGED <<deferStack, deferLen, control, panicking, evalError, recoverEligible, owner, ran, outcome>>

\* A new deferred call, numbered in the order of registration.
Registered ==
    /\ InBody
    /\ Len(owner) < MaxDefers
    /\ owner' = Append(owner, frame.serial)
    /\ ran' = Append(ran, 0)
    /\ UNCHANGED <<control, panicking, evalError, recoverEligible, budget, outcome>>

\* handleDefer and registerBuiltinDefer.
HandleDefer ==
    /\ Registered
    /\ frame.simpleDefer = NoRecord
    /\ \E target \in Targets :
         LET call == [id |-> Len(owner) + 1, target |-> target, started |-> FALSE] IN
         deferStack' = IF deferLen < Len(deferStack)
                       THEN [deferStack EXCEPT ![deferLen + 1] = call]
                       ELSE Append(deferStack, call)
    /\ deferLen' = deferLen + 1
    /\ UNCHANGED callStack

\* registerTrivialDefer: the only defer of a function without recover().
RegisterTrivialDefer ==
    /\ Registered
    /\ ~frame.recovers
    /\ frame.serial \notin ToSet(owner)
    /\ \E target \in Targets :
         callStack' = [callStack EXCEPT ![FramePointer].simpleDefer =
             [id |-> Len(owner) + 1, target |-> target, active |-> TRUE, consumed |-> FALSE]]
    /\ UNCHANGED <<deferStack, deferLen>>

HandleRecover ==
    /\ InBody
    /\ frame.recovers
    /\ panicking /\ FramePointer = recoverEligible
    /\ panicking' = FALSE
    /\ evalError' = "none"
    /\ UNCHANGED <<callStack, deferStack, deferLen, control, recoverEligible, budget, owner, ran, outcome>>

\* Mutant of HandleNestedPanic: the frame below the loop's base is popped too.
NestedPanicPopsBelow ==
    /\ InBody
    /\ panicking
    /\ Spend("panics")
    /\ callStack' = SubSeq(callStack, 1, BaseFramePointer - 2)
    /\ LoopReturns(control, "panic")
    /\ UNCHANGED <<deferStack, deferLen, panicking, owner, ran>>

\* handlePanic while a panic is already in flight: the frames of this loop
\* are popped and the loop ends.
HandleNestedPanic ==
    /\ InBody
    /\ panicking
    /\ Spend("panics")
    /\ callStack' = SubSeq(callStack, 1, BaseFramePointer - 1)
    /\ LoopReturns(control, "panic")
    /\ UNCHANGED <<deferStack, deferLen, panicking, owner, ran>>

\* handlePanic otherwise, and raiseNativePanicAsInterpreted at any time.
StartUnwinding(native) ==
    /\ InBody
    /\ native \/ ~panicking
    /\ Spend("panics")
    /\ panicking' = TRUE
    /\ control' = Append(control, Worker("unwind", 0, -1))
    /\ UNCHANGED <<callStack, deferStack, deferLen, evalError, recoverEligible, owner, ran, outcome>>

HandleRuntimeGoexit ==
    /\ InBody
    /\ Spend("exits")
    /\ control' = Append(control, Worker("goexit", 0, -1))
    /\ UNCHANGED <<callStack, deferStack, deferLen, panicking, evalError, recoverEligible, owner, ran, outcome>>

\* An error that is not a panic (a limit, an exhausted defer stack): the loop
\* returns it and leaves its frames where they are.
Fault ==
    /\ InBody
    /\ Spend("faults")
    /\ LoopReturns(control, "fault")
    /\ UNCHANGED <<callStack, deferStack, deferLen, panicking, owner, ran>>

-----------------------------------------------------------------------------
(* handleReturn, handleReturnVoid, finaliseFrameAtEnd.                      *)

Inline(call) == call.target = "plain"

\* takeInlineDefer drops the entries that have run inline.
Trimmed == CHOOSE n \in 0..deferLen :
              /\ n > frame.deferBase => ~deferStack[n].started
              /\ \A i \in n+1..deferLen : i > frame.deferBase /\ deferStack[i].started

PushInline(call, frames, len) ==
    /\ callStack' = Append(frames, Frame(FALSE, MaxFrames + 1 + call.id, len))
    /\ ran' = [ran EXCEPT ![call.id] = Again(@)]
    /\ deferLen' = len
    /\ UNCHANGED <<control, panicking, evalError, recoverEligible, budget, owner, outcome>>

\* startInlineDefer: the deferred closure becomes an ordinary frame and the
\* return is executed again after it.
ReturnInline ==
    LET record   == frame.simpleDefer
        returned == [callStack EXCEPT ![FramePointer].returning = TRUE]
    IN  /\ Running
        /\ \/ /\ record.active /\ ~record.consumed /\ Inline(record)
              /\ PushInline(record,
                            [returned EXCEPT ![FramePointer].simpleDefer.consumed = TRUE], deferLen)
              /\ UNCHANGED deferStack
           \/ /\ ~record.active
              /\ Trimmed > frame.deferBase /\ Inline(deferStack[Trimmed])
              /\ PushInline(deferStack[Trimmed], returned, Trimmed)
              /\ deferStack' = [deferStack EXCEPT ![Trimmed].started = TRUE]

\* runReturnDefers: what is left runs in nested loops.
ReturnNested ==
    LET record   == frame.simpleDefer
        returned == [callStack EXCEPT ![FramePointer].returning = TRUE]
        c        == Append(control, Worker("return", FramePointer, -1))
    IN  /\ Running
        /\ \/ /\ record.active /\ (record.consumed \/ ~Inline(record))
              /\ RunFrameSimpleDefer(returned, c)
           \/ /\ ~record.active
              /\ Trimmed > frame.deferBase => ~Inline(deferStack[Trimmed])
              /\ SkipDeferredCall(returned, Trimmed, c)

Working(kind) == outcome = "running" /\ Top.kind = kind
Becomes(worker) == Append(Front(control), worker)

\* The rest of runReturnDefers and of the return.  runDefers reads the current
\* frame when it starts, which is not the returning one if a nested loop left
\* frames behind.
ReturnStep ==
    /\ Working("return")
    /\ IF Top.base = -1
       THEN SkipDeferredCall(callStack, deferLen,
                Becomes(Worker("return", Top.fp,
                               IF deferLen > callStack[Top.fp].deferBase
                               THEN frame.deferBase ELSE deferLen)))
       ELSE IF deferLen > Top.base
       THEN PopAndExecute(control)
       ELSE /\ UNCHANGED <<deferStack, deferLen, panicking, budget, owner, ran>>
            /\ IF evalError # "none"
               THEN LoopReturns(Front(control), evalError) /\ UNCHANGED callStack
               ELSE /\ callStack' = IF FramePointer < Top.fp THEN callStack ELSE Front(callStack)
                    /\ DoneOrChanged(Front(control), callStack')

\* unwindPanic and unwindFrame.
UnwindStep ==
    /\ Working("unwind")
    /\ \/ /\ Top.fp = 0 /\ FramePointer < BaseFramePointer
          /\ LoopReturns(Front(control), "panic")
          /\ UNCHANGED <<callStack, deferStack, deferLen, panicking, budget, owner, ran>>
       \/ /\ Top.fp = 0 /\ FramePointer >= BaseFramePointer
          /\ LET c == Becomes(Worker("unwind", FramePointer, -1)) IN
             IF frame.simpleDefer.active THEN RunFrameSimpleDefer(callStack, c)
                                         ELSE SkipDeferredCall(callStack, deferLen, c)
       \/ /\ Top.fp > FramePointer
          /\ UNCHANGED <<callStack, deferStack, deferLen, panicking, budget, owner, ran>>
          /\ IF panicking
             THEN control' = Becomes(Worker("unwind", 0, -1)) /\ UNCHANGED <<recoverEligible, evalError, outcome>>
             ELSE DoneOrChanged(Front(control), callStack)
       \/ /\ Top.fp \in 1..FramePointer /\ ~panicking
          /\ SkipDeferredCall(callStack, deferLen, Becomes(Worker("remaining", Top.fp, -1)))
       \/ /\ Top.fp \in 1..FramePointer /\ panicking
          /\ IF deferLen > callStack[Top.fp].deferBase
             THEN PopAndExecute(control)
             ELSE SkipDeferredCall(Front(callStack), deferLen, Becomes(Worker("unwind", 0, -1)))

\* runRemainingDefers after a recover, then the recovered frame returns.
RemainingStep ==
    /\ Working("remaining")
    /\ IF deferLen > callStack[Top.fp].deferBase
       THEN PopAndExecute(control)
       ELSE /\ callStack' = Front(callStack)
            /\ DoneOrChanged(Front(control), callStack')
            /\ UNCHANGED <<deferStack, deferLen, panicking, budget, owner, ran>>

\* unwindGoexit: the entries stay on the stack while they run.
GoexitStep ==
    /\ Working("goexit")
    /\ \/ /\ Top.fp = 0 /\ FramePointer < BaseFramePointer
          /\ LoopReturns(Front(control), "goexit")
          /\ UNCHANGED <<callStack, deferStack, deferLen, panicking, budget, owner, ran>>
       \/ /\ Top.fp = 0 /\ FramePointer >= BaseFramePointer
          /\ LET c == Becomes(Worker("goexit", FramePointer, -1)) IN
             IF frame.simpleDefer.active THEN RunFrameSimpleDefer(callStack, c)
                                         ELSE SkipDeferredCall(callStack, deferLen, c)
       \/ /\ Top.fp > 0 /\ Top.base = -1
          /\ SkipDeferredCall(callStack, deferLen, Becomes(Worker("goexit", Top.fp, deferLen)))
       \/ /\ Top.fp > 0 /\ Top.base > callStack[Top.fp].deferBase
          /\ LET c == Becomes(Worker("goexit", Top.fp, Top.base - 1)) IN
             IF deferStack[Top.base].started
             THEN SkipDeferredCall(callStack, deferLen, c)
             ELSE ExecuteDeferredCall(deferStack[Top.base], callStack, deferLen, c)
       \/ /\ Top.fp > 0 /\ Top.base \in 0..callStack[Top.fp].deferBase
          /\ SkipDeferredCall(Front(callStack), callStack[Top.fp].deferBase,
                              Becomes(Worker("goexit", 0, -1)))

Ended == outcome # "running" /\ UNCHANGED unwindVars

UnwindNext ==
    \/ CallFunction \/ HandleDefer \/ RegisterTrivialDefer
    \/ HandleRecover \/ HandleNestedPanic \/ HandleRuntimeGoexit \/ Fault
    \/ \E native \in BOOLEAN : StartUnwinding(native)
    \/ ReturnInline \/ ReturnNested \/ ReturnStep
    \/ UnwindStep \/ RemainingStep \/ GoexitStep
    \/ Ended

UnwindSpec == UnwindInit /\ [][UnwindNext]_unwindVars

-----------------------------------------------------------------------------
(* Properties                                                               *)

\* Every deferred call runs at most once, and only after the calls that the
\* same frame deferred later: what the pop-before-execute discipline and the
\* started and consumed marks of defer.go are for, over inline frames, nested
\* loops and panics raised by deferred calls.  (After a runtime.Goexit it fails:
\* unwindGoexit truncates to the deferBase of a frame that a failed deferred
\* call left behind, which brings popped entries back.)
DefersOnceInOrder ==
    [][budget'.exits = MaxExits =>
        \A id \in DOMAIN ran : ran'[id] > ran[id] =>
            /\ ran[id] = 0
            /\ \A later \in id+1..Len(ran) : owner[later] = owner[id] => ran[later] > 0]_unwindVars

\* The frame an unwinder works on stays on the call stack until the unwinder
\* pops it: no nested dispatch loop, however it ends, pops below its base.
WorkingFrameLive ==
    \A i \in DOMAIN control :
        control[i].kind # "loop" => control[i].fp <= FramePointer

\* While a panic is in flight only code that a deferred call runs is executed:
\* "so the outer dispatch loop can continue unwinding" (defer_helpers.go).
PanicSuspendsFrames == Running /\ panicking => Len(control) > 1
=============================================================================
