---------------------------- MODULE WorkerSession ----------------------------
(***************************************************************************)
(* A persistent worker session (internal/sandboxworker): the host's        *)
(* SessionClient, used by several goroutines at once, and the worker's     *)
(* serveSession, joined by a stream.  Each end shows every message to its  *)
(* own protocol machine (module Wire) before it writes or acts on it.      *)
(*                                                                         *)
(* A goroutine makes one call, Submit or Close; its name stands for the    *)
(* source it submits.  Budgets, validation and evaluation are data: their  *)
(* outcome is a choice.  A phase deadline, a crash or a resource limit     *)
(* ends the process at any time.                                           *)
(***************************************************************************)
EXTENDS Wire, Sequences

CONSTANTS
    Users,         \* goroutines that use the session
    Submissions,   \* sessionSubmissions
    NoSource       \* the payload of a message without a source

\* What a call returns other than a response, which is the source evaluated.
Answers == {"none", "closed", "error", "ErrSessionClosed", "ErrSessionBusy",
            "evaluation_failed"}

ASSUME SessionAssumption == /\ Submissions \in Nat \ {0}
                            /\ NoSource \notin Users /\ Users \cap Answers = {}

VARIABLES
    clientClosed, clientActive,      \* the client's atomic flags
    nextID, left,        \* the client's nextID and submissionsRemaining
    hostMachine, workerMachine,
    toWorker, toHost,    \* bytes in the two directions of the stream
    stream,              \* "open", or "closed" by the host
    proc,                \* "alive", "clean" (exit status 0) or "dirty"
    opening,             \* the host's place in OpenSession
    upc, outcome,         \* per goroutine: its place and what its call returned
    wpc, identity, work, \* the worker's place, loop identity and source
    executed             \* history: how often each source was executed

hostVars == <<clientClosed, clientActive, nextID, left, upc, outcome, opening>>
workerVars == <<wpc, identity, work, executed>>
wireVars == <<hostMachine, workerMachine, toWorker, toHost, stream, proc>>
sessionVars == <<hostVars, workerVars, wireVars>>

Msg(kind, id, source, code) == [kind |-> kind, ID |-> id, source |-> source, code |-> code]

SessionInit == /\ clientClosed = FALSE /\ clientActive = FALSE
               /\ nextID = 1 /\ left = Submissions
               /\ hostMachine = NewMachine /\ workerMachine = NewMachine
               /\ toWorker = <<>> /\ toHost = <<>>
               /\ stream = "open" /\ proc = "alive"
               /\ opening = "hello"
               /\ upc = [u \in Users |-> "idle"]
               /\ outcome = [u \in Users |-> "none"]
               /\ wpc = "hello" /\ identity = 1 /\ work = NoSource
               /\ executed = [u \in Users |-> 0]

GoOn(u, place) == upc' = [upc EXCEPT ![u] = place]

\* A call returns.
EndCall(u, result) == GoOn(u, "returned") /\ outcome' = [outcome EXCEPT ![u] = result]
-----------------------------------------------------------------------------
\* hostSend: observe, then write; the write fails once the worker is gone.
SendFails(msg) == \/ ~Accepts(hostMachine, "HostToWorker", msg)
                  \/ stream = "closed"
                  \/ proc # "alive"

HostSend(msg) ==
    /\ hostMachine' = Observe(hostMachine, "HostToWorker", msg)
    /\ toWorker' = IF SendFails(msg) THEN toWorker ELSE Append(toWorker, msg)
    /\ UNCHANGED <<workerMachine, toHost, stream, proc>>

\* hostReceive: read, observe and compare the kind.  What the worker wrote
\* before it ended can still be read until the host closes the stream.
HostReads == stream = "open" /\ toHost # <<>>

ReceiveFails(kind) ==
    IF HostReads THEN \/ ~Accepts(hostMachine, "WorkerToHost", Head(toHost))
                      \/ Head(toHost).kind # kind
                 ELSE stream = "closed" \/ proc # "alive"

HostReceive ==
    /\ IF HostReads THEN /\ hostMachine' = Observe(hostMachine, "WorkerToHost", Head(toHost))
                         /\ toHost' = Tail(toHost)
                    ELSE /\ stream = "closed" \/ proc # "alive"
                         /\ UNCHANGED <<hostMachine, toHost>>
    /\ UNCHANGED <<workerMachine, toWorker, stream, proc>>

\* stream.Close: cancel the process, close the stream, wait for its end.
StreamClose == /\ stream' = "closed"
               /\ proc' = IF proc = "alive" THEN "dirty" ELSE proc
               /\ toWorker' = <<>> /\ toHost' = <<>>
               /\ UNCHANGED <<hostMachine, workerMachine>>
-----------------------------------------------------------------------------
\* OpenSession: the host's half of the handshake; a failure closes the stream.
OpenReceive(kind, place, next) ==
    /\ opening = place
    /\ HostReceive
    /\ opening' = IF ReceiveFails(kind) THEN "failing" ELSE next
    /\ UNCHANGED <<clientClosed, clientActive, nextID, left, upc, outcome, workerVars>>

OpenConfigure ==
    LET msg == Msg("Configure", 0, NoSource, "none")
    IN /\ opening = "configure"
       /\ HostSend(msg)
       /\ opening' = IF SendFails(msg) THEN "failing" ELSE "ready"
       /\ UNCHANGED <<clientClosed, clientActive, nextID, left, upc, outcome, workerVars>>

\* The idle deadline, which cannot be armed on an ended process.
OpenArm == /\ opening = "arm"
           /\ opening' \in {"open", "failing"}
           /\ UNCHANGED <<clientClosed, clientActive, nextID, left, upc, outcome, workerVars, wireVars>>

OpenFails == /\ opening = "failing"
             /\ StreamClose
             /\ opening' = "failed"
             /\ UNCHANGED <<clientClosed, clientActive, nextID, left, upc, outcome, workerVars>>

OpenSession == \/ OpenReceive("Hello", "hello", "configure")
               \/ OpenConfigure
               \/ OpenReceive("Ready", "ready", "arm")
               \/ OpenArm
               \/ OpenFails
-----------------------------------------------------------------------------
\* Submit: the first look at closed.
SubmitStart(u) ==
    /\ opening = "open"
    /\ upc[u] = "idle"
    /\ IF clientClosed THEN EndCall(u, "ErrSessionClosed") ELSE GoOn(u, "claim") /\ UNCHANGED outcome
    /\ UNCHANGED <<clientClosed, clientActive, nextID, left, opening, workerVars, wireVars>>

\* Mutant of SubmitClaim: the busy flag is set without being tested.
SubmitClaimBlindly(u) ==
    /\ upc[u] = "claim"
    /\ clientActive' = TRUE
    /\ GoOn(u, "check")
    /\ UNCHANGED <<clientClosed, nextID, left, outcome, opening, workerVars, wireVars>>

\* Submit: compare-and-swap of active.
SubmitClaim(u) ==
    /\ upc[u] = "claim"
    /\ IF clientActive THEN EndCall(u, "ErrSessionBusy") ELSE GoOn(u, "check") /\ UNCHANGED outcome
    /\ clientActive' = TRUE
    /\ UNCHANGED <<clientClosed, nextID, left, opening, workerVars, wireVars>>

\* exchange: the second look at closed, validation and the source budget.
SubmitCheck(u) ==
    /\ upc[u] = "check"
    /\ \/ GoOn(u, "failing") /\ UNCHANGED left
       \/ ~clientClosed /\ left > 0 /\ GoOn(u, "run") /\ left' = left - 1
    /\ UNCHANGED <<clientClosed, clientActive, nextID, outcome, opening, workerVars, wireVars>>

\* exchangeSubmission: arm the phase deadline, which fails on an ended process,
\* and send one of the two runs.
SubmitSend(u, place, id, source, next) ==
    LET msg == Msg("Run", id, source, "none")
    IN /\ upc[u] = place
       /\ \/ GoOn(u, "failing") /\ UNCHANGED wireVars
          \/ HostSend(msg) /\ GoOn(u, IF SendFails(msg) THEN "failing" ELSE next)
       /\ UNCHANGED <<clientClosed, clientActive, nextID, left, outcome, opening, workerVars>>

\* exchangeSubmission: the result of the compilation.
AwaitCompiled(u) ==
    /\ upc[u] = "awaitCompiled"
    /\ HostReceive
    /\ CASE ReceiveFails("Result") -> GoOn(u, "failing") /\ UNCHANGED outcome
         [] ~ReceiveFails("Result") /\ Head(toHost).code = "compiled" ->
                GoOn(u, "execute") /\ UNCHANGED outcome
         [] OTHER -> /\ GoOn(u, "settle")
                     /\ outcome' = [outcome EXCEPT ![u] = "evaluation_failed"]
    /\ UNCHANGED <<clientClosed, clientActive, nextID, left, opening, workerVars>>

\* exchangeSubmission: the result of the execution.  The response is kept in
\* outcome until the call returns it or a failure clears it.
AwaitResult(u) ==
    /\ upc[u] = "awaitResult"
    /\ HostReceive
    /\ IF ReceiveFails("Result")
         THEN GoOn(u, "failing") /\ UNCHANGED outcome
         ELSE /\ GoOn(u, "settle")
              /\ outcome' = [outcome EXCEPT ![u] = IF Head(toHost).code = "ok"
                                                    THEN Head(toHost).source
                                                    ELSE "evaluation_failed"]
    /\ UNCHANGED <<clientClosed, clientActive, nextID, left, opening, workerVars>>

\* exchange: advance the identity and charge the output; a failed evaluation
\* is an error, and the last submission closes the session and waits.
SubmitSettle(u) ==
    /\ upc[u] = "settle"
    /\ nextID' = nextID + 2
    /\ \/ GoOn(u, "failing") /\ UNCHANGED clientClosed
       \/ /\ outcome[u] # "evaluation_failed"
          /\ GoOn(u, IF left = 0 THEN "lastWait" ELSE "recheck")
          /\ clientClosed' = (clientClosed \/ left = 0)
    /\ UNCHANGED <<clientActive, left, outcome, opening, workerVars, wireVars>>

\* exchange after the last submission: the worker's exit, then cleanup.
SubmitLastWait(u) ==
    /\ upc[u] = "lastWait"
    /\ proc # "alive"
    /\ StreamClose
    /\ \/ GoOn(u, "failing")
       \/ proc = "clean" /\ GoOn(u, "release")
    /\ UNCHANGED <<clientClosed, clientActive, nextID, left, outcome, opening, workerVars>>

\* exchange: arm the idle deadline and look at closed once more.
SubmitRecheck(u) ==
    /\ upc[u] = "recheck"
    /\ \/ GoOn(u, "failing")
       \/ ~clientClosed /\ stream = "open" /\ GoOn(u, "release")
    /\ UNCHANGED <<clientClosed, clientActive, nextID, left, outcome, opening, workerVars, wireVars>>

\* Submit's deferred function: any error closes the session and its process
\* and clears the response.
SubmitFail(u) ==
    /\ upc[u] = "failing"
    /\ clientClosed' = TRUE
    /\ StreamClose
    /\ GoOn(u, "release")
    /\ outcome' = [outcome EXCEPT ![u] = "error"]
    /\ UNCHANGED <<clientActive, nextID, left, opening, workerVars>>

\* Submit's last deferred function.
SubmitRelease(u) ==
    /\ upc[u] = "release"
    /\ clientActive' = FALSE
    /\ GoOn(u, "returned")
    /\ UNCHANGED <<clientClosed, nextID, left, outcome, opening, workerVars, wireVars>>

Submit(u) == \/ SubmitStart(u) \/ SubmitClaim(u) \/ SubmitCheck(u)
             \/ SubmitSend(u, "run", nextID, u, "awaitCompiled")
             \/ AwaitCompiled(u)
             \/ SubmitSend(u, "execute", nextID + 1, NoSource, "awaitResult")
             \/ AwaitResult(u)
             \/ SubmitSettle(u) \/ SubmitLastWait(u) \/ SubmitRecheck(u)
             \/ SubmitFail(u) \/ SubmitRelease(u)
-----------------------------------------------------------------------------
\* Close: the swap of closed; only the first caller goes on to the protocol.
CloseSwap(u) ==
    /\ opening = "open"
    /\ upc[u] = "idle"
    /\ clientClosed' = TRUE
    /\ GoOn(u, IF clientClosed THEN "closeStream" ELSE "closeClaim")
    /\ UNCHANGED <<clientActive, nextID, left, outcome, opening, workerVars, wireVars>>

\* Close: compare-and-swap of active; a submission in flight is cut off.
CloseClaim(u) ==
    /\ upc[u] = "closeClaim"
    /\ clientActive' = TRUE
    /\ GoOn(u, IF clientActive THEN "closeStream" ELSE "closeSend")
    /\ UNCHANGED <<clientClosed, nextID, left, outcome, opening, workerVars, wireVars>>

\* Close without the protocol: end the process and return.
CloseStream(u) ==
    /\ upc[u] = "closeStream"
    /\ StreamClose
    /\ EndCall(u, "closed")
    /\ UNCHANGED <<clientClosed, clientActive, nextID, left, opening, workerVars>>

\* Close: arm the deadline and send the close message.
CloseSend(u) ==
    LET msg == Msg("Close", 0, NoSource, "none")
    IN /\ upc[u] = "closeSend"
       /\ \/ GoOn(u, "closeFinish") /\ UNCHANGED wireVars
          \/ HostSend(msg) /\ GoOn(u, IF SendFails(msg) THEN "closeFinish" ELSE "closeWait")
       /\ UNCHANGED <<clientClosed, clientActive, nextID, left, outcome, opening, workerVars>>

\* Close: wait for the worker to exit.
CloseWait(u) ==
    /\ upc[u] = "closeWait"
    /\ proc # "alive"
    /\ GoOn(u, "closeFinish")
    /\ UNCHANGED <<clientClosed, clientActive, nextID, left, outcome, opening, workerVars, wireVars>>

\* Close: clean up, then clear active and return.
CloseFinish(u) ==
    /\ upc[u] = "closeFinish"
    /\ StreamClose
    /\ clientActive' = FALSE
    /\ EndCall(u, "closed")
    /\ UNCHANGED <<clientClosed, nextID, left, opening, workerVars>>

Close(u) == \/ CloseSwap(u) \/ CloseClaim(u) \/ CloseStream(u)
            \/ CloseSend(u) \/ CloseWait(u) \/ CloseFinish(u)
-----------------------------------------------------------------------------
\* The worker's send and receive; a rejected message ends serveSession with an
\* error and the process with it.
WorkerSend(msg, next) ==
    /\ workerMachine' = Observe(workerMachine, "WorkerToHost", msg)
    /\ toHost' = IF Accepts(workerMachine, "WorkerToHost", msg) THEN Append(toHost, msg)
                                                               ELSE toHost
    /\ wpc' = IF Accepts(workerMachine, "WorkerToHost", msg) THEN next ELSE "fail"
    /\ UNCHANGED <<hostMachine, toWorker, stream, proc>>

WorkerReceive == /\ toWorker # <<>>
                 /\ workerMachine' = Observe(workerMachine, "HostToWorker", Head(toWorker))
                 /\ toWorker' = Tail(toWorker)
                 /\ UNCHANGED <<hostMachine, toHost, stream, proc>>

\* Serve: the hello, the configuration (which may be refused) and the ready.
WorkerHello == /\ wpc = "hello"
               /\ WorkerSend(Msg("Hello", 0, NoSource, "none"), "configure")
               /\ UNCHANGED <<identity, work, executed>>

WorkerConfigure ==
    /\ wpc = "configure"
    /\ WorkerReceive
    /\ wpc' \in CASE ~Accepts(workerMachine, "HostToWorker", Head(toWorker)) -> {"fail"}
                  [] Head(toWorker).kind = "Close" -> {"exit"}
                  [] OTHER -> {"ready", "fail"}
    /\ UNCHANGED <<identity, work, executed>>

WorkerReady == /\ wpc = "ready"
               /\ WorkerSend(Msg("Ready", 0, NoSource, "none"), "serve")
               /\ UNCHANGED <<identity, work, executed>>

\* Mutant of WorkerServe: the request decoded first is evaluated again.
WorkerServeStale ==
    LET msg == Head(toWorker)
    IN /\ wpc = "serve"
       /\ WorkerReceive
       /\ work' = IF work = NoSource THEN msg.source ELSE work
       /\ wpc' = IF msg.kind = "Run" THEN "compile" ELSE "exit"
       /\ UNCHANGED <<identity, executed>>

\* serveSession's loop: a close ends it, a run with the loop's identity starts
\* a submission, which may be refused by validation.
WorkerServe ==
    LET msg == Head(toWorker)
        accepted == Accepts(workerMachine, "HostToWorker", msg)
    IN /\ wpc = "serve"
       /\ WorkerReceive
       /\ work' = msg.source
       /\ wpc' \in IF accepted /\ msg.kind = "Close" THEN {"exit"}
                   ELSE IF accepted /\ msg.kind = "Run" /\ msg.ID = identity
                        THEN {"compile", "fail"}
                   ELSE {"fail"}
       /\ UNCHANGED <<identity, executed>>

\* The phases of serveSessionSubmission: compile, and await the execution.
WorkerCompile ==
    /\ wpc = "compile"
    /\ \/ WorkerSend(Msg("Result", identity, work, "evaluation_failed"), "exit")
       \/ WorkerSend(Msg("Result", identity, work, "compiled"), "await")
    /\ UNCHANGED <<identity, work, executed>>

AwaitExecution ==
    LET msg == Head(toWorker)
    IN /\ wpc = "await"
       /\ WorkerReceive
       /\ IF /\ Accepts(workerMachine, "HostToWorker", msg)
             /\ msg.kind = "Run"
             /\ msg.ID = identity + 1
            THEN /\ wpc' = "execute"
                 /\ executed' = [executed EXCEPT ![work] = @ + 1]
            ELSE wpc' = "fail" /\ UNCHANGED executed
       /\ UNCHANGED <<identity, work>>

\* The final result; a failed evaluation or the last submission ends the loop.
WorkerExecute ==
    /\ wpc = "execute"
    /\ \/ /\ WorkerSend(Msg("Result", identity + 1, work, "evaluation_failed"), "exit")
          /\ UNCHANGED identity
       \/ /\ WorkerSend(Msg("Result", identity + 1, work, "ok"),
                        IF identity + 2 <= 2 * Submissions THEN "serve" ELSE "exit")
          /\ identity' = identity + 2
    /\ UNCHANGED <<work, executed>>

\* The worker's main function returns.
WorkerExit == /\ wpc \in {"exit", "fail"}
              /\ proc' = IF wpc = "exit" THEN "clean" ELSE "dirty"
              /\ wpc' = "gone"
              /\ UNCHANGED <<identity, work, executed, hostMachine, workerMachine,
                             toWorker, toHost, stream>>

WorkerStep == \/ WorkerHello \/ WorkerConfigure \/ WorkerReady \/ WorkerServe
              \/ WorkerCompile \/ AwaitExecution \/ WorkerExecute \/ WorkerExit

Worker == proc = "alive" /\ WorkerStep /\ UNCHANGED hostVars

\* Mutant of Expire: the execution phase has no deadline.
ExpireUnlessExecuting == /\ proc = "alive"
                         /\ wpc # "execute"
                         /\ proc' = "dirty"
                         /\ UNCHANGED <<hostMachine, workerMachine, toWorker, toHost,
                                        stream, hostVars, workerVars>>

\* A phase deadline passes (expirePhase), or the process dies of anything else.
Expire == /\ proc = "alive"
          /\ proc' = "dirty"
          /\ UNCHANGED <<hostMachine, workerMachine, toWorker, toHost, stream,
                         hostVars, workerVars>>

\* Every goroutine has returned and the process is gone.
Finished == /\ \A u \in Users : upc[u] \in {"idle", "returned"}
            /\ proc # "alive"
            /\ UNCHANGED sessionVars

SessionNext == \/ OpenSession
               \/ \E u \in Users : Submit(u) \/ Close(u)
               \/ Worker
               \/ Expire
               \/ Finished

\* Goroutines that made a call run on.  A deadline is armed in every phase, so
\* a process that stays alive is ended; the worker itself may hang.
UserRuns(u) == upc[u] # "idle" /\ (Submit(u) \/ Close(u))

SessionFairness == /\ \A u \in Users : WF_sessionVars(UserRuns(u))
                   /\ WF_sessionVars(OpenSession)
                   /\ WF_sessionVars(Expire)

SessionSpec == SessionInit /\ [][SessionNext]_sessionVars /\ SessionFairness
-----------------------------------------------------------------------------
\* The places of a goroutine that has won active.
Exchanging == {"check", "run", "awaitCompiled", "execute", "awaitResult", "settle",
               "lastWait", "recheck", "failing", "release",
               "closeSend", "closeWait", "closeFinish"}

\* The session's counters and flags; identities stay within the session's
\* submissions on both sides.
SessionTypeOK == /\ {clientClosed, clientActive} \subseteq BOOLEAN
                 /\ left \in 0..Submissions
                 /\ nextID \in {2 * n + 1 : n \in 0..Submissions}
                 /\ identity \in {2 * n + 1 : n \in 0..Submissions}
                 /\ {hostMachine.state, workerMachine.state} \subseteq States
                 /\ stream \in {"open", "closed"}
                 /\ proc \in {"alive", "clean", "dirty"}
                 /\ upc \in [Users -> Exchanging \cup {"idle", "claim", "closeClaim",
                                                      "closeStream", "returned"}]
                 /\ executed \in [Users -> 0..1]

\* One goroutine at a time uses the stream and the host's machine, and active
\* is cleared on every way out (the compare-and-swap in Submit and Close).
SingleExchange ==
    /\ clientActive <=> \E u \in Users : upc[u] \in Exchanging
    /\ \A u, v \in Users : upc[u] \in Exchanging /\ upc[v] \in Exchanging => u = v

\* "Callers must observe each message exactly once in transport order"
\* (machine.go:83): on an honest connection neither end ever rejects what the
\* other sent, whatever Submit, Close and a dying worker do to each other, and
\* with nothing in flight they agree on the whole protocol state.  One
\* goroutine at a time holds the conversation, and values keep their types.
ProtocolHeld ==
    /\ SessionTypeOK /\ SingleExchange
    /\ hostMachine.state # "failed" /\ workerMachine.state # "failed"
    /\ stream = "open" /\ proc = "alive" /\ toWorker = <<>> /\ toHost = <<>>
           => hostMachine = workerMachine

\* A response belongs to the source its caller submitted, which was executed
\* exactly once (the identities of exchangeSubmission and serveSession).
ResponseMatches ==
    \A u \in Users : upc[u] = "returned" /\ outcome[u] \in Users =>
        outcome[u] = u /\ executed[u] = 1

\* Once Close has returned, or Submit an error of the exchange, the worker
\* process is gone (Submit's deferred function, every path of Close).
EndsProcess ==
    \A u \in Users : upc[u] = "returned" /\ outcome[u] \in {"closed", "error"}
        => proc # "alive" /\ stream = "closed"

\* What a caller is told is what happened to its submission and to the worker.
OutcomeHonest == ResponseMatches /\ EndsProcess

\* Every Submit and Close returns: each phase it waits in has a deadline.
CallsReturn == \A u \in Users : upc[u] # "idle" ~> upc[u] = "returned"
=============================================================================
