-------------------------------- MODULE Wire --------------------------------
(***************************************************************************)
(* The protocol validator of internal/sandboxwire/machine.go.  Both ends   *)
(* of a worker or broker connection own one and show it every message, in  *)
(* both directions, before acting on it.  A machine is a record; Observe   *)
(* is the function Machine.Observe computes under the machine's mutex.     *)
(***************************************************************************)
EXTENDS Naturals, FiniteSets

CONSTANTS
    MaxCallsPerRun,       \* SessionLimits.MaxCallsPerRun, after defaulting
    MaxOutstandingCalls   \* SessionLimits.MaxOutstandingCalls, after defaulting

\* What NewMachine accepts.
ASSUME LimitsAssumption == /\ MaxCallsPerRun \in Nat \ {0}
                           /\ MaxOutstandingCalls \in 1..MaxCallsPerRun

Directions == {"HostToWorker", "WorkerToHost"}
States == {"awaitHello", "awaitConfigure", "awaitReady", "idle", "running",
           "closed", "failed"}
Terminal == {"closed", "failed"}
ControlKinds == {"Hello", "Configure", "Ready", "Close"}
RequestKinds == {"Run", "Result", "Call", "Reply"}
Kinds == ControlKinds \cup RequestKinds

NewMachine == [state |-> "awaitHello", lastRunID |-> 0, lastCallID |-> 0,
               calls |-> 0, pending |-> {}]

\* Control messages carry no identifier and requests carry one.
ValidMessage(msg) == IF msg.kind \in ControlKinds THEN msg.ID = 0 ELSE msg.ID # 0
-----------------------------------------------------------------------------
\* The one message each handshake phase admits, and the phase it leads to.
Handshake(state, direction, kind) ==
    \/ state = "awaitHello" /\ direction = "WorkerToHost" /\ kind = "Hello"
    \/ state = "awaitConfigure" /\ direction = "HostToWorker" /\ kind = "Configure"
    \/ state = "awaitReady" /\ direction = "WorkerToHost" /\ kind = "Ready"

AfterHandshake(state) == CASE state = "awaitHello" -> "awaitConfigure"
                           [] state = "awaitConfigure" -> "awaitReady"
                           [] state = "awaitReady" -> "idle"

\* A submission's identifier is larger than every earlier one.
AdmitsRun(m, direction, msg) == /\ m.state = "idle"
                                /\ direction = "HostToWorker"
                                /\ msg.kind = "Run"
                                /\ msg.ID > m.lastRunID

\* A call's identifier is larger than every earlier one of the connection, and
\* the ledger has room for it.
AdmitsCall(m, direction, msg) == /\ m.state = "running"
                                 /\ direction = "WorkerToHost"
                                 /\ msg.kind = "Call"
                                 /\ msg.ID > m.lastCallID
                                 /\ m.calls < MaxCallsPerRun
                                 /\ Cardinality(m.pending) < MaxOutstandingCalls

AdmitsReply(m, direction, msg) == /\ m.state = "running"
                                  /\ direction = "HostToWorker"
                                  /\ msg.kind = "Reply"
                                  /\ msg.ID \in m.pending

\* The result names the submission and no call of it is unanswered.
AdmitsResult(m, direction, msg) == /\ m.state = "running"
                                   /\ direction = "WorkerToHost"
                                   /\ msg.kind = "Result"
                                   /\ msg.ID = m.lastRunID
                                   /\ m.pending = {}

\* The host may shut the connection down at any time.
AdmitsClose(direction, msg) == direction = "HostToWorker" /\ msg.kind = "Close"

\* Observe returns nil.
Accepts(m, direction, msg) ==
    /\ m.state \notin Terminal
    /\ ValidMessage(msg)
    /\ \/ AdmitsClose(direction, msg)
       \/ Handshake(m.state, direction, msg.kind)
       \/ AdmitsRun(m, direction, msg)
       \/ AdmitsCall(m, direction, msg)
       \/ AdmitsReply(m, direction, msg)
       \/ AdmitsResult(m, direction, msg)

\* Mutant of Advance: the ledger of calls restarts with the submission.
AdvanceForgetting(m, msg) ==
    CASE msg.kind \in ControlKinds \ {"Close"} ->
             [m EXCEPT !.state = AfterHandshake(m.state)]
      [] msg.kind = "Close" -> [m EXCEPT !.state = "closed", !.pending = {}]
      [] msg.kind = "Run" -> [m EXCEPT !.state = "running", !.calls = 0,
                                       !.lastRunID = msg.ID, !.lastCallID = 0]
      [] msg.kind = "Call" -> [m EXCEPT !.lastCallID = msg.ID, !.calls = @ + 1,
                                        !.pending = @ \cup {msg.ID}]
      [] msg.kind = "Reply" -> [m EXCEPT !.pending = @ \ {msg.ID}]
      [] msg.kind = "Result" -> [m EXCEPT !.state = "idle"]

\* The effect of an accepted message.
Advance(m, msg) ==
    CASE msg.kind \in ControlKinds \ {"Close"} ->
             [m EXCEPT !.state = AfterHandshake(m.state)]
      [] msg.kind = "Close" -> [m EXCEPT !.state = "closed", !.pending = {}]
      [] msg.kind = "Run" -> [m EXCEPT !.state = "running", !.calls = 0,
                                       !.lastRunID = msg.ID]
      [] msg.kind = "Call" -> [m EXCEPT !.lastCallID = msg.ID, !.calls = @ + 1,
                                        !.pending = @ \cup {msg.ID}]
      [] msg.kind = "Reply" -> [m EXCEPT !.pending = @ \ {msg.ID}]
      [] msg.kind = "Result" -> [m EXCEPT !.state = "idle"]

\* A rejected message poisons the machine for good.
Fail(m) == [m EXCEPT !.state = "failed", !.pending = {}]

\* Machine.Observe: the machine after the message; Accepts is its nil error.
Observe(m, direction, msg) ==
    CASE m.state \in Terminal -> m
      [] m.state \notin Terminal /\ Accepts(m, direction, msg) -> Advance(m, msg)
      [] m.state \notin Terminal /\ ~Accepts(m, direction, msg) -> Fail(m)
=============================================================================
