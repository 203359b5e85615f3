----------------------------- MODULE MCProtocol -----------------------------
(* What an isolated submission passes through, one part per behaviour: the
   admission gate, a protocol machine shown any message, a session with its
   worker, and an exchange with a filesystem broker.  `part' says which; the
   others stay as they started.

   Three callers of two gates: a holder, a queued caller and a third that is
   refused or arrives during the handoff.

   The limits of the protocol are small enough that both are reached, with
   identifiers enough for two submissions with calls in each.  Three goroutines
   on a session of two submissions: two submissions and a close, three
   submissions, or one between two closes.  Two goroutines of a program make two
   calls each, refused ones among them, with a quota of calls below and at the
   one the broker serves. *)
EXTENDS AdmissionGate, WireMachine, WorkerSession, FilesystemRelay

VARIABLE part

protocolVars == <<part, gateVars, vars, sessionVars, relayVars>>

MCRequests == {[valid |-> TRUE,  granted |-> TRUE,  limit |-> 1],
               [valid |-> TRUE,  granted |-> TRUE,  limit |-> 2],
               [valid |-> TRUE,  granted |-> FALSE, limit |-> 1],
               [valid |-> FALSE, granted |-> TRUE,  limit |-> 1]}

ProtocolInit == /\ part \in {"gate", "machine", "session", "relay"}
                /\ Init /\ MachineInit /\ SessionInit /\ RelayInit

ProtocolNext ==
    /\ \/ part = "gate"    /\ Next        /\ UNCHANGED <<vars, sessionVars, relayVars>>
       \/ part = "machine" /\ MachineNext /\ UNCHANGED <<gateVars, sessionVars, relayVars>>
       \/ part = "session" /\ SessionNext /\ UNCHANGED <<gateVars, vars, relayVars>>
       \/ part = "relay"   /\ RelayNext   /\ UNCHANGED <<gateVars, vars, sessionVars>>
    /\ UNCHANGED part

\* Fairness, SessionFairness and RelayFairness, of the part that is there.
ProtocolSpec ==
    /\ ProtocolInit /\ [][ProtocolNext]_protocolVars
    /\ \A c \in Callers : WF_gateVars(part = "gate" /\ (GateStep(c) \/ Return(c)))
    /\ \A u \in Users : WF_sessionVars(part = "session" /\ UserRuns(u))
    /\ WF_sessionVars(part = "session" /\ OpenSession)
    /\ WF_sessionVars(part = "session" /\ Expire)
    /\ WF_relayVars(part = "relay" /\ RelaySteps)
    /\ WF_relayVars(part = "relay" /\ BrokerSteps)
    /\ WF_relayVars(part = "relay" /\ WorkerSteps)
    /\ WF_relayVars(part = "relay" /\ ExecuteCancelled)
    /\ WF_relayVars(part = "relay" /\ CancelExchange)
    /\ \A a \in {"relay", "canceller"} : WF_relayVars(part = "relay" /\ CloseSteps(a))
=============================================================================
