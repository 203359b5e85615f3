----------------------------- MODULE WireMachine -----------------------------
(***************************************************************************)
(* One protocol machine shown arbitrary messages by its codec, in any      *)
(* order and direction.  called and answered are history variables: how    *)
(* many calls and replies with each identifier the machine has accepted    *)
(* over the whole connection.                                              *)
(***************************************************************************)
EXTENDS Wire

CONSTANT Ids   \* the identifiers messages may carry, 0 included

ASSUME IdsAssumption == Ids \subseteq Nat

VARIABLES machine, called, answered

vars == <<machine, called, answered>>

Message == [kind : Kinds, ID : Ids]

MachineInit ==
    /\ machine = NewMachine
    /\ called = [id \in Ids |-> 0]
    /\ answered = [id \in Ids |-> 0]

\* The machine observes one message.
ObserveMessage(direction, msg) ==
    LET Count(seen, kind) ==
            IF msg.kind = kind /\ Accepts(machine, direction, msg)
            THEN [seen EXCEPT ![msg.ID] = @ + 1]
            ELSE seen
    IN /\ machine' = Observe(machine, direction, msg)
       /\ called' = Count(called, "Call")
       /\ answered' = Count(answered, "Reply")

MachineNext == \E direction \in Directions, msg \in Message : ObserveMessage(direction, msg)

MachineSpec == MachineInit /\ [][MachineNext]_vars
-----------------------------------------------------------------------------
\* The machine's fields; a ledger is only open during a submission.
MachineTypeOK ==
    /\ machine \in [state : States, lastRunID : Nat, lastCallID : Nat,
                    calls : Nat, pending : SUBSET Ids]
    /\ called \in [Ids -> Nat]
    /\ answered \in [Ids -> Nat]
    /\ machine.state # "running" => machine.pending = {}

\* No identifier is called twice, or answered without or more often than it
\* was called, over a whole connection and not just a submission (running,
\* cases Call and Reply).
CorrelatedOnce ==
    \A id \in Ids : /\ answered[id] <= called[id]
                    /\ called[id] <= 1
                    /\ called[id] = 1 => id <= machine.lastCallID

\* The bounded ledger is exact: on a live connection the pending calls are the
\* accepted calls without an accepted reply, and both limits hold.
LedgerExact ==
    /\ machine.state \notin Terminal =>
           machine.pending = {id \in Ids : answered[id] < called[id]}
    /\ IsFiniteSet(machine.pending)
    /\ Cardinality(machine.pending) <= MaxOutstandingCalls
    /\ Cardinality(machine.pending) <= machine.calls
    /\ machine.calls <= MaxCallsPerRun

\* The three together are inductive: the pending set answers for the histories.
LedgerInv == MachineTypeOK /\ CorrelatedOnce /\ LedgerExact

\* A result is only accepted once every call of the connection is answered.
ResultSettled ==
    [][machine.state = "running" /\ machine'.state = "idle" => called = answered]_vars

\* After a close or a violation nothing changes any more, and submission
\* identifiers only grow (Observe's early return; fail "permanently poisons").
TerminalAbsorbing ==
    [][/\ machine.state \notin Terminal
       /\ machine'.lastRunID >= machine.lastRunID]_vars
=============================================================================
