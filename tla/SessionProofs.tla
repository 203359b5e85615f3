---------------------------- MODULE SessionProofs ----------------------------
(***************************************************************************)
(* What a session rests on, for any values of the constants: the protocol  *)
(* machine at each end of its connection, the retained session with its    *)
(* budgets, and the approvals that outlive it.                             *)
(***************************************************************************)
EXTENDS WireMachine, RestrictedSession, ApprovalStore, FiniteSetTheorems, TLAPS

-----------------------------------------------------------------------------
(***************************************************************************)
(* The protocol machine for any limits NewMachine accepts and any set of   *)
(* identifiers.  MachineTypeOK, CorrelatedOnce and LedgerExact are         *)
(* inductive only together: a reply is matched by the ledger, which is     *)
(* exact because identifiers are fresh, which holds because lastCallID     *)
(* bounds them.                                                            *)
(***************************************************************************)

\* A message that is not an accepted call or reply leaves the histories alone.
LEMMA OtherKeepsInv ==
    ASSUME LedgerInv, machine' \in [state : States, lastRunID : Nat,
                                    lastCallID : Nat, calls : Nat,
                                    pending : SUBSET Ids],
           called' = called, answered' = answered,
           machine'.lastCallID = machine.lastCallID,
           machine'.calls \in {0, machine.calls},
           \/ /\ machine'.state = "failed" \/ machine'.state = "closed"
              /\ machine'.pending = {}
           \/ /\ machine.state \notin Terminal
              /\ machine.pending = {}
              /\ machine'.pending = {}
    PROVE  LedgerInv'
<1>1. MachineTypeOK' /\ CorrelatedOnce'
  BY DEF LedgerInv, MachineTypeOK, CorrelatedOnce
<1>2. IsFiniteSet(machine'.pending) /\ Cardinality(machine'.pending) = 0
  BY FS_EmptySet
<1>3. LedgerExact'
  BY <1>2, LimitsAssumption DEF LedgerInv, LedgerExact, MachineTypeOK, Terminal
<1> QED BY <1>1, <1>3 DEF LedgerInv

\* Case Call of running.
LEMMA CallKeepsInv ==
    ASSUME LedgerInv, NEW direction, NEW msg \in Message,
           ObserveMessage(direction, msg), Accepts(machine, direction, msg),
           msg.kind = "Call"
    PROVE  LedgerInv'
<1>1. /\ machine.state = "running"
      /\ msg.ID \in Ids /\ msg.ID \in Nat
      /\ msg.ID > machine.lastCallID
      /\ machine.calls < MaxCallsPerRun
      /\ Cardinality(machine.pending) < MaxOutstandingCalls
  BY IdsAssumption, Zenon DEF Accepts, AdmitsClose, Handshake, AdmitsRun, AdmitsCall, AdmitsReply,
     AdmitsResult, Message, LedgerInv, MachineTypeOK
<1>2. machine' = [machine EXCEPT !.lastCallID = msg.ID, !.calls = @ + 1,
                                 !.pending = @ \cup {msg.ID}]
  BY <1>1 DEF ObserveMessage, Observe, Advance, Terminal, ControlKinds
<1>f. /\ machine'.state = machine.state
      /\ machine'.lastRunID = machine.lastRunID
      /\ machine'.lastCallID = msg.ID
      /\ machine'.calls = machine.calls + 1
      /\ machine'.pending = machine.pending \cup {msg.ID}
  BY <1>2 DEF LedgerInv, MachineTypeOK
<1>t. machine' \in [state : States, lastRunID : Nat, lastCallID : Nat,
                    calls : Nat, pending : SUBSET Ids]
  <2>1. msg.ID \in Nat /\ machine.calls + 1 \in Nat
        /\ machine.pending \cup {msg.ID} \in SUBSET Ids
    BY <1>1 DEF LedgerInv, MachineTypeOK
  <2> QED BY <1>2, <2>1, Zenon DEF LedgerInv, MachineTypeOK
<1>3. called' = [called EXCEPT ![msg.ID] = @ + 1] /\ answered' = answered
  BY DEF ObserveMessage
<1>4. called[msg.ID] = 0 /\ answered[msg.ID] = 0 /\ msg.ID \notin machine.pending
  BY <1>1 DEF LedgerInv, MachineTypeOK, CorrelatedOnce, LedgerExact, Terminal
<1>5. MachineTypeOK'
  BY <1>1, <1>f, <1>t, <1>3 DEF LedgerInv, MachineTypeOK
<1>6. CorrelatedOnce'
  BY <1>1, <1>f, <1>3, <1>4, IdsAssumption DEF LedgerInv, MachineTypeOK, CorrelatedOnce
<1>7. /\ IsFiniteSet(machine'.pending)
      /\ Cardinality(machine'.pending) = Cardinality(machine.pending) + 1
      /\ Cardinality(machine.pending) \in Nat
  <2>1. machine'.pending = machine.pending \cup {msg.ID}
    BY <1>f
  <2> QED BY <2>1, <1>4, FS_AddElement, FS_CardinalityType
          DEF LedgerInv, LedgerExact
<1>8. LedgerExact'
  BY <1>1, <1>f, <1>3, <1>4, <1>7, LimitsAssumption
     DEF LedgerInv, MachineTypeOK, CorrelatedOnce, LedgerExact, Terminal
<1> QED BY <1>5, <1>6, <1>8 DEF LedgerInv

\* Case Reply of running.
LEMMA ReplyKeepsInv ==
    ASSUME LedgerInv, NEW direction, NEW msg \in Message,
           ObserveMessage(direction, msg), Accepts(machine, direction, msg),
           msg.kind = "Reply"
    PROVE  LedgerInv'
<1>1. machine.state = "running" /\ msg.ID \in machine.pending /\ msg.ID \in Ids
  BY DEF Accepts, AdmitsClose, Handshake, AdmitsRun, AdmitsCall, AdmitsReply,
     AdmitsResult, Message
<1>2. machine' = [machine EXCEPT !.pending = @ \ {msg.ID}]
  BY <1>1 DEF ObserveMessage, Observe, Advance, Terminal, ControlKinds
<1>3. answered' = [answered EXCEPT ![msg.ID] = @ + 1] /\ called' = called
  BY DEF ObserveMessage
<1>4. called[msg.ID] = 1 /\ answered[msg.ID] = 0
  BY <1>1 DEF LedgerInv, MachineTypeOK, CorrelatedOnce, LedgerExact, Terminal
<1>5. MachineTypeOK'
  BY <1>1, <1>2, <1>3 DEF LedgerInv, MachineTypeOK
<1>6. CorrelatedOnce'
  BY <1>1, <1>2, <1>3, <1>4 DEF LedgerInv, MachineTypeOK, CorrelatedOnce
<1>7. /\ IsFiniteSet(machine'.pending)
      /\ Cardinality(machine'.pending) = Cardinality(machine.pending) - 1
      /\ Cardinality(machine.pending) \in Nat
  <2>1. machine'.pending = machine.pending \ {msg.ID}
    BY <1>2 DEF LedgerInv, MachineTypeOK
  <2> QED BY <2>1, <1>1, FS_RemoveElement, FS_CardinalityType
          DEF LedgerInv, LedgerExact
<1>8. LedgerExact'
  BY <1>1, <1>2, <1>3, <1>4, <1>7, LimitsAssumption
     DEF LedgerInv, MachineTypeOK, CorrelatedOnce, LedgerExact, Terminal
<1> QED BY <1>5, <1>6, <1>8 DEF LedgerInv

\* Observe keeps the ledger invariant, whatever the message and its direction.
THEOREM LedgerInvStep == LedgerInv /\ [MachineNext]_vars => LedgerInv'
<1> SUFFICES ASSUME LedgerInv, [MachineNext]_vars PROVE LedgerInv'
  OBVIOUS
<1>1. CASE UNCHANGED vars
  BY <1>1 DEF vars, LedgerInv, MachineTypeOK, CorrelatedOnce, LedgerExact
<1>2. ASSUME NEW direction \in Directions, NEW msg \in Message,
             ObserveMessage(direction, msg)
      PROVE  LedgerInv'
  <2>1. CASE machine.state \in Terminal
    <3>1. UNCHANGED vars
      BY <1>2, <2>1 DEF ObserveMessage, Observe, Accepts, vars
    <3> QED BY <1>1, <3>1
  <2>2. CASE machine.state \notin Terminal /\ ~Accepts(machine, direction, msg)
    <3>1. machine' = Fail(machine) /\ called' = called /\ answered' = answered
      BY <1>2, <2>2 DEF ObserveMessage, Observe
    <3>2. machine' \in [state : States, lastRunID : Nat, lastCallID : Nat,
                        calls : Nat, pending : SUBSET Ids]
      BY <3>1, Zenon DEF Fail, LedgerInv, MachineTypeOK, States
    <3> QED BY <3>1, <3>2, OtherKeepsInv DEF Fail, LedgerInv, MachineTypeOK
  <2>3. CASE Accepts(machine, direction, msg) /\ msg.kind = "Call"
    BY <1>2, <2>3, CallKeepsInv
  <2>4. CASE Accepts(machine, direction, msg) /\ msg.kind = "Reply"
    BY <1>2, <2>4, ReplyKeepsInv
  <2>5. CASE Accepts(machine, direction, msg) /\ msg.kind \notin {"Call", "Reply"}
    <3>1. /\ machine.state \notin Terminal
          /\ machine' = Advance(machine, msg)
          /\ called' = called /\ answered' = answered
      BY <1>2, <2>5 DEF ObserveMessage, Observe, Accepts
    <3>2. msg.kind \in Kinds /\ msg.ID \in Nat
      BY IdsAssumption, Zenon DEF Message
    <3>3. CASE msg.kind = "Close"
      <4>1. machine' = [machine EXCEPT !.state = "closed", !.pending = {}]
        BY <3>1, <3>3 DEF Advance, ControlKinds
      <4>2. machine' \in [state : States, lastRunID : Nat, lastCallID : Nat,
                          calls : Nat, pending : SUBSET Ids]
        BY <4>1, Zenon DEF LedgerInv, MachineTypeOK, States
      <4> QED BY <3>1, <4>1, <4>2, OtherKeepsInv DEF LedgerInv, MachineTypeOK
    <3>4. CASE msg.kind \in {"Hello", "Configure", "Ready"}
      <4>1. machine.state \in {"awaitHello", "awaitConfigure", "awaitReady"}
        BY <2>5, <3>4 DEF Accepts, AdmitsClose, Handshake, AdmitsRun,
           AdmitsCall, AdmitsReply, AdmitsResult
      <4>2. machine' = [machine EXCEPT !.state = AfterHandshake(machine.state)]
        BY <3>1, <3>4 DEF Advance, ControlKinds
      <4>3. AfterHandshake(machine.state) \in {"awaitConfigure", "awaitReady", "idle"}
        BY <4>1 DEF AfterHandshake
      <4>4. machine' \in [state : States, lastRunID : Nat, lastCallID : Nat,
                          calls : Nat, pending : SUBSET Ids]
        BY <4>2, <4>3 DEF LedgerInv, MachineTypeOK, States
      <4> QED BY <3>1, <4>1, <4>2, <4>4, OtherKeepsInv DEF LedgerInv, MachineTypeOK
    <3>5. CASE msg.kind = "Run"
      <4>1. machine.state = "idle"
        BY <2>5, <3>5 DEF Accepts, AdmitsClose, Handshake, AdmitsRun,
           AdmitsCall, AdmitsReply, AdmitsResult
      <4>2. machine' = [machine EXCEPT !.state = "running", !.calls = 0,
                                       !.lastRunID = msg.ID]
        BY <3>1, <3>5 DEF Advance, ControlKinds
      <4>3. machine' \in [state : States, lastRunID : Nat, lastCallID : Nat,
                          calls : Nat, pending : SUBSET Ids]
        BY <3>2, <4>2, Zenon DEF LedgerInv, MachineTypeOK, States
      <4> QED BY <3>1, <4>1, <4>2, <4>3, OtherKeepsInv DEF LedgerInv, MachineTypeOK
    <3>6. CASE msg.kind = "Result"
      <4>1. machine.pending = {}
        BY <2>5, <3>6 DEF Accepts, AdmitsClose, Handshake, AdmitsRun,
           AdmitsCall, AdmitsReply, AdmitsResult
      <4>2. machine' = [machine EXCEPT !.state = "idle"]
        BY <3>1, <3>6 DEF Advance, ControlKinds
      <4>3. machine' \in [state : States, lastRunID : Nat, lastCallID : Nat,
                          calls : Nat, pending : SUBSET Ids]
        BY <4>2 DEF LedgerInv, MachineTypeOK, States
      <4> QED BY <3>1, <4>1, <4>2, <4>3, OtherKeepsInv DEF LedgerInv, MachineTypeOK
    <3> QED BY <2>5, <3>2, <3>3, <3>4, <3>5, <3>6
            DEF Kinds, ControlKinds, RequestKinds
  <2> QED BY <2>1, <2>2, <2>3, <2>4, <2>5 DEF Accepts
<1> QED BY <1>1, <1>2 DEF MachineNext

\* The ledger invariant holds for every limit and every set of identifiers.
THEOREM LedgerInvariance == MachineSpec => []LedgerInv
<1>1. MachineInit => LedgerInv
  <2> SUFFICES ASSUME MachineInit PROVE LedgerInv
    OBVIOUS
  <2>1. MachineTypeOK /\ CorrelatedOnce
    BY DEF MachineInit, NewMachine, MachineTypeOK, CorrelatedOnce, States
  <2>2. machine.pending = {} /\ machine.calls = 0
    BY DEF MachineInit, NewMachine
  <2>3. IsFiniteSet(machine.pending) /\ Cardinality(machine.pending) = 0
    BY <2>2, FS_EmptySet
  <2>4. LedgerExact
    BY <2>2, <2>3, LimitsAssumption DEF MachineInit, LedgerExact
  <2> QED BY <2>1, <2>4 DEF LedgerInv
<1> QED BY <1>1, LedgerInvStep, PTL DEF MachineSpec

\* The machine's types (TypeOK), for every limit.
THEOREM MachineTypeCorrect == MachineSpec => []MachineTypeOK
BY LedgerInvariance, PTL DEF LedgerInv

\* Each call identifier is used once and answered at most once.
THEOREM CallsCorrelatedOnce == MachineSpec => []CorrelatedOnce
BY LedgerInvariance, PTL DEF LedgerInv

\* The pending ledger is exactly the unanswered calls and keeps both limits.
THEOREM LedgerIsExact == MachineSpec => []LedgerExact
BY LedgerInvariance, PTL DEF LedgerInv

\* A result is accepted only when every call has been answered.
THEOREM ResultsAreSettled == MachineSpec => ResultSettled
<1>1. ASSUME LedgerInv, [MachineNext]_vars,
             machine.state = "running", machine'.state = "idle"
      PROVE  called = answered
  <2>1. machine' # machine
    BY <1>1
  <2>2. PICK direction \in Directions, msg \in Message : ObserveMessage(direction, msg)
    BY <1>1, <2>1 DEF MachineNext, vars
  <2>3. Accepts(machine, direction, msg) /\ machine' = Advance(machine, msg)
    <3>1. Fail(machine).state = "failed"
      BY <1>1 DEF Fail, LedgerInv, MachineTypeOK
    <3> QED BY <1>1, <2>2, <3>1 DEF ObserveMessage, Observe, Terminal
  <2>4. msg.kind \in {"Close", "Call", "Reply", "Result"}
    BY <1>1, <2>3 DEF Accepts, AdmitsClose, Handshake, AdmitsRun, AdmitsCall,
       AdmitsReply, AdmitsResult
  <2>5. msg.kind = "Result"
    <3>1. msg.kind # "Close"
      BY <1>1, <2>3 DEF Advance, ControlKinds, LedgerInv, MachineTypeOK
    <3>2. msg.kind # "Call"
      BY <1>1, <2>3 DEF Advance, ControlKinds, LedgerInv, MachineTypeOK
    <3>3. msg.kind # "Reply"
      BY <1>1, <2>3 DEF Advance, ControlKinds, LedgerInv, MachineTypeOK
    <3> QED BY <2>4, <3>1, <3>2, <3>3
  <2>6. machine.pending = {}
    BY <2>3, <2>5 DEF Accepts, AdmitsClose, Handshake, AdmitsRun, AdmitsCall,
       AdmitsReply, AdmitsResult
  <2>7. \A id \in Ids : answered[id] = called[id]
    <3> TAKE id \in Ids
    <3>1. ~(answered[id] < called[id])
      BY <1>1, <2>6 DEF LedgerInv, LedgerExact, Terminal
    <3> QED BY <1>1, <3>1 DEF LedgerInv, MachineTypeOK, CorrelatedOnce
  <2> QED BY <1>1, <2>7 DEF LedgerInv, MachineTypeOK
<1> QED BY <1>1, LedgerInvariance, PTL DEF MachineSpec, ResultSettled

\* A closed or failed machine never changes, and submission identifiers grow.
THEOREM TerminalIsAbsorbing == MachineSpec => TerminalAbsorbing
<1>1. ASSUME LedgerInv, [MachineNext]_vars
      PROVE  [/\ machine.state \notin Terminal
              /\ machine'.lastRunID >= machine.lastRunID]_vars
  <2> SUFFICES ASSUME NEW direction \in Directions, NEW msg \in Message,
                      ObserveMessage(direction, msg), ~UNCHANGED vars
               PROVE  /\ machine.state \notin Terminal
                      /\ machine'.lastRunID >= machine.lastRunID
    BY <1>1 DEF MachineNext
  <2>1. machine.state \notin Terminal
    BY DEF ObserveMessage, Observe, Accepts, vars
  <2>2. CASE ~Accepts(machine, direction, msg)
    <3>1. machine' = [machine EXCEPT !.state = "failed", !.pending = {}]
      BY <2>1, <2>2 DEF ObserveMessage, Observe, Fail
    <3>2. machine'.lastRunID = machine.lastRunID /\ machine.lastRunID \in Nat
      BY <1>1, <3>1 DEF LedgerInv, MachineTypeOK
    <3> QED BY <2>1, <3>2
  <2>3. CASE Accepts(machine, direction, msg) /\ msg.kind = "Run"
    <3>1. msg.ID > machine.lastRunID /\ msg.ID \in Nat
      BY <2>3, IdsAssumption, Zenon DEF Accepts, AdmitsClose, Handshake, AdmitsRun,
         AdmitsCall, AdmitsReply, AdmitsResult, Message
    <3>2. machine' = [machine EXCEPT !.state = "running", !.calls = 0,
                                     !.lastRunID = msg.ID]
      BY <2>1, <2>3 DEF ObserveMessage, Observe, Advance, ControlKinds
    <3>3. machine'.lastRunID = msg.ID
      BY <1>1, <3>2 DEF LedgerInv, MachineTypeOK
    <3> QED BY <1>1, <2>1, <3>1, <3>3 DEF LedgerInv, MachineTypeOK
  <2>4. CASE Accepts(machine, direction, msg) /\ msg.kind # "Run"
    <3>1. machine' = Advance(machine, msg) /\ msg.kind \in Kinds
      BY <2>1, <2>4 DEF ObserveMessage, Observe, Message
    <3>2. machine'.lastRunID = machine.lastRunID
      <4>1. CASE msg.kind \in {"Hello", "Configure", "Ready"}
        BY <1>1, <3>1, <4>1 DEF Advance, ControlKinds, LedgerInv, MachineTypeOK
      <4>2. CASE msg.kind = "Close"
        BY <1>1, <3>1, <4>2, Zenon DEF Advance, ControlKinds, LedgerInv, MachineTypeOK
      <4>3. CASE msg.kind = "Call"
        BY <1>1, <3>1, <4>3, Zenon DEF Advance, ControlKinds, LedgerInv, MachineTypeOK
      <4>4. CASE msg.kind = "Reply"
        BY <1>1, <3>1, <4>4 DEF Advance, ControlKinds, LedgerInv, MachineTypeOK
      <4>5. CASE msg.kind = "Result"
        BY <1>1, <3>1, <4>5 DEF Advance, ControlKinds, LedgerInv, MachineTypeOK
      <4> QED BY <2>4, <3>1, <4>1, <4>2, <4>3, <4>4, <4>5
              DEF Kinds, ControlKinds, RequestKinds
    <3> QED BY <1>1, <2>1, <3>2 DEF LedgerInv, MachineTypeOK
  <2> QED BY <2>2, <2>3, <2>4
<1> QED BY <1>1, LedgerInvariance, PTL DEF MachineSpec, TerminalAbsorbing

-----------------------------------------------------------------------------
(***************************************************************************)
(* The retained session for any number of submitters and any budgets, and  *)
(* the approval file for any processes, scripts and claims.                *)
(***************************************************************************)

\* The smaller of two numbers, as the code's min returns it.
LEMMA MinOfTwo ==
    ASSUME NEW a \in Int, NEW b \in Int
    PROVE  Min({a, b}) = IF a <= b THEN a ELSE b
<1> DEFINE m == IF a <= b THEN a ELSE b
<1>1. m \in {a, b} /\ \A y \in {a, b} : m <= y
  OBVIOUS
<1>2. \A x : x \in {a, b} /\ (\A y \in {a, b} : x <= y) => x = m
  OBVIOUS
<1> HIDE DEF m
<1>3. (CHOOSE x \in {a, b} : \A y \in {a, b} : x =< y) = m
  BY <1>1, <1>2
<1> QED BY <1>3 DEF Min, m

-----------------------------------------------------------------------------
(* The retained session.                                                    *)

Steps == {"out", "admitted", "executing", "finishing"}

RestrictedTypes ==
    /\ ended \in BOOLEAN /\ retained \in BOOLEAN /\ running \in BOOLEAN
    /\ generation \in Nat
    /\ releasing \subseteq {"hook", "close"}
    /\ submitter \in [Submitters -> [step : Steps, failed : BOOLEAN]]
    /\ remaining \in [source : Nat, output : Nat, cost : Nat, submissions : Nat]
    /\ delivered \in [output : Nat, cost : Nat]

\* Why the interpreter is there for a submission: an open session keeps it,
\* a release is only on its way once the session ended, and the submission
\* inside, the only one, is what `running' stands for.  What was delivered
\* and what remains is the whole budget.
RestrictedInv ==
    /\ RestrictedTypes
    /\ ~ended => retained /\ releasing = {}
    /\ \A c \in Submitters : submitter[c].step # "out" => running /\ retained
    /\ \A c, d \in Submitters :
          submitter[c].step # "out" /\ submitter[d].step # "out" => c = d
    /\ ended /\ releasing = {} /\ ~running => ~retained
    /\ delivered.output + remaining.output = SessionOutput
    /\ delivered.cost + remaining.cost = SessionCost

LEMMA BudgetsAreNat ==
    /\ MaxSourceBytes \in Nat /\ MaxOutputBytes \in Nat /\ SubmissionCost \in Nat
    /\ SessionSource \in Nat /\ SessionOutput \in Nat /\ SessionCost \in Nat
    /\ MaxSubmissions \in Nat
    /\ \A size \in SourceSizes : size \in Nat
  BY SessionBounds

LEMMA InitRestrictedInv == RestrictedInit => RestrictedInv
<1> SUFFICES ASSUME RestrictedInit PROVE RestrictedInv
  OBVIOUS
<1>1. RestrictedTypes
  BY BudgetsAreNat, Zenon DEF RestrictedInit, RestrictedTypes, Steps
<1>2. \A c \in Submitters : submitter[c].step = "out"
  BY DEF RestrictedInit
<1>3. /\ delivered.output + remaining.output = SessionOutput
      /\ delivered.cost + remaining.cost = SessionCost
  BY BudgetsAreNat DEF RestrictedInit
<1> QED BY <1>1, <1>2, <1>3 DEF RestrictedInit, RestrictedInv

\* A submitter that moves leaves the others where they are.
LEMMA OneMoves ==
    ASSUME RestrictedTypes, NEW c \in Submitters, NEW step \in Steps, NEW failed \in BOOLEAN,
           Moves(c, step, failed)
    PROVE  /\ submitter' \in [Submitters -> [step : Steps, failed : BOOLEAN]]
           /\ submitter'[c].step = step
           /\ \A d \in Submitters \ {c} : submitter'[d] = submitter[d]
  BY DEF RestrictedTypes, Moves

LEMMA AdmitKeeps ==
    ASSUME RestrictedInv, NEW c \in Submitters, NEW size \in SourceSizes, AdmitSubmission(c, size)
    PROVE  RestrictedInv'
<1> USE BudgetsAreNat DEF RestrictedInv, Steps
<1>1. ~ended /\ ~running /\ retained /\ releasing = {} /\ retained' = retained
      /\ delivered' = delivered
  BY DEF AdmitSubmission, RestrictedTypes
<1>2. CASE /\ Cancelled
           /\ UNCHANGED <<running, generation, armed, remaining, submitter>>
  BY <1>1, <1>2 DEF Cancelled, RestrictedTypes
<1>3. CASE /\ ~(\/ size > MaxSourceBytes \/ size > remaining.source
                \/ remaining.submissions = 0 \/ remaining.cost <= 0)
           /\ running' = TRUE
           /\ generation' = generation + 1
           /\ remaining' = [remaining EXCEPT !.source = @ - size, !.submissions = @ - 1]
           /\ Moves(c, "admitted", FALSE)
           /\ UNCHANGED <<ended, releasing>>
  <2>1. /\ submitter' \in [Submitters -> [step : Steps, failed : BOOLEAN]]
        /\ \A d \in Submitters \ {c} : submitter'[d] = submitter[d]
    BY <1>3, OneMoves, Zenon
  <2>2. remaining' \in [source : Nat, output : Nat, cost : Nat, submissions : Nat]
        /\ remaining'.output = remaining.output /\ remaining'.cost = remaining.cost
    <3>1. size \in Nat /\ size <= remaining.source /\ remaining.submissions # 0
          /\ remaining.source \in Nat /\ remaining.submissions \in Nat
      BY <1>3 DEF RestrictedTypes
    <3>2. /\ remaining.source - size \in Nat /\ remaining.submissions - 1 \in Nat
          /\ remaining \in [source : Nat, output : Nat, cost : Nat, submissions : Nat]
      BY <3>1 DEF RestrictedTypes
    <3> QED BY <1>3, <3>2, Zenon
  <2> QED BY <1>1, <1>3, <2>1, <2>2 DEF RestrictedTypes
<1> QED BY <1>2, <1>3, Zenon DEF AdmitSubmission

LEMMA PrepareKeeps ==
    ASSUME RestrictedInv, NEW c \in Submitters, Prepare(c)
    PROVE  RestrictedInv'
<1>1. /\ submitter' \in [Submitters -> [step : Steps, failed : BOOLEAN]]
      /\ \A d \in Submitters \ {c} : submitter'[d] = submitter[d]
  BY OneMoves, Zenon DEF Prepare, RestrictedInv, Steps
<1> QED BY <1>1 DEF Prepare, RestrictedInv, RestrictedTypes

LEMMA ExecuteKeeps ==
    ASSUME RestrictedInv, NEW c \in Submitters, NEW written \in 0..MaxOutputBytes + 1,
           NEW cost \in 0..SubmissionCost, NEW fails \in BOOLEAN,
           ExecuteSubmission(c, written, cost, fails)
    PROVE  RestrictedInv'
<1> USE BudgetsAreNat
<1> DEFINE room == Min({MaxOutputBytes, remaining.output})
           kept == Min({written, room})
<1>1. room \in Nat /\ room <= remaining.output
  BY MinOfTwo DEF RestrictedInv, RestrictedTypes
<1>2. kept \in Nat /\ kept <= remaining.output
  <2> HIDE DEF room
  <2> QED BY <1>1, MinOfTwo DEF RestrictedInv, RestrictedTypes
<1>3. cost <= remaining.cost /\ Min({remaining.cost, cost}) = cost
  <2>1. cost <= Min({SubmissionCost, remaining.cost})
    BY DEF ExecuteSubmission
  <2> QED BY <2>1, MinOfTwo DEF RestrictedInv, RestrictedTypes
<1>4. /\ remaining' = [remaining EXCEPT !.output = @ - kept, !.cost = @ - cost]
      /\ delivered' = [output |-> delivered.output + kept, cost |-> delivered.cost + cost]
      /\ UNCHANGED <<ended, retained, running, generation, armed, fired, releasing>>
      /\ submitter[c].step = "executing"
  BY <1>3, Zenon DEF ExecuteSubmission
<1>5. /\ submitter' \in [Submitters -> [step : Steps, failed : BOOLEAN]]
      /\ \A d \in Submitters \ {c} : submitter'[d] = submitter[d]
  <2>1. (fails \/ written > room) \in BOOLEAN
    OBVIOUS
  <2>2. Moves(c, "finishing", fails \/ written > room)
    BY DEF ExecuteSubmission
  <2> HIDE DEF room
  <2> QED BY <2>1, <2>2, OneMoves, Zenon DEF RestrictedInv, Steps
<1> HIDE DEF room, kept
<1>6. /\ remaining' \in [source : Nat, output : Nat, cost : Nat, submissions : Nat]
      /\ delivered' \in [output : Nat, cost : Nat]
      /\ delivered'.output + remaining'.output = SessionOutput
      /\ delivered'.cost + remaining'.cost = SessionCost
  <2>1. /\ remaining \in [source : Nat, output : Nat, cost : Nat, submissions : Nat]
        /\ delivered \in [output : Nat, cost : Nat]
        /\ delivered.output + remaining.output = SessionOutput
        /\ delivered.cost + remaining.cost = SessionCost
        /\ cost \in Nat
    BY DEF RestrictedInv, RestrictedTypes
  <2>2. remaining.output - kept \in Nat /\ remaining.cost - cost \in Nat
    BY <1>2, <1>3, <2>1
  <2>3. remaining'.output = remaining.output - kept /\ remaining'.cost = remaining.cost - cost
    BY <1>4, <2>1
  <2>4. delivered'.output = delivered.output + kept /\ delivered'.cost = delivered.cost + cost
    BY <1>4
  <2>5. /\ remaining' \in [source : Nat, output : Nat, cost : Nat, submissions : Nat]
        /\ delivered' \in [output : Nat, cost : Nat]
    <3>1. remaining' \in [source : Nat, output : Nat, cost : Nat, submissions : Nat]
      BY <1>4, <2>1, <2>2, Zenon
    <3>2. delivered.output + kept \in Nat /\ delivered.cost + cost \in Nat
      BY <1>2, <2>1
    <3> QED BY <1>4, <3>1, <3>2
  <2>6. delivered.output \in Nat /\ delivered.cost \in Nat
        /\ remaining.output \in Nat /\ remaining.cost \in Nat
    BY <2>1
  <2> QED BY <1>2, <2>1, <2>3, <2>4, <2>5, <2>6
<1> QED BY <1>4, <1>5, <1>6 DEF RestrictedInv, RestrictedTypes

LEMMA FinishKeeps ==
    ASSUME RestrictedInv, NEW c \in Submitters, Finish(c)
    PROVE  RestrictedInv'
<1>1. /\ submitter' \in [Submitters -> [step : Steps, failed : BOOLEAN]]
      /\ submitter'[c].step = "out"
      /\ \A d \in Submitters \ {c} : submitter'[d] = submitter[d]
  BY OneMoves, Zenon DEF Finish, RestrictedInv, Steps
<1>2. \A d \in Submitters : submitter'[d].step = "out"
  BY <1>1 DEF Finish, RestrictedInv
<1>3. running' = FALSE /\ UNCHANGED <<remaining, delivered>>
  BY DEF Finish
<1>4. CASE Cancelled /\ retained' = FALSE /\ UNCHANGED <<generation, armed>>
  BY <1>1, <1>2, <1>3, <1>4, Zenon DEF Cancelled, RestrictedInv, RestrictedTypes
<1>5. CASE /\ ~ended /\ generation' = generation + 1
           /\ UNCHANGED <<ended, releasing, retained>>
  <2>1. ~ended' /\ retained' /\ releasing' = {}
    BY <1>5 DEF RestrictedInv
  <2>2. RestrictedTypes'
    <3>1. generation' \in Nat
      BY <1>5 DEF RestrictedInv, RestrictedTypes
    <3>2. ended' \in BOOLEAN /\ retained' \in BOOLEAN
      BY <1>5 DEF RestrictedInv, RestrictedTypes
    <3> QED BY <1>1, <1>3, <2>1, <3>1, <3>2, Zenon DEF RestrictedInv, RestrictedTypes
  <2> QED BY <1>2, <1>3, <2>1, <2>2 DEF RestrictedInv
<1> QED BY <1>4, <1>5, Zenon DEF Finish

LEMMA EndingsKeep ==
    ASSUME RestrictedInv,
           \/ \E g \in 1..generation : TimerFires(g) \/ IdleExpires(g)
           \/ LifetimeEnds \/ CloseSession
           \/ \E by \in {"hook", "close"} : ReleaseClosed(by)
    PROVE  RestrictedInv'
<1>1. ASSUME NEW g \in 1..generation, TimerFires(g) PROVE RestrictedInv'
  BY <1>1 DEF TimerFires, RestrictedInv, RestrictedTypes
<1>2. ASSUME NEW g \in 1..generation, IdleExpires(g) PROVE RestrictedInv'
  <2>1. UNCHANGED <<running, generation, armed, remaining, delivered, submitter>>
    BY <1>2 DEF IdleExpires
  <2>2. CASE UNCHANGED <<ended, releasing, retained>>
    BY <2>1, <2>2 DEF RestrictedInv, RestrictedTypes
  <2>3. CASE ~running /\ ~ended /\ Cancelled /\ retained' = FALSE
    BY <2>1, <2>3, Zenon DEF Cancelled, RestrictedInv, RestrictedTypes
  <2> QED BY <1>2, <2>2, <2>3, Zenon DEF IdleExpires
<1>3. CASE LifetimeEnds
  BY <1>3 DEF LifetimeEnds, Cancelled, RestrictedInv, RestrictedTypes
<1>4. CASE CloseSession
  BY <1>4 DEF CloseSession, RestrictedInv, RestrictedTypes
<1>5. ASSUME NEW by \in {"hook", "close"}, ReleaseClosed(by) PROVE RestrictedInv'
  <2>1. UNCHANGED <<ended, running, generation, fired, remaining, delivered, submitter>>
        /\ ended /\ releasing' \subseteq releasing
    BY <1>5 DEF ReleaseClosed, RestrictedInv, RestrictedTypes
  <2>2. CASE running
    <3>1. retained' = retained
      BY <1>5, <2>2 DEF ReleaseClosed, RestrictedInv, RestrictedTypes
    <3> QED BY <2>1, <2>2, <3>1 DEF RestrictedInv, RestrictedTypes
  <2>3. CASE ~running
    <3>1. retained' = FALSE
      BY <1>5, <2>3 DEF ReleaseClosed, RestrictedInv, RestrictedTypes
    <3> QED BY <2>1, <2>3, <3>1, Zenon DEF RestrictedInv, RestrictedTypes
  <2> QED BY <2>2, <2>3
<1> QED BY <1>1, <1>2, <1>3, <1>4, <1>5

THEOREM RestrictedInvariance == RestrictedSpec => []RestrictedInv
<1>1. RestrictedInv /\ [RestrictedNext]_sessionVars => RestrictedInv'
  <2> SUFFICES ASSUME RestrictedInv, [RestrictedNext]_sessionVars PROVE RestrictedInv'
    OBVIOUS
  <2>1. CASE UNCHANGED sessionVars
    BY <2>1 DEF sessionVars, RestrictedInv, RestrictedTypes
  <2>2. CASE RestrictedNext
    BY <2>2, AdmitKeeps, PrepareKeeps, ExecuteKeeps, FinishKeeps, EndingsKeep
       DEF RestrictedNext
  <2> QED BY <2>1, <2>2
<1> QED BY InitRestrictedInv, <1>1, PTL DEF RestrictedSpec

\* For any number of callers, whatever Close, the lifetime, the AfterFunc and
\* late idle timers do between admit and finish, a submission inside has its
\* interpreter, an ended session drops it, and all submissions together stay
\* in the cumulative budgets (restricted_session.go).
THEOREM SessionIsHeld == RestrictedSpec => []SessionHeld
<1>1. RestrictedInv => StateHeldWhileUsed
  BY DEF RestrictedInv, StateHeldWhileUsed
<1>2. RestrictedInv => Cardinality({c \in Submitters : submitter[c].step # "out"}) <= 1
  <2> SUFFICES ASSUME RestrictedInv
               PROVE  Cardinality({c \in Submitters : submitter[c].step # "out"}) <= 1
    OBVIOUS
  <2>1. CASE {c \in Submitters : submitter[c].step # "out"} = {}
    BY <2>1, FS_EmptySet
  <2>2. CASE \E c \in Submitters : {d \in Submitters : submitter[d].step # "out"} = {c}
    <3>1. PICK c \in Submitters : {d \in Submitters : submitter[d].step # "out"} = {c}
      BY <2>2
    <3>2. Cardinality({c}) = 1
      BY FS_Singleton
    <3> QED BY <3>1, <3>2
  <2> QED BY <2>1, <2>2 DEF RestrictedInv
<1>3. RestrictedInv => SessionBudgetsHeld
  BY <1>2, BudgetsAreNat DEF RestrictedInv, RestrictedTypes, SessionBudgetsHeld
<1>4. RestrictedInv => SessionHeld
  BY <1>1, <1>3 DEF SessionHeld
<1> QED BY <1>4, RestrictedInvariance, PTL

-----------------------------------------------------------------------------
(* The approval file.                                                       *)

Files == [script : Scripts \cup {"none"}, claims : SUBSET Claims,
          schema : {0, OlderSchema, CurrentSchema}, stamp : Nat]

Stores == [script : Scripts \cup {"none"}, claims : SUBSET Claims, dirty : BOOLEAN,
           revision : Files]

Saving == {"guarded", "checked", "renamed", "closing"}

ApprovalTypes ==
    /\ file \in Files /\ synced \in Files /\ stamps \in Nat
    /\ runner \in [Runners -> [step : {"out", "running"} \cup Saving, store : Stores,
                               approved : SUBSET Claims]]

\* What a run that saves relies on: the guard is its own; the file it compared
\* is still there, or was removed; and its claims are what the file it loaded
\* approves for its script and what its operator added.
Saves(r) ==
    /\ runner[r].step \in Saving => guard = r
    /\ runner[r].step = "checked" => file = NoFile \/ RevisionHeld(r)
    /\ runner[r].store.claims =
          Approves(runner[r].store.revision, runner[r].store.script) \cup runner[r].approved

ApprovalInv == ApprovalTypes /\ \A r \in Runners : Saves(r)

\* A step of r that leaves the file alone, and the guard of the others.
LEMMA RunnerStep ==
    ASSUME ApprovalInv, NEW r \in Runners,
           NEW state \in [step : {"out", "running"} \cup Saving, store : Stores,
                          approved : SUBSET Claims],
           runner' = [runner EXCEPT ![r] = state],
           file' = file, synced' \in Files, stamps' = stamps,
           \A other \in Runners \ {r} : guard = other => guard' = other,
           Saves(r)'
    PROVE  ApprovalInv'
<1>1. ApprovalTypes'
  BY DEF ApprovalInv, ApprovalTypes
<1>2. \A other \in Runners \ {r} : runner'[other] = runner[other]
  BY DEF ApprovalInv, ApprovalTypes
<1>3. ASSUME NEW other \in Runners \ {r} PROVE Saves(other)'
  BY <1>2 DEF ApprovalInv, Saves, RevisionHeld
<1> QED BY <1>1, <1>3 DEF ApprovalInv
RunnerStates == [step : {"out", "running"} \cup Saving, store : Stores,
                 approved : SUBSET Claims]

\* Moving on to another step.
LEMMA StepState ==
    ASSUME ApprovalInv, NEW r \in Runners, NEW step \in {"out", "running"} \cup Saving,
           Proceeds(r, step)
    PROVE  /\ [runner[r] EXCEPT !.step = step] \in RunnerStates
           /\ runner' = [runner EXCEPT ![r] = [runner[r] EXCEPT !.step = step]]
           /\ runner'[r].step = step
           /\ runner'[r].store = runner[r].store /\ runner'[r].approved = runner[r].approved
  BY DEF ApprovalInv, ApprovalTypes, Proceeds, RunnerStates

LEMMA NewRunners == NoFile \in Files /\ NewStore \in Stores /\ Idle \in RunnerStates
  BY DEF NoFile, NewStore, Idle, Files, Stores, RunnerStates, Saving, OlderSchema, CurrentSchema

LEMMA InitApprovalInv == ApprovalInit => ApprovalInv
<1> SUFFICES ASSUME ApprovalInit PROVE ApprovalInv
  OBVIOUS
<1>1. file \in Files
  BY NewRunners DEF ApprovalInit, Files
<1>2. ApprovalTypes
  BY <1>1, NewRunners DEF ApprovalInit, ApprovalTypes, RunnerStates
<1>3. \A r \in Runners : runner[r] = Idle
  BY DEF ApprovalInit
<1>4. Approves(NoFile, "none") = {}
  BY DEF Approves, NoFile, CurrentSchema
<1>5. \A r \in Runners : Saves(r)
  BY <1>3, <1>4 DEF Saves, Idle, NewStore, Saving
<1> QED BY <1>2, <1>5 DEF ApprovalInv

LEMMA StartRunKeeps ==
    ASSUME ApprovalInv, NEW r \in Runners, NEW script \in Scripts, StartRun(r, script)
    PROVE  ApprovalInv'
<1> DEFINE state == [step |-> "running", store |-> Bound(Loaded, script), approved |-> {}]
<1>1. /\ Bound(Loaded, script) \in Stores
      /\ Bound(Loaded, script).revision = file
      /\ Bound(Loaded, script).script = script
      /\ Bound(Loaded, script).claims = Approves(file, script)
  <2>1. file \in Files
    BY DEF ApprovalInv, ApprovalTypes
  <2>2. Loaded \in Stores /\ Loaded.revision = file /\ Loaded.script = file.script
        /\ Loaded.claims = IF file.schema = CurrentSchema THEN file.claims ELSE {}
    BY <2>1 DEF Loaded, Stores, Files
  <2>3. CASE file.script = script
    BY <2>2, <2>3 DEF Bound, Approves
  <2>4. CASE file.script # script
    BY <2>2, <2>4, ZenonT(30) DEF Bound, Approves, Stores
  <2> QED BY <2>3, <2>4
<1>2. state \in RunnerStates
  BY <1>1 DEF RunnerStates
<1>3. runner' = [runner EXCEPT ![r] = state] /\ UNCHANGED <<file, synced, guard, stamps>>
  BY DEF StartRun
<1>4. runner'[r] = state
  BY <1>3 DEF ApprovalInv, ApprovalTypes
<1>5. Saves(r)'
  BY <1>1, <1>3, <1>4 DEF Saves, Saving
<1>6. synced' \in Files
  BY <1>3 DEF ApprovalInv, ApprovalTypes
<1> HIDE DEF state
<1> QED BY <1>2, <1>3, <1>5, <1>6, RunnerStep, Zenon DEF RunnerStates

LEMMA ConsultKeeps ==
    ASSUME ApprovalInv, NEW r \in Runners, NEW claim \in Claims, Consult(r, claim)
    PROVE  ApprovalInv'
<1> DEFINE store == Approved(runner[r].store, claim)
           state == [runner[r] EXCEPT !.store = store, !.approved = @ \cup {claim}]
<1>1. runner[r] \in RunnerStates /\ runner[r].step = "running"
      /\ runner \in [Runners -> RunnerStates]
  BY DEF Consult, ApprovalInv, ApprovalTypes, RunnerStates
<1>2. /\ store \in Stores
      /\ store.revision = runner[r].store.revision /\ store.script = runner[r].store.script
      /\ store.claims = runner[r].store.claims \cup {claim}
  BY <1>1, Zenon DEF RunnerStates, Stores, Approved
<1>3. /\ state \in RunnerStates /\ state.step = "running" /\ state.store = store
      /\ state.approved = runner[r].approved \cup {claim}
  <2> HIDE DEF store
  <2> QED BY <1>1, <1>2, Zenon DEF RunnerStates
<1>4. runner' = [runner EXCEPT ![r] = state] /\ UNCHANGED <<file, synced, guard, stamps>>
  <2>1. runner' = [runner EXCEPT ![r].store = store, ![r].approved = @ \cup {claim}]
    BY DEF Consult
  <2> HIDE DEF store
  <2> QED BY <1>1, <2>1, Zenon DEF Consult, RunnerStates
<1> HIDE DEF state, store
<1>5. runner'[r] = state
  BY <1>1, <1>4
<1>6. /\ runner'[r].step = "running"
      /\ runner'[r].store.revision = runner[r].store.revision
      /\ runner'[r].store.script = runner[r].store.script
      /\ runner'[r].store.claims = runner[r].store.claims \cup {claim}
      /\ runner'[r].approved = runner[r].approved \cup {claim}
  BY <1>2, <1>3, <1>5
<1>7. Saves(r)'
  BY <1>6 DEF Saves, Saving, ApprovalInv
<1>8. synced' \in Files
  BY <1>4 DEF ApprovalInv, ApprovalTypes
<1> QED BY <1>3, <1>4, <1>7, <1>8, RunnerStep, Zenon DEF RunnerStates

\* The steps of Save that leave the file as it is.
LEMMA SaveKeeps ==
    ASSUME ApprovalInv, NEW r \in Runners,
           BeginSave(r) \/ CheckRevision(r) \/ SyncDirectory(r)
    PROVE  ApprovalInv'
<1>1. ASSUME NEW step \in {"out", "running"} \cup Saving, Proceeds(r, step),
             file' = file, synced' \in {file, synced}, stamps' = stamps,
             guard' = guard \/ (guard = "free" /\ guard' = r),
             step \in Saving => guard' = r,
             step = "checked" => RevisionHeld(r)
      PROVE  ApprovalInv'
  <2>1. Saves(r)'
    BY <1>1, StepState, Zenon DEF Saves, RevisionHeld, ApprovalInv
  <2>2. \A other \in Runners \ {r} : guard = other => guard' = other
    BY <1>1, ApprovalBounds
  <2>3. synced' \in Files
    BY <1>1 DEF ApprovalInv, ApprovalTypes
  <2> DEFINE state == [runner[r] EXCEPT !.step = step]
  <2>4. state \in RunnerStates /\ runner' = [runner EXCEPT ![r] = state]
    BY <1>1, StepState
  <2> HIDE DEF state
  <2> QED BY <1>1, <2>1, <2>2, <2>3, <2>4, RunnerStep, ZenonT(30) DEF RunnerStates
<1> USE DEF Saving
<1>2. runner[r].step \in Saving => guard = r
  BY DEF ApprovalInv, Saves
<1>3. CASE BeginSave(r)
  BY <1>1, <1>3 DEF BeginSave
<1>4. CASE CheckRevision(r)
  BY <1>1, <1>2, <1>4 DEF CheckRevision
<1>5. CASE SyncDirectory(r)
  BY <1>1, <1>2, <1>5 DEF SyncDirectory
<1> QED BY <1>3, <1>4, <1>5
LEMMA RenameKeeps ==
    ASSUME ApprovalInv, NEW r \in Runners, Rename(r)
    PROVE  ApprovalInv'
<1>1. guard = r /\ guard' = guard /\ synced' = synced
  BY DEF Rename, ApprovalInv, Saves, Saving
<1>2. PICK step \in {"renamed", "closing"} : Proceeds(r, step)
  BY DEF Rename
<1>3. step \in Saving
  BY DEF Saving
<1>4. file' \in Files /\ stamps' \in Nat
  BY DEF Rename, ApprovalInv, ApprovalTypes, Files, Stores
<1>5. /\ [runner[r] EXCEPT !.step = step] \in RunnerStates
      /\ runner' = [runner EXCEPT ![r] = [runner[r] EXCEPT !.step = step]]
      /\ runner'[r].step = step
      /\ runner'[r].store = runner[r].store /\ runner'[r].approved = runner[r].approved
  BY <1>2, <1>3, StepState
<1>6. ApprovalTypes'
  BY <1>1, <1>4, <1>5 DEF ApprovalInv, ApprovalTypes, RunnerStates
<1>7. Saves(r)'
  BY <1>1, <1>5 DEF ApprovalInv, Saves
<1>8. ASSUME NEW other \in Runners \ {r} PROVE Saves(other)'
  <2>1. runner'[other] = runner[other]
    BY <1>5 DEF ApprovalInv, ApprovalTypes
  <2>2. runner[other].step \notin Saving
    BY <1>1 DEF ApprovalInv, Saves
  <2> QED BY <2>1, <2>2 DEF ApprovalInv, Saves, Saving
<1> QED BY <1>6, <1>7, <1>8 DEF ApprovalInv

\* A state in which r idles.
LEMMA IdleSaves ==
    ASSUME NEW r \in Runners, runner'[r] = Idle
    PROVE  Saves(r)'
<1>1. Approves(NoFile, "none") = {}
  BY DEF Approves, NoFile, CurrentSchema
<1> QED BY <1>1 DEF Saves, Idle, NewStore, Saving

LEMMA StopsKeep ==
    ASSUME ApprovalInv,
           \/ \E r \in Runners : CloseGuard(r) \/ RunnerDies(r)
           \/ MachineStops \/ RemoveFile
    PROVE  ApprovalInv'
<1>1. ASSUME NEW r \in Runners, CloseGuard(r) \/ RunnerDies(r) PROVE ApprovalInv'
  <2>1. runner' = [runner EXCEPT ![r] = Idle] /\ UNCHANGED <<file, synced, stamps>>
    BY <1>1 DEF CloseGuard, RunnerDies
  <2>2. runner'[r] = Idle
    BY <2>1 DEF ApprovalInv, ApprovalTypes
  <2>3. \A other \in Runners \ {r} : guard = other => guard' = other
    BY <1>1 DEF CloseGuard, RunnerDies, ApprovalInv, Saves, Saving
  <2>4. synced' \in Files
    BY <2>1 DEF ApprovalInv, ApprovalTypes
  <2>5. Saves(r)'
    BY <2>2, IdleSaves
  <2> QED BY <2>1, <2>3, <2>4, <2>5, NewRunners, RunnerStep, ZenonT(30) DEF RunnerStates
<1>2. CASE MachineStops
  <2>1. file' \in Files /\ synced' \in Files /\ stamps' \in Nat
    BY <1>2 DEF MachineStops, ApprovalInv, ApprovalTypes
  <2>2. runner' = [r \in Runners |-> Idle]
    BY <1>2 DEF MachineStops
  <2>3. ApprovalTypes'
    BY <2>1, <2>2, NewRunners DEF ApprovalTypes, RunnerStates
  <2>4. \A r \in Runners : Saves(r)'
    BY <2>2, IdleSaves
  <2> QED BY <2>3, <2>4 DEF ApprovalInv
<1>3. CASE RemoveFile
  BY <1>3, NewRunners DEF RemoveFile, ApprovalInv, ApprovalTypes, Saves
<1> QED BY <1>1, <1>2, <1>3

THEOREM ApprovalInvariance == ApprovalSpec => []ApprovalInv
<1>1. ApprovalInv /\ [ApprovalNext]_approvalVars => ApprovalInv'
  <2> SUFFICES ASSUME ApprovalInv, [ApprovalNext]_approvalVars PROVE ApprovalInv'
    OBVIOUS
  <2>1. CASE UNCHANGED approvalVars
    BY <2>1 DEF approvalVars, ApprovalInv, ApprovalTypes, Saves, RevisionHeld
  <2>2. CASE ApprovalNext
    BY <2>2, StartRunKeeps, ConsultKeeps, SaveKeeps, RenameKeeps, StopsKeep DEF ApprovalNext
  <2> QED BY <2>1, <2>2
<1> QED BY InitApprovalInv, <1>1, PTL DEF ApprovalSpec

\* For any processes, scripts and claims, and whatever crashes and removals
\* happen: a publication never overwrites another run's approvals or brings
\* back withdrawn ones, apart from a file removed between the comparison and
\* the rename (checkApprovalRevision, publishApprovalFile).
THEOREM PublishAlwaysMerges == ApprovalSpec => PublishMerges
<1> DEFINE Merges ==
      \A r \in Runners :
          runner[r].step = "checked" /\ runner'[r].step = "renamed" =>
             \/ file'.claims = Approves(file, file'.script) \cup runner[r].approved
             \/ file = NoFile /\ runner[r].store.revision # NoFile
<1>1. ApprovalInv /\ [ApprovalNext]_approvalVars => [Merges]_approvalVars
  <2> SUFFICES ASSUME ApprovalInv, ApprovalNext, NEW r \in Runners,
                      runner[r].step = "checked", runner'[r].step = "renamed"
               PROVE  \/ file'.claims = Approves(file, file'.script) \cup runner[r].approved
                      \/ file = NoFile /\ runner[r].store.revision # NoFile
    OBVIOUS
  <2>1. Rename(r)
    <3>1. runner'[r] # Idle
      BY DEF Idle
    <3>2. runner \in [Runners -> RunnerStates]
      BY DEF ApprovalInv, ApprovalTypes, RunnerStates
    <3>3. ~MachineStops /\ ~RemoveFile
      BY <3>1 DEF MachineStops, RemoveFile
    <3>4. \A q \in Runners : ~CloseGuard(q) /\ ~RunnerDies(q)
      BY <3>1, <3>2 DEF CloseGuard, RunnerDies
    <3>5. \A q \in Runners : /\ \A script \in Scripts : ~StartRun(q, script)
                            /\ \A claim \in Claims : ~Consult(q, claim)
      BY <3>2 DEF StartRun, Consult
    <3>6. \A q \in Runners : ~BeginSave(q) /\ ~CheckRevision(q) /\ ~SyncDirectory(q)
      BY <3>2 DEF BeginSave, CheckRevision, SyncDirectory, Proceeds
    <3>7. \A q \in Runners \ {r} : ~Rename(q)
      BY <3>2 DEF Rename, Proceeds
    <3> QED BY <3>3, <3>4, <3>5, <3>6, <3>7 DEF ApprovalNext
  <2>2. /\ file'.script = runner[r].store.script /\ file'.claims = runner[r].store.claims
    <3>1. ~Proceeds(r, "closing")
      BY DEF Proceeds, ApprovalInv, ApprovalTypes
    <3> QED BY <2>1, <3>1 DEF Rename
  <2>3. Saves(r)
    BY DEF ApprovalInv
  <2> QED BY <2>2, <2>3 DEF Saves, RevisionHeld
<1>2. ApprovalSpec => [][Merges]_approvalVars
  BY <1>1, ApprovalInvariance, PTL DEF ApprovalSpec
<1> QED BY <1>2 DEF PublishMerges
=============================================================================
