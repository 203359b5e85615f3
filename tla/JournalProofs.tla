---------------------------- MODULE JournalProofs ----------------------------
(***************************************************************************)
(* Journalled writes for any number of paths, calls, faults and crashes.   *)
(* A staging name exists only after its record (WriteAhead), because the   *)
(* acknowledgement that lets the broker link is sent only for a record     *)
(* already in the journal, and the operation number cannot move on while   *)
(* it is under way.  CleanupComplete and RecoveryAdmitted follow from it   *)
(* once the order of a close is known: no broker and no Execute is left    *)
(* when the journal is read, so nothing is added to it afterwards.  A      *)
(* second invariant, PublishInv, follows the file of an operation from its *)
(* staging name to its target: what a success reports was published.       *)
(***************************************************************************)
EXTENDS JournalledWrite, FiniteSetTheorems, TLAPS

Busy == {"await", "append", "linked", "ack", "acked", "settle"}

\* A staging name holds its own operation's file or another program's.
StagingOwn == \A op \in Ops : stage[op] \in {NoFile, Foreign, op}

\* An acknowledged operation has its record.
Saved == client.pc \in {"linked", "ack", "acked"} \/ toBroker = "reply" => calls \in journal

\* What is under way is an admitted call, and nothing else is outstanding.
InFlight == /\ client.pc \in Busy \/ broker \in {"linked", "unlink"} => calls \in Ops
            /\ client.pc \in {"idle", "entered"} => outstanding = 0

\* Records are of admitted calls, and the host's list is in the directory.
Accounted == journal \subseteq 1..calls /\ accepted \subseteq journal

\* The order of a close.
Quiet == /\ owner.pc \in {"reaped", "recovering", "complete"}
              => broker = "dead" /\ client.pc \in {"idle", "gone"}
         /\ owner.who = "launch" /\ owner.pc # "dead" => client.pc # "gone"
         /\ owner.who = "launch" /\ owner.pc \notin {"open", "dead"} => budgetClosed

\* What the recovery broker has been through is clean.
Cleaned == /\ owner.pc = "recovering" /\ cleaner.pc = "running"
                => \A op \in journal \ cleaner.todo : stage[op] # op
           /\ CleanupComplete

JournalInv == TypeOK /\ StagingOwn /\ WriteAhead /\ Saved /\ InFlight /\ Accounted /\ Quiet /\ Cleaned
\* The initial states satisfy the invariant.
LEMMA InitJournalInv == Init => JournalInv
<1> SUFFICES ASSUME Init PROVE JournalInv
  OBVIOUS
<1> USE WriteAssumption DEF Init, Ops, NoFile, Foreign
<1>1. (CHOOSE p \in Paths : TRUE) \in Paths
  BY WriteAssumption
<1>2. HostTypeOK
  <2>1. call \in [kind : {"read", "write"}, path : Paths]
    BY <1>1, Zenon
  <2>2. client \in [pc : {"idle"}, closed : BOOLEAN] /\ calls \in 0..MaxCalls
        /\ reply \in [Ops -> {"none", "ok", "error"}]
    OBVIOUS
  <2> QED BY <2>1, <2>2, Zenon DEF HostTypeOK
<1>3. BrokerTypeOK /\ OwnerTypeOK
  BY DEF BrokerTypeOK, OwnerTypeOK
<1>4. DiskTypeOK
  BY DEF DiskTypeOK, Files
<1>5. StagingOwn /\ WriteAhead
  BY DEF StagingOwn, WriteAhead
<1>6. Saved /\ InFlight /\ Accounted
  BY DEF Saved, InFlight, Accounted, Busy
<1>7. Quiet /\ Cleaned
  BY DEF Quiet, Cleaned, CleanupComplete
<1> QED BY <1>2, <1>3, <1>4, <1>5, <1>6, <1>7 DEF JournalInv, TypeOK

\* The bounds of the environment keep their types.
LEMMA BoundsKeep ==
    ASSUME OwnerTypeOK, Fault \/ NoFault, owner' = owner, cleaner' = cleaner
    PROVE  OwnerTypeOK'
BY WriteAssumption DEF OwnerTypeOK, Fault, NoFault, bounds

\* An Execute that fails leaves the broker, the disk and the owner alone.
LEMMA FailedKeeps ==
    ASSUME JournalInv, Failed, client.pc \in Busy, OwnerTypeOK',
           toBroker' = toBroker, toHost' \in {toHost, "none"},
           UNCHANGED <<call, broker, disk, accepted, owner, cleaner>>
    PROVE  JournalInv'
<1> USE WriteAssumption DEF JournalInv, disk
<1>1. /\ client'.pc = "idle" /\ client'.closed = TRUE
      /\ client' \in [pc : {"idle"}, closed : BOOLEAN]
      /\ outstanding' = 0 /\ budgetClosed' = TRUE /\ calls' = calls /\ stream' = FALSE
  BY DEF Failed
<1>2. reply' \in [Ops -> {"none", "ok", "error"}]
  <2>1. CASE calls \in Ops /\ outstanding = 1
    BY <2>1 DEF Failed, TypeOK, HostTypeOK
  <2>2. CASE ~(calls \in Ops /\ outstanding = 1)
    BY <2>2 DEF Failed, TypeOK, HostTypeOK
  <2> QED BY <2>1, <2>2
<1>3. TypeOK'
  BY <1>1, <1>2, Zenon DEF TypeOK, HostTypeOK, BrokerTypeOK, DiskTypeOK
<1>4. StagingOwn' /\ WriteAhead'
  BY <1>1 DEF StagingOwn, WriteAhead
<1>5. Saved' /\ InFlight' /\ Accounted'
  BY <1>1 DEF Saved, InFlight, Accounted
<1>6. Quiet'
  BY <1>1 DEF Quiet
<1>7. Cleaned'
  BY <1>1 DEF Cleaned, CleanupComplete
<1> QED BY <1>3, <1>4, <1>5, <1>6, <1>7

\* An Execute that goes on to pc leaves the broker, the disk but for its own
\* record, and the owner alone.
LEMMA ProceedKeeps ==
    ASSUME JournalInv, NEW pc \in Busy, client.pc \in Busy,
           client' = [client EXCEPT !.pc = pc],
           OwnerTypeOK', BrokerTypeOK', stream' = stream, toHost' \in {toHost, "none"},
           journal' \in {journal, journal \cup {calls}}, accepted' \subseteq journal',
           pc \in {"linked", "ack", "acked"} \/ toBroker' = "reply" => calls \in journal',
           UNCHANGED <<call, budget, broker, stage, target, published, owner, cleaner, reply>>
    PROVE  JournalInv'
<1> USE WriteAssumption DEF JournalInv, budget
<1>1. client'.pc = pc /\ client'.closed = client.closed /\ calls \in Ops
  BY DEF InFlight
<1>2. HostTypeOK'
  BY <1>1 DEF TypeOK, HostTypeOK, Busy
<1>3. journal' \subseteq Ops /\ journal \subseteq journal' /\ journal' \subseteq 1..calls
  BY <1>1 DEF Accounted, Ops
<1>4. DiskTypeOK'
  BY <1>3 DEF TypeOK, DiskTypeOK
<1>5. StagingOwn' /\ WriteAhead'
  BY <1>3 DEF StagingOwn, WriteAhead
<1>6. Saved' /\ InFlight' /\ Accounted'
  BY <1>1, <1>3 DEF Saved, InFlight, Accounted, Busy
<1>7. owner.pc \notin {"reaped", "recovering", "complete"}
  BY DEF Quiet, Busy
<1>8. Quiet' /\ Cleaned'
  BY <1>1, <1>7 DEF Quiet, Cleaned, CleanupComplete, Busy
<1> QED BY <1>2, <1>4, <1>5, <1>6, <1>8 DEF TypeOK

\* The record's entry is linked, or the append fails.
LEMMA AppendRecordKeeps == ASSUME JournalInv, AppendRecord PROVE JournalInv'
<1> USE DEF JournalInv, budget, bounds, disk
<1>1. OwnerTypeOK' /\ client.pc \in Busy
  BY BoundsKeep DEF AppendRecord, TypeOK, Busy
<1>2. CASE Failed /\ UNCHANGED journal
  BY <1>1, <1>2, FailedKeeps DEF AppendRecord
<1>3. CASE /\ client' = [client EXCEPT !.pc = "linked"]
           /\ journal' = journal \cup {calls} /\ UNCHANGED <<budget, stream, reply>>
  <2>1. BrokerTypeOK' /\ accepted' \subseteq journal' /\ calls \in journal'
    BY <1>3 DEF AppendRecord, TypeOK, BrokerTypeOK, Accounted
  <2> QED BY <1>1, <1>3, <2>1, ProceedKeeps DEF AppendRecord, Busy
<1> QED BY <1>2, <1>3 DEF AppendRecord

\* The record becomes the host's own, or the sync fails.
LEMMA SyncRecordKeeps == ASSUME JournalInv, SyncRecord PROVE JournalInv'
<1> USE DEF JournalInv, budget, bounds, disk
<1>1. OwnerTypeOK' /\ client.pc \in Busy
  BY BoundsKeep DEF SyncRecord, TypeOK, Busy
<1>2. CASE Failed /\ UNCHANGED accepted
  BY <1>1, <1>2, FailedKeeps DEF SyncRecord
<1>3. CASE /\ client' = [client EXCEPT !.pc = "ack"]
           /\ accepted' = accepted \cup {calls} /\ UNCHANGED <<budget, stream, reply>>
  <2>1. BrokerTypeOK' /\ accepted' \subseteq journal' /\ calls \in journal'
    BY <1>3 DEF SyncRecord, TypeOK, BrokerTypeOK, Accounted, Saved
  <2> QED BY <1>1, <1>3, <2>1, ProceedKeeps DEF SyncRecord, Busy
<1> QED BY <1>2, <1>3 DEF SyncRecord

\* The acknowledgement is sent for a record that is in the journal.
LEMMA AcknowledgeKeeps == ASSUME JournalInv, Acknowledge PROVE JournalInv'
<1> USE DEF JournalInv, budget, bounds, disk
<1>1. OwnerTypeOK' /\ client.pc \in Busy
  BY BoundsKeep DEF Acknowledge, TypeOK, Busy, NoFault
<1>2. CASE Failed /\ UNCHANGED toBroker
  BY <1>1, <1>2, FailedKeeps DEF Acknowledge
<1>3. CASE /\ client' = [client EXCEPT !.pc = "acked"]
           /\ toBroker' = "reply" /\ UNCHANGED <<budget, stream, reply>>
  <2>1. BrokerTypeOK' /\ accepted' \subseteq journal' /\ calls \in journal'
    BY <1>3 DEF Acknowledge, TypeOK, BrokerTypeOK, Accounted, Saved
  <2> QED BY <1>1, <1>3, <2>1, ProceedKeeps DEF Acknowledge, Busy
<1> QED BY <1>2, <1>3 DEF Acknowledge

\* A result is taken or fails the operation.
LEMMA ReceiveResultKeeps == ASSUME JournalInv, ReceiveResult PROVE JournalInv'
<1> USE DEF JournalInv, budget, bounds, disk
<1>1. OwnerTypeOK' /\ client.pc \in Busy /\ BrokerTypeOK'
  <2>1. OwnerTypeOK' /\ client.pc \in Busy
    BY BoundsKeep DEF ReceiveResult, TypeOK, Busy, NoFault
  <2>2. stream' \in BOOLEAN
    BY Zenon DEF ReceiveResult, Failed
  <2> QED BY <2>1, <2>2 DEF ReceiveResult, TypeOK, BrokerTypeOK
<1>2. CASE Failed
  BY <1>1, <1>2, FailedKeeps DEF ReceiveResult
<1>3. CASE /\ client' = [client EXCEPT !.pc = "settle"]
           /\ UNCHANGED <<budget, stream, reply>>
  <2>1. /\ accepted' \subseteq journal'
        /\ toBroker' = "reply" => calls \in journal'
    BY DEF ReceiveResult, Accounted, Saved
  <2> QED BY <1>1, <1>3, <2>1, ProceedKeeps DEF ReceiveResult, Busy
<1> QED BY <1>2, <1>3, Zenon DEF ReceiveResult

\* A lost stream fails the operation.
LEMMA LostKeeps == ASSUME JournalInv, Lost PROVE JournalInv'
<1>1. OwnerTypeOK' /\ client.pc \in Busy
  BY BoundsKeep DEF Lost, JournalInv, TypeOK, Busy
<1> QED BY <1>1, FailedKeeps DEF Lost

\* A finished call is settled before the next can enter.
LEMMA SettleKeeps == ASSUME JournalInv, Settle PROVE JournalInv'
<1> USE WriteAssumption DEF JournalInv, budget, bounds, disk
<1>1. OwnerTypeOK' /\ client.pc \in Busy
  BY BoundsKeep DEF Settle, TypeOK, Busy
<1>2. CASE Failed
  BY <1>1, <1>2, FailedKeeps DEF Settle
<1>3. CASE ~Failed
  <2>1. /\ client' = [pc |-> "idle", closed |-> calls = MaxCalls]
        /\ outstanding' = 0 /\ calls' = calls /\ ~client.closed
        /\ budgetClosed' = (budgetClosed \/ calls = MaxCalls)
        /\ stream' = (stream /\ ~(calls = MaxCalls))
        /\ reply' = [reply EXCEPT ![calls] = "ok"]
    BY <1>3 DEF Settle
  <2>2. /\ client'.pc = "idle" /\ client' \in [pc : {"idle"}, closed : BOOLEAN]
        /\ budgetClosed' \in BOOLEAN /\ stream' \in BOOLEAN
        /\ budgetClosed => budgetClosed'
    BY <2>1 DEF TypeOK, HostTypeOK
  <2>3. UNCHANGED <<call, toBroker, toHost, broker, disk, accepted, owner, cleaner>>
    BY DEF Settle
  <2>4. HostTypeOK'
    BY <2>1, <2>2, <2>3, Zenon DEF TypeOK, HostTypeOK
  <2>5. BrokerTypeOK' /\ DiskTypeOK'
    BY <2>2, <2>3 DEF TypeOK, BrokerTypeOK, DiskTypeOK
  <2>6. StagingOwn' /\ WriteAhead'
    BY <2>3 DEF StagingOwn, WriteAhead
  <2>7. Saved' /\ InFlight' /\ Accounted'
    BY <1>1, <2>1, <2>2, <2>3 DEF Saved, InFlight, Accounted
  <2>8. Quiet' /\ Cleaned'
    BY <1>1, <2>2, <2>3 DEF Quiet, Cleaned, CleanupComplete
  <2> QED BY <1>1, <2>4, <2>5, <2>6, <2>7, <2>8 DEF TypeOK
<1> QED BY <1>2, <1>3

\* One record is done: its staging name no longer holds its file.
LEMMA CleanStagingKeeps == ASSUME JournalInv, CleanStaging PROVE JournalInv'
<1> USE WriteAssumption DEF JournalInv, budget, wire, disk, bounds
<1> DEFINE op == Minimum(cleaner.todo)
<1>1. UNCHANGED <<client, call, budget, wire, broker, target, journal, published, accepted, owner, reply>>
  BY DEF CleanStaging
<1>2. /\ cleaner'.pc \in {cleaner.pc, "dead"}
      /\ cleaner'.todo = cleaner.todo \/ (cleaner'.todo = cleaner.todo \ {op} /\ stage' = [stage EXCEPT ![op] = NoFile])
      /\ cleaner' \in [pc : {"none", "running", "dead"}, todo : SUBSET Ops]
      /\ stage' \in {stage, [stage EXCEPT ![op] = NoFile]}
  <2> HIDE DEF op
  <2>1. \/ cleaner' = [cleaner EXCEPT !.todo = @ \ {op}] /\ stage' = [stage EXCEPT ![op] = NoFile]
        \/ cleaner' = [cleaner EXCEPT !.pc = "dead"] /\ stage' = stage
    BY DEF CleanStaging, op
  <2> QED BY <2>1 DEF TypeOK, OwnerTypeOK
<1> HIDE DEF op
<1>3. \A o \in Ops : stage'[o] \in {stage[o], NoFile}
  BY <1>2 DEF TypeOK, DiskTypeOK
<1>4. TypeOK'
  <2>1. HostTypeOK' /\ BrokerTypeOK'
    BY <1>1 DEF TypeOK, HostTypeOK, BrokerTypeOK
  <2>2. OwnerTypeOK'
    BY <1>1, <1>2 DEF TypeOK, OwnerTypeOK, CleanStaging, Fault, NoFault
  <2>3. DiskTypeOK'
    BY <1>1, <1>2 DEF TypeOK, DiskTypeOK, Files
  <2> QED BY <2>1, <2>2, <2>3 DEF TypeOK
<1>5. StagingOwn' /\ WriteAhead'
  BY <1>1, <1>3 DEF StagingOwn, WriteAhead, NoFile, Ops
<1>6. Saved' /\ InFlight' /\ Accounted' /\ Quiet'
  BY <1>1 DEF Saved, InFlight, Accounted, Quiet
<1>7. Cleaned'
  <2>1. CASE cleaner'.todo = cleaner.todo
    BY <1>1, <1>2, <1>3, <2>1 DEF Cleaned, CleanupComplete, TypeOK, DiskTypeOK, NoFile, Ops
  <2>2. CASE cleaner'.todo = cleaner.todo \ {op} /\ stage' = [stage EXCEPT ![op] = NoFile]
    BY <1>1, <1>2, <1>3, <2>2 DEF Cleaned, CleanupComplete, TypeOK, DiskTypeOK, NoFile, Ops
  <2> QED BY <1>2, <2>1, <2>2
<1> QED BY <1>4, <1>5, <1>6, <1>7

\* Entering Execute moves the client only.
LEMMA BeginOperationKeeps == ASSUME NEW kind \in {"read", "write"}, NEW path \in Paths, JournalInv, BeginOperation(kind, path) PROVE JournalInv'
<1> USE WriteAssumption DEF JournalInv, BeginOperation, budget, wire, disk, bounds
<1>1. TypeOK'
  <2>1. HostTypeOK'
    BY DEF TypeOK, HostTypeOK
  <2>2. BrokerTypeOK'
    BY DEF TypeOK, BrokerTypeOK
  <2>3. OwnerTypeOK'
    BY DEF TypeOK, OwnerTypeOK
  <2>4. DiskTypeOK'
    BY DEF TypeOK, DiskTypeOK
  <2> QED BY <2>1, <2>2, <2>3, <2>4 DEF TypeOK
<1>2. StagingOwn' /\ WriteAhead'
  BY <1>1 DEF StagingOwn, WriteAhead
<1>3. Saved' /\ InFlight' /\ Accounted'
  BY <1>1 DEF Saved, InFlight, Accounted, Busy
<1>4. Quiet'
  BY <1>1 DEF Quiet
<1>5. Cleaned'
  BY <1>1, <1>2 DEF Cleaned, CleanupComplete
<1> QED BY <1>1, <1>2, <1>3, <1>4, <1>5

\* An admitted call takes the next number; the acknowledgements of earlier calls no longer count.
LEMMA AdmitKeeps == ASSUME JournalInv, Admit PROVE JournalInv'
<1> USE WriteAssumption DEF JournalInv, Admit, budget, wire, disk, bounds
<1>1. TypeOK'
  <2>1. HostTypeOK'
    BY DEF TypeOK, HostTypeOK, InFlight
  <2>2. BrokerTypeOK'
    BY DEF TypeOK, BrokerTypeOK
  <2>3. OwnerTypeOK'
    BY DEF TypeOK, OwnerTypeOK
  <2>4. DiskTypeOK'
    BY DEF TypeOK, DiskTypeOK
  <2> QED BY <2>1, <2>2, <2>3, <2>4 DEF TypeOK
<1>2. StagingOwn' /\ WriteAhead'
  BY <1>1 DEF StagingOwn, WriteAhead
<1>3. Saved' /\ InFlight' /\ Accounted'
  BY <1>1 DEF TypeOK, HostTypeOK, Saved, InFlight, Accounted, Busy, Ops
<1>4. Quiet'
  BY <1>1 DEF TypeOK, HostTypeOK, Quiet
<1>5. Cleaned'
  BY <1>1, <1>2 DEF Cleaned, CleanupComplete
<1> QED BY <1>1, <1>2, <1>3, <1>4, <1>5

\* Receiving the record names nothing yet.
LEMMA ReceiveRecordKeeps == ASSUME JournalInv, ReceiveRecord PROVE JournalInv'
<1> USE WriteAssumption DEF JournalInv, ReceiveRecord, budget, wire, disk, bounds
<1>1. TypeOK'
  <2>1. HostTypeOK'
    BY DEF TypeOK, HostTypeOK
  <2>2. BrokerTypeOK'
    BY DEF TypeOK, BrokerTypeOK
  <2>3. OwnerTypeOK'
    BY DEF TypeOK, OwnerTypeOK
  <2>4. DiskTypeOK'
    BY DEF TypeOK, DiskTypeOK
  <2> QED BY <2>1, <2>2, <2>3, <2>4 DEF TypeOK
<1>2. StagingOwn' /\ WriteAhead'
  BY <1>1 DEF StagingOwn, WriteAhead
<1>3. Saved' /\ InFlight' /\ Accounted'
  BY <1>1 DEF Saved, InFlight, Accounted, Busy
<1>4. Quiet'
  BY <1>1 DEF Quiet
<1>5. Cleaned'
  BY <1>1, <1>2 DEF Cleaned, CleanupComplete
<1> QED BY <1>1, <1>2, <1>3, <1>4, <1>5

\* A cancelled operation closes the budget and the stream.
LEMMA CancelKeeps == ASSUME JournalInv, Cancel PROVE JournalInv'
<1> USE WriteAssumption DEF JournalInv, Cancel, abort, budget, wire, disk, bounds
<1>1. TypeOK'
  <2>1. HostTypeOK'
    BY Zenon DEF TypeOK, HostTypeOK
  <2>2. BrokerTypeOK'
    BY Zenon DEF TypeOK, BrokerTypeOK
  <2>3. OwnerTypeOK'
    BY DEF TypeOK, OwnerTypeOK
  <2>4. DiskTypeOK'
    BY DEF TypeOK, DiskTypeOK
  <2> QED BY <2>1, <2>2, <2>3, <2>4 DEF TypeOK
<1>2. StagingOwn' /\ WriteAhead'
  BY <1>1 DEF StagingOwn, WriteAhead
<1>3. Saved' /\ InFlight' /\ Accounted'
  BY <1>1 DEF Saved, InFlight, Accounted
<1>4. Quiet'
  BY <1>1 DEF Quiet
<1>5. Cleaned'
  BY <1>1, <1>2 DEF Cleaned, CleanupComplete
<1> QED BY <1>1, <1>2, <1>3, <1>4, <1>5

\* A prepared file has no name.
LEMMA PrepareKeeps == ASSUME JournalInv, Prepare PROVE JournalInv'
<1> USE WriteAssumption DEF JournalInv, Prepare, Answer, prepareLinuxWrite, budget, wire, disk, bounds, Fault, NoFault
<1>1. TypeOK'
  <2>1. HostTypeOK'
    BY DEF TypeOK, HostTypeOK
  <2>2. BrokerTypeOK'
    BY DEF TypeOK, BrokerTypeOK
  <2>3. OwnerTypeOK'
    BY DEF TypeOK, OwnerTypeOK
  <2>4. DiskTypeOK'
    BY DEF TypeOK, DiskTypeOK
  <2> QED BY <2>1, <2>2, <2>3, <2>4 DEF TypeOK
<1>2. StagingOwn' /\ WriteAhead'
  BY <1>1 DEF StagingOwn, WriteAhead
<1>3. Saved' /\ InFlight' /\ Accounted'
  BY <1>1 DEF Saved, InFlight, Accounted
<1>4. Quiet'
  BY <1>1 DEF Quiet
<1>5. Cleaned'
  BY <1>1, <1>2 DEF Cleaned, CleanupComplete
<1> QED BY <1>1, <1>2, <1>3, <1>4, <1>5

\* The broker links only on an acknowledgement, so the record is there.
LEMMA LinkKeeps == ASSUME JournalInv, Link PROVE JournalInv'
<1> USE WriteAssumption DEF JournalInv, Link, commit, Answer, budget, wire, disk, bounds, Fault, NoFault
<1>1. TypeOK'
  <2>1. HostTypeOK'
    BY DEF TypeOK, HostTypeOK
  <2>2. BrokerTypeOK'
    BY DEF TypeOK, BrokerTypeOK
  <2>3. OwnerTypeOK'
    BY DEF TypeOK, OwnerTypeOK
  <2>4. DiskTypeOK'
    BY DEF TypeOK, DiskTypeOK, Saved, Files
  <2> QED BY <2>1, <2>2, <2>3, <2>4 DEF TypeOK
<1>2. StagingOwn' /\ WriteAhead'
  <2>1. StagingOwn'
    BY <1>1 DEF TypeOK, DiskTypeOK, StagingOwn
  <2>2. WriteAhead'
    BY <1>1 DEF TypeOK, DiskTypeOK, WriteAhead, Saved
  <2> QED BY <2>1, <2>2
<1>3. Saved' /\ InFlight' /\ Accounted'
  BY <1>1 DEF TypeOK, HostTypeOK, Saved, InFlight, Accounted, Ops
<1>4. Quiet'
  BY <1>1 DEF Quiet
<1>5. Cleaned'
  BY <1>1, <1>2 DEF Quiet, Cleaned, CleanupComplete
<1> QED BY <1>1, <1>2, <1>3, <1>4, <1>5

\* A rename moves a recorded file to its target.
LEMMA RenameKeeps == ASSUME JournalInv, Rename PROVE JournalInv'
<1> USE WriteAssumption DEF JournalInv, Rename, budget, wire, disk, bounds, Fault, NoFault
<1>1. TypeOK'
  <2>1. HostTypeOK'
    BY DEF TypeOK, HostTypeOK
  <2>2. BrokerTypeOK'
    BY DEF TypeOK, BrokerTypeOK
  <2>3. OwnerTypeOK'
    BY DEF TypeOK, OwnerTypeOK
  <2>4. DiskTypeOK'
    BY Zenon DEF TypeOK, DiskTypeOK, InFlight, Files
  <2> QED BY <2>1, <2>2, <2>3, <2>4 DEF TypeOK
<1>2. StagingOwn' /\ WriteAhead'
  <2>1. StagingOwn'
    BY <1>1 DEF TypeOK, DiskTypeOK, StagingOwn
  <2>2. WriteAhead'
    BY <1>1 DEF TypeOK, HostTypeOK, DiskTypeOK, StagingOwn, WriteAhead, Ops, NoFile, Foreign
  <2> QED BY <2>1, <2>2
<1>3. Saved' /\ InFlight' /\ Accounted'
  BY <1>1 DEF Saved, InFlight, Accounted
<1>4. Quiet'
  BY <1>1 DEF Quiet
<1>5. Cleaned'
  BY <1>1, <1>2 DEF Quiet, Cleaned, CleanupComplete
<1> QED BY <1>1, <1>2, <1>3, <1>4, <1>5

\* Undoing a failed publish only removes a name.
LEMMA UnlinkStagingKeeps == ASSUME JournalInv, UnlinkStaging PROVE JournalInv'
<1> USE WriteAssumption DEF JournalInv, UnlinkStaging, Answer, budget, wire, disk, bounds, Fault, NoFault
<1>1. TypeOK'
  <2>1. HostTypeOK'
    BY DEF TypeOK, HostTypeOK
  <2>2. BrokerTypeOK'
    BY DEF TypeOK, BrokerTypeOK
  <2>3. OwnerTypeOK'
    BY DEF TypeOK, OwnerTypeOK
  <2>4. DiskTypeOK'
    BY DEF TypeOK, DiskTypeOK, Files
  <2> QED BY <2>1, <2>2, <2>3, <2>4 DEF TypeOK
<1>2. StagingOwn' /\ WriteAhead'
  BY <1>1 DEF TypeOK, DiskTypeOK, StagingOwn, WriteAhead, Ops, NoFile
<1>3. Saved' /\ InFlight' /\ Accounted'
  BY <1>1 DEF Saved, InFlight, Accounted
<1>4. Quiet'
  BY <1>1 DEF Quiet
<1>5. Cleaned'
  BY <1>1, <1>2 DEF Quiet, Cleaned, CleanupComplete
<1> QED BY <1>1, <1>2, <1>3, <1>4, <1>5

\* The final sync changes no name.
LEMMA SyncParentKeeps == ASSUME JournalInv, SyncParent PROVE JournalInv'
<1> USE WriteAssumption DEF JournalInv, SyncParent, Answer, budget, wire, disk, bounds, Fault, NoFault
<1>1. TypeOK'
  <2>1. HostTypeOK'
    BY DEF TypeOK, HostTypeOK
  <2>2. BrokerTypeOK'
    BY DEF TypeOK, BrokerTypeOK
  <2>3. OwnerTypeOK'
    BY DEF TypeOK, OwnerTypeOK
  <2>4. DiskTypeOK'
    BY DEF TypeOK, DiskTypeOK
  <2> QED BY <2>1, <2>2, <2>3, <2>4 DEF TypeOK
<1>2. StagingOwn' /\ WriteAhead'
  BY <1>1 DEF StagingOwn, WriteAhead
<1>3. Saved' /\ InFlight' /\ Accounted'
  BY <1>1 DEF Saved, InFlight, Accounted
<1>4. Quiet'
  BY <1>1 DEF Quiet
<1>5. Cleaned'
  BY <1>1, <1>2 DEF Cleaned, CleanupComplete
<1> QED BY <1>1, <1>2, <1>3, <1>4, <1>5

\* A dead broker's unnamed file is gone with it.
LEMMA BrokerDiesKeeps == ASSUME JournalInv, BrokerDies PROVE JournalInv'
<1> USE WriteAssumption DEF JournalInv, BrokerDies, budget, wire, disk, bounds, Fault, NoFault
<1>1. TypeOK'
  <2>1. HostTypeOK'
    BY DEF TypeOK, HostTypeOK
  <2>2. BrokerTypeOK'
    BY DEF TypeOK, BrokerTypeOK
  <2>3. OwnerTypeOK'
    BY DEF TypeOK, OwnerTypeOK
  <2>4. DiskTypeOK'
    BY DEF TypeOK, DiskTypeOK
  <2> QED BY <2>1, <2>2, <2>3, <2>4 DEF TypeOK
<1>2. StagingOwn' /\ WriteAhead'
  BY <1>1 DEF StagingOwn, WriteAhead
<1>3. Saved' /\ InFlight' /\ Accounted'
  BY <1>1 DEF Saved, InFlight, Accounted
<1>4. Quiet'
  BY <1>1 DEF Quiet
<1>5. Cleaned'
  BY <1>1, <1>2 DEF Cleaned, CleanupComplete
<1> QED BY <1>1, <1>2, <1>3, <1>4, <1>5

\* Closing stops the client and closes the budget.
LEMMA CloseKeeps == ASSUME JournalInv, Close PROVE JournalInv'
<1> USE WriteAssumption DEF JournalInv, Close, abort, budget, wire, disk, bounds
<1>1. TypeOK'
  <2>1. HostTypeOK'
    BY Zenon DEF TypeOK, HostTypeOK
  <2>2. BrokerTypeOK'
    BY Zenon DEF TypeOK, BrokerTypeOK
  <2>3. OwnerTypeOK'
    BY DEF TypeOK, OwnerTypeOK
  <2>4. DiskTypeOK'
    BY DEF TypeOK, DiskTypeOK
  <2> QED BY <2>1, <2>2, <2>3, <2>4 DEF TypeOK
<1>2. StagingOwn' /\ WriteAhead'
  BY <1>1 DEF StagingOwn, WriteAhead
<1>3. Saved' /\ InFlight' /\ Accounted'
  BY <1>1 DEF Saved, InFlight, Accounted
<1>4. Quiet'
  BY <1>1 DEF Quiet
<1>5. Cleaned'
  BY <1>1, <1>2 DEF Cleaned, CleanupComplete
<1> QED BY <1>1, <1>2, <1>3, <1>4, <1>5

\* Reaping waits for the broker and for Execute.
LEMMA ReapKeeps == ASSUME JournalInv, Reap PROVE JournalInv'
<1> USE WriteAssumption DEF JournalInv, Reap, budget, wire, disk, bounds
<1>1. TypeOK'
  <2>1. HostTypeOK'
    BY DEF TypeOK, HostTypeOK
  <2>2. BrokerTypeOK'
    BY DEF TypeOK, BrokerTypeOK
  <2>3. OwnerTypeOK'
    BY DEF TypeOK, OwnerTypeOK
  <2>4. DiskTypeOK'
    BY DEF TypeOK, DiskTypeOK
  <2> QED BY <2>1, <2>2, <2>3, <2>4 DEF TypeOK
<1>2. StagingOwn' /\ WriteAhead'
  BY <1>1 DEF StagingOwn, WriteAhead
<1>3. Saved' /\ InFlight' /\ Accounted'
  BY <1>1 DEF Saved, InFlight, Accounted
<1>4. Quiet'
  BY <1>1 DEF Quiet
<1>5. Cleaned'
  BY <1>1, <1>2 DEF Cleaned, CleanupComplete
<1> QED BY <1>1, <1>2, <1>3, <1>4, <1>5

\* The recovery broker starts with every record still to do.
LEMMA RecoverKeeps == ASSUME JournalInv, Recover PROVE JournalInv'
<1> USE WriteAssumption DEF JournalInv, Recover, budget, wire, disk, bounds, Fault, NoFault
<1>1. TypeOK'
  <2>1. HostTypeOK'
    BY DEF TypeOK, HostTypeOK
  <2>2. BrokerTypeOK'
    BY DEF TypeOK, BrokerTypeOK
  <2>3. OwnerTypeOK'
    BY DEF TypeOK, OwnerTypeOK, DiskTypeOK
  <2>4. DiskTypeOK'
    BY DEF TypeOK, DiskTypeOK
  <2> QED BY <2>1, <2>2, <2>3, <2>4 DEF TypeOK
<1>2. StagingOwn' /\ WriteAhead'
  BY <1>1 DEF StagingOwn, WriteAhead
<1>3. Saved' /\ InFlight' /\ Accounted'
  BY <1>1 DEF Saved, InFlight, Accounted
<1>4. Quiet'
  BY <1>1 DEF TypeOK, OwnerTypeOK, Quiet
<1>5. Cleaned'
  BY <1>1, <1>2 DEF TypeOK, OwnerTypeOK, WriteAhead, Cleaned, CleanupComplete
<1> QED BY <1>1, <1>2, <1>3, <1>4, <1>5

\* A dead recovery broker promises nothing.
LEMMA CleanerDiesKeeps == ASSUME JournalInv, CleanerDies PROVE JournalInv'
<1> USE WriteAssumption DEF JournalInv, CleanerDies, budget, wire, disk, bounds, Fault, NoFault
<1>1. TypeOK'
  <2>1. HostTypeOK'
    BY DEF TypeOK, HostTypeOK
  <2>2. BrokerTypeOK'
    BY DEF TypeOK, BrokerTypeOK
  <2>3. OwnerTypeOK'
    BY DEF TypeOK, OwnerTypeOK
  <2>4. DiskTypeOK'
    BY DEF TypeOK, DiskTypeOK
  <2> QED BY <2>1, <2>2, <2>3, <2>4 DEF TypeOK
<1>2. StagingOwn' /\ WriteAhead'
  BY <1>1 DEF StagingOwn, WriteAhead
<1>3. Saved' /\ InFlight' /\ Accounted'
  BY <1>1 DEF Saved, InFlight, Accounted
<1>4. Quiet'
  BY <1>1 DEF Quiet
<1>5. Cleaned'
  BY <1>1, <1>2 DEF Cleaned, CleanupComplete
<1> QED BY <1>1, <1>2, <1>3, <1>4, <1>5

\* Completion is reported when every record is done.
LEMMA ExchangedKeeps == ASSUME JournalInv, Exchanged PROVE JournalInv'
<1> USE WriteAssumption DEF JournalInv, Exchanged, budget, wire, disk, bounds, Fault, NoFault
<1>1. TypeOK'
  <2>1. HostTypeOK'
    BY DEF TypeOK, HostTypeOK
  <2>2. BrokerTypeOK'
    BY DEF TypeOK, BrokerTypeOK
  <2>3. OwnerTypeOK'
    BY DEF TypeOK, OwnerTypeOK
  <2>4. DiskTypeOK'
    BY DEF TypeOK, DiskTypeOK
  <2> QED BY <2>1, <2>2, <2>3, <2>4 DEF TypeOK
<1>2. StagingOwn' /\ WriteAhead'
  BY <1>1 DEF StagingOwn, WriteAhead
<1>3. Saved' /\ InFlight' /\ Accounted'
  BY <1>1 DEF Saved, InFlight, Accounted
<1>4. Quiet'
  BY <1>1 DEF TypeOK, OwnerTypeOK, Quiet
<1>5. Cleaned'
  BY <1>1, <1>2 DEF TypeOK, OwnerTypeOK, WriteAhead, Cleaned, CleanupComplete
<1> QED BY <1>1, <1>2, <1>3, <1>4, <1>5

\* A dying host leaves disk and processes as they are.
LEMMA HostDiesKeeps == ASSUME JournalInv, HostDies PROVE JournalInv'
<1> USE WriteAssumption DEF JournalInv, HostDies, budget, wire, disk, bounds
<1>1. TypeOK'
  <2>1. HostTypeOK'
    BY DEF TypeOK, HostTypeOK
  <2>2. BrokerTypeOK'
    BY Zenon DEF TypeOK, BrokerTypeOK
  <2>3. OwnerTypeOK'
    BY DEF TypeOK, OwnerTypeOK
  <2>4. DiskTypeOK'
    BY DEF TypeOK, DiskTypeOK
  <2> QED BY <2>1, <2>2, <2>3, <2>4 DEF TypeOK
<1>2. StagingOwn' /\ WriteAhead'
  BY <1>1 DEF StagingOwn, WriteAhead
<1>3. Saved' /\ InFlight' /\ Accounted'
  BY <1>1 DEF Saved, InFlight, Accounted, Busy
<1>4. Quiet'
  BY <1>1 DEF Quiet
<1>5. Cleaned'
  BY <1>1, <1>2 DEF Cleaned, CleanupComplete
<1> QED BY <1>1, <1>2, <1>3, <1>4, <1>5

\* An heir claims only what has no process left.
LEMMA ClaimKeeps == ASSUME JournalInv, Claim PROVE JournalInv'
<1> USE WriteAssumption DEF JournalInv, Claim, budget, wire, disk, bounds
<1>1. TypeOK'
  <2>1. HostTypeOK'
    BY DEF TypeOK, HostTypeOK
  <2>2. BrokerTypeOK'
    BY DEF TypeOK, BrokerTypeOK
  <2>3. OwnerTypeOK'
    BY DEF TypeOK, OwnerTypeOK
  <2>4. DiskTypeOK'
    BY DEF TypeOK, DiskTypeOK
  <2> QED BY <2>1, <2>2, <2>3, <2>4 DEF TypeOK
<1>2. StagingOwn' /\ WriteAhead'
  BY <1>1 DEF StagingOwn, WriteAhead
<1>3. Saved' /\ InFlight' /\ Accounted'
  BY <1>1 DEF Saved, InFlight, Accounted
<1>4. Quiet'
  BY <1>1 DEF Quiet
<1>5. Cleaned'
  BY <1>1, <1>2 DEF Cleaned, CleanupComplete
<1> QED BY <1>1, <1>2, <1>3, <1>4, <1>5

\* Other programs do not create staged files.
LEMMA ForeignTargetKeeps == ASSUME NEW path \in Paths, JournalInv, ForeignTarget(path) PROVE JournalInv'
<1> USE WriteAssumption DEF JournalInv, ForeignTarget, Touch, budget, wire, disk, bounds
<1>1. TypeOK'
  <2>1. HostTypeOK'
    BY DEF TypeOK, HostTypeOK
  <2>2. BrokerTypeOK'
    BY DEF TypeOK, BrokerTypeOK
  <2>3. OwnerTypeOK'
    BY DEF TypeOK, OwnerTypeOK
  <2>4. DiskTypeOK'
    BY DEF TypeOK, DiskTypeOK, Files
  <2> QED BY <2>1, <2>2, <2>3, <2>4 DEF TypeOK
<1>2. StagingOwn' /\ WriteAhead'
  BY <1>1 DEF StagingOwn, WriteAhead, Ops, NoFile, Foreign
<1>3. Saved' /\ InFlight' /\ Accounted'
  BY <1>1 DEF Saved, InFlight, Accounted
<1>4. Quiet'
  BY <1>1 DEF Quiet
<1>5. Cleaned'
  BY <1>1, <1>2 DEF Cleaned, CleanupComplete
<1> QED BY <1>1, <1>2, <1>3, <1>4, <1>5

\* Other programs only take staged files away.
LEMMA ForeignStagingKeeps == ASSUME NEW op \in Ops, JournalInv, ForeignStaging(op) PROVE JournalInv'
<1> USE WriteAssumption DEF JournalInv, ForeignStaging, Touch, budget, wire, disk, bounds
<1>1. TypeOK'
  <2>1. HostTypeOK'
    BY DEF TypeOK, HostTypeOK
  <2>2. BrokerTypeOK'
    BY DEF TypeOK, BrokerTypeOK
  <2>3. OwnerTypeOK'
    BY DEF TypeOK, OwnerTypeOK
  <2>4. DiskTypeOK'
    BY DEF TypeOK, DiskTypeOK, Files
  <2> QED BY <2>1, <2>2, <2>3, <2>4 DEF TypeOK
<1>2. StagingOwn' /\ WriteAhead'
  BY <1>1 DEF StagingOwn, WriteAhead, Ops, NoFile
<1>3. Saved' /\ InFlight' /\ Accounted'
  BY <1>1 DEF Saved, InFlight, Accounted
<1>4. Quiet'
  BY <1>1 DEF Quiet
<1>5. Cleaned'
  BY <1>1, <1>2 DEF Cleaned, CleanupComplete, Ops, NoFile, Foreign
<1> QED BY <1>1, <1>2, <1>3, <1>4, <1>5

\* Every step keeps the invariant.
LEMMA StepKeeps == ASSUME JournalInv, [Next]_vars PROVE JournalInv'
<1>1. CASE UNCHANGED vars
  BY <1>1 DEF vars, budget, wire, disk, bounds, JournalInv, TypeOK, HostTypeOK, BrokerTypeOK, DiskTypeOK,
     OwnerTypeOK, StagingOwn, WriteAhead, Saved, InFlight, Accounted, Quiet, Cleaned, CleanupComplete, Ops, Files
<1>2. CASE Execute
  BY <1>2, BeginOperationKeeps, AdmitKeeps, ReceiveRecordKeeps, AppendRecordKeeps, SyncRecordKeeps,
     AcknowledgeKeeps, ReceiveResultKeeps, SettleKeeps, LostKeeps, CancelKeeps DEF Execute
<1>3. CASE Serve
  BY <1>3, PrepareKeeps, LinkKeeps, RenameKeeps, UnlinkStagingKeeps, SyncParentKeeps, BrokerDiesKeeps DEF Serve
<1>4. CASE Cleanup
  BY <1>4, CloseKeeps, ReapKeeps, RecoverKeeps, CleanStagingKeeps, CleanerDiesKeeps, ExchangedKeeps,
     HostDiesKeeps, ClaimKeeps DEF Cleanup
<1>5. CASE Others
  BY <1>5, ForeignTargetKeeps, ForeignStagingKeeps DEF Others
<1> QED BY <1>1, <1>2, <1>3, <1>4, <1>5, ZenonT(30) DEF Next, Complete

\* The inductive invariant holds throughout.
THEOREM JournalInvariance == Spec => []JournalInv
<1>1. Init => JournalInv
  BY InitJournalInv
<1>2. JournalInv /\ [Next]_vars => JournalInv'
  BY StepKeeps
<1> QED BY <1>1, <1>2, PTL DEF Spec

\* A record precedes every name of a staged file (persistEntry before commit),
\* for any number of operations and whatever fails or dies.
THEOREM RecordsComeFirst == Spec => [](TypeOK /\ WriteAhead)
<1>1. JournalInv => TypeOK /\ WriteAhead
  BY DEF JournalInv
<1> QED BY <1>1, JournalInvariance, PTL

\* A close that completes (closeJournalled) leaves no staging file behind.
THEOREM CompletedIsClean == Spec => []CleanupComplete
<1>1. JournalInv => CleanupComplete
  BY DEF JournalInv, Cleaned
<1> QED BY <1>1, JournalInvariance, PTL

\* Cleanup is never refused by the policy it checks the journal against
\* (recoveryPolicy, checkpointRecoveryPolicy).
THEOREM CleanupIsAdmitted == Spec => []RecoveryAdmitted
<1>1. JournalInv => RecoveryAdmitted
  <2> SUFFICES ASSUME JournalInv, owner.pc = "reaped" PROVE PolicyAdmits
    BY DEF RecoveryAdmitted
  <2>1. calls \in Nat /\ calls <= MaxCalls /\ MaxCalls \in Nat
    BY WriteAssumption DEF JournalInv, TypeOK, HostTypeOK
  <2>2. IsFiniteSet(1..calls) /\ Cardinality(1..calls) = calls
    BY <2>1, FS_Interval
  <2>3. accepted \subseteq journal /\ journal \subseteq 1..calls
    BY DEF JournalInv, Accounted
  <2>4. Cardinality(journal) <= calls /\ Cardinality(journal) \in Nat
    BY <2>2, <2>3, FS_Subset, FS_CardinalityType, ZenonT(30)
  <2>5. owner.who = "launch" => budgetClosed /\ outstanding = 0
    BY DEF JournalInv, Quiet, InFlight
  <2> QED BY <2>1, <2>3, <2>4, <2>5 DEF PolicyAdmits
<1> QED BY <1>1, JournalInvariance, PTL
-----------------------------------------------------------------------------
\* Whose turn it is while the stream is open: there is at most one message on
\* it, and the broker works only while Execute waits for it.
Turns ==
    stream =>
        /\ client.pc \notin {"await", "acked"} => toBroker = "none" /\ toHost = "none"
        /\ client.pc \in {"idle", "entered", "settle"} => broker \in {"idle", "dead"}
        /\ client.pc \in {"append", "linked", "ack"} => broker \in {"await", "dead"}
        /\ toBroker = "run" => /\ client.pc = "await" /\ toHost = "none"
                               /\ broker \in {"idle", "dead"}
        /\ toBroker = "reply" => /\ client.pc = "acked" /\ toHost = "none"
                                 /\ broker \in {"await", "dead"}
        /\ toHost = "record" => client.pc = "await" /\ broker \in {"await", "dead"}
        /\ toHost = "ok" => toBroker = "none" /\ broker \in {"idle", "dead"}
        /\ toHost = "error" => toBroker = "none" /\ broker = "dead"
        /\ broker \in {"linked", "renamed", "unlink"}
               => client.pc = "acked" /\ toBroker = "none" /\ toHost = "none"

\* What stands behind a good result: the rename, for a call that has a record.
Evidence ==
    /\ stream /\ broker = "renamed" => calls \in published
    /\ stream /\ toHost = "ok" => call.kind = "read" \/ calls \in published
    /\ client.pc = "settle" /\ calls \in journal => calls \in published
    /\ client.pc \in Busy /\ calls \in journal => call.kind = "write"

\* Replies are to admitted calls, and the call in flight has none yet.
Replies ==
    /\ \A op \in Ops : reply[op] # "none" => op <= calls
    /\ client.pc \in Busy => reply[calls] = "none"

\* No other program's file has a staging name while the broker lives.
NamesFree == broker # "dead" => \A op \in Ops : stage[op] # Foreign

PublishInv == Turns /\ Evidence /\ Replies /\ NamesFree /\ DoneIsPublished

\* The steps of Execute keep it.
LEMMA ExecuteKeepsPublish == ASSUME JournalInv, JournalInv', PublishInv, Execute PROVE PublishInv'
<1> USE DEF JournalInv, TypeOK, PublishInv, budget, wire, disk
<1>1. CASE \E kind \in {"read", "write"}, path \in Paths : BeginOperation(kind, path)
  <2>1. Turns'
    BY <1>1 DEF BeginOperation, Turns, HostTypeOK
  <2>2. Evidence'
    BY <1>1 DEF BeginOperation, Evidence, Turns, Saved, Accounted, HostTypeOK, Busy
  <2>3. Replies'
    BY <1>1 DEF BeginOperation, Replies, HostTypeOK, InFlight, Busy, Ops
  <2>4. NamesFree'
    BY <1>1 DEF BeginOperation, NamesFree, Turns, DiskTypeOK, Ops, NoFile, Foreign
  <2>5. DoneIsPublished'
    BY <1>1 DEF BeginOperation, DoneIsPublished, Evidence, Replies, HostTypeOK, InFlight, Busy
  <2> QED BY <2>1, <2>2, <2>3, <2>4, <2>5
<1>2. CASE Admit
  <2>1. Turns'
    BY <1>2 DEF Admit, Turns, HostTypeOK
  <2>2. Evidence'
    BY <1>2 DEF Admit, Evidence, Turns, Saved, Accounted, HostTypeOK, Busy
  <2>3. Replies'
    BY <1>2 DEF Admit, Replies, HostTypeOK, InFlight, Busy, Ops
  <2>4. NamesFree'
    BY <1>2 DEF Admit, NamesFree, Turns, DiskTypeOK, Ops, NoFile, Foreign
  <2>5. DoneIsPublished'
    BY <1>2 DEF Admit, DoneIsPublished, Evidence, Replies, HostTypeOK, InFlight, Busy
  <2> QED BY <2>1, <2>2, <2>3, <2>4, <2>5
<1>3. CASE ReceiveRecord
  <2>1. Turns'
    BY <1>3 DEF ReceiveRecord, Turns, HostTypeOK, BrokerTypeOK
  <2>2. Evidence'
    BY <1>3 DEF ReceiveRecord, Evidence, Turns, Saved, Accounted, HostTypeOK, Busy
  <2>3. Replies'
    BY <1>3 DEF ReceiveRecord, Replies, HostTypeOK, InFlight, Busy, Ops
  <2>4. NamesFree'
    BY <1>3 DEF ReceiveRecord, NamesFree, Turns, DiskTypeOK, Ops, NoFile, Foreign
  <2>5. DoneIsPublished'
    BY <1>3 DEF ReceiveRecord, DoneIsPublished, Evidence, Replies, HostTypeOK, InFlight, Busy
  <2> QED BY <2>1, <2>2, <2>3, <2>4, <2>5
<1>4. CASE AppendRecord
  <2>1. Turns'
    BY <1>4, ZenonT(30) DEF AppendRecord, Failed, matches, Turns, HostTypeOK
  <2>2. Evidence'
    BY <1>4 DEF AppendRecord, Failed, matches, Evidence, Turns, Saved, Accounted, HostTypeOK, Busy
  <2>3. Replies'
    BY <1>4 DEF AppendRecord, Failed, matches, Replies, HostTypeOK, InFlight, Busy, Ops
  <2>4. NamesFree'
    BY <1>4 DEF AppendRecord, Failed, matches, NamesFree, Turns, DiskTypeOK, Ops, NoFile, Foreign
  <2>5. DoneIsPublished'
    BY <1>4 DEF AppendRecord, Failed, matches, DoneIsPublished, Evidence, Replies, HostTypeOK, InFlight, Busy
  <2> QED BY <2>1, <2>2, <2>3, <2>4, <2>5
<1>5. CASE SyncRecord
  <2>1. Turns'
    BY <1>5, ZenonT(30) DEF SyncRecord, Failed, Turns, HostTypeOK
  <2>2. Evidence'
    BY <1>5 DEF SyncRecord, Failed, Evidence, Turns, Saved, Accounted, HostTypeOK, Busy
  <2>3. Replies'
    BY <1>5 DEF SyncRecord, Failed, Replies, HostTypeOK, InFlight, Busy, Ops
  <2>4. NamesFree'
    BY <1>5 DEF SyncRecord, Failed, NamesFree, Turns, DiskTypeOK, Ops, NoFile, Foreign
  <2>5. DoneIsPublished'
    BY <1>5 DEF SyncRecord, Failed, DoneIsPublished, Evidence, Replies, HostTypeOK, InFlight, Busy
  <2> QED BY <2>1, <2>2, <2>3, <2>4, <2>5
<1>6. CASE Acknowledge
  <2>1. Turns'
    BY <1>6, ZenonT(30) DEF Acknowledge, Failed, Turns, HostTypeOK
  <2>2. Evidence'
    BY <1>6 DEF Acknowledge, Failed, Evidence, Turns, Saved, Accounted, HostTypeOK, Busy
  <2>3. Replies'
    BY <1>6 DEF Acknowledge, Failed, Replies, HostTypeOK, InFlight, Busy, Ops
  <2>4. NamesFree'
    BY <1>6 DEF Acknowledge, Failed, NamesFree, Turns, DiskTypeOK, Ops, NoFile, Foreign
  <2>5. DoneIsPublished'
    BY <1>6 DEF Acknowledge, Failed, DoneIsPublished, Evidence, Replies, HostTypeOK, InFlight, Busy
  <2> QED BY <2>1, <2>2, <2>3, <2>4, <2>5
<1>7. CASE ReceiveResult
  <2>1. Turns'
    BY <1>7 DEF ReceiveResult, Failed, Turns, HostTypeOK
  <2>2. Evidence'
    <3>1. CASE Failed
      BY <1>7, <3>1 DEF ReceiveResult, Failed, Evidence, Busy
    <3>2. CASE /\ toHost = "ok" /\ client' = [client EXCEPT !.pc = "settle"]
               /\ UNCHANGED <<budget, stream, reply>>
      <4>1. client'.pc = "settle" /\ client.pc \in Busy /\ stream
            /\ toHost' = "none" /\ UNCHANGED <<call, broker, journal, published>>
        BY <1>7, <3>2 DEF ReceiveResult, HostTypeOK, Busy
      <4> QED BY <3>2, <4>1 DEF Evidence
    <3> QED BY <1>7, <3>1, <3>2, ZenonT(30) DEF ReceiveResult
  <2>3. Replies'
    <3>1. CASE Failed
      BY <1>7, <3>1 DEF ReceiveResult, Failed, Replies, HostTypeOK, Busy, Ops
    <3>2. CASE client' = [client EXCEPT !.pc = "settle"] /\ UNCHANGED <<budget, stream, reply>>
      BY <1>7, <3>2 DEF ReceiveResult, Replies, HostTypeOK, Busy
    <3> QED BY <1>7, <3>1, <3>2, Zenon DEF ReceiveResult
  <2>4. NamesFree'
    BY <1>7 DEF ReceiveResult, Failed, NamesFree, Turns, DiskTypeOK, Ops, NoFile, Foreign
  <2>5. DoneIsPublished'
    BY <1>7, ZenonT(30) DEF ReceiveResult, Failed, DoneIsPublished, Evidence, Replies, HostTypeOK, InFlight, Busy
  <2> QED BY <2>1, <2>2, <2>3, <2>4, <2>5
<1>8. CASE Settle
  <2>1. Turns'
    <3>1. CASE Failed
      BY <1>8, <3>1 DEF Settle, Failed, Turns
    <3>2. CASE ~Failed
      <4>1. client.pc = "settle" /\ client'.pc = "idle"
            /\ UNCHANGED <<toBroker, toHost, broker>>
        BY <1>8, <3>2 DEF Settle
      <4>2. stream' => stream
        BY <1>8, <3>2, ZenonT(30) DEF Settle
      <4> QED BY <4>1, <4>2 DEF Turns
    <3> QED BY <3>1, <3>2
  <2>2. Evidence'
    <3>1. client'.pc = "idle" /\ UNCHANGED <<call, calls, toHost, broker, journal, published>>
      BY <1>8, SMTT(20) DEF Settle, Failed
    <3>2. stream' => stream
      BY <1>8, ZenonT(30) DEF Settle, Failed
    <3> QED BY <3>1, <3>2 DEF Evidence, Busy
  <2>3. Replies'
    <3>1. client'.pc = "idle" /\ calls' = calls
          /\ (reply' = reply \/ \E r \in {"ok", "error"} : reply' = [reply EXCEPT ![calls] = r])
      BY <1>8, SMTT(20) DEF Settle, Failed
    <3>2. calls \in Nat /\ reply \in [Ops -> {"none", "ok", "error"}]
      BY SMTT(20) DEF HostTypeOK
    <3>3. \A op \in Ops : op \in Nat
      BY DEF Ops
    <3> QED BY <3>1, <3>2, <3>3 DEF Replies, Busy
  <2>4. NamesFree'
    BY <1>8 DEF Settle, Failed, NamesFree, Turns, DiskTypeOK, Ops, NoFile, Foreign
  <2>5. DoneIsPublished'
    BY <1>8 DEF Settle, Failed, DoneIsPublished, Evidence, Replies, HostTypeOK, InFlight, Busy
  <2> QED BY <2>1, <2>2, <2>3, <2>4, <2>5
<1>9. CASE Lost
  <2>1. Turns'
    BY <1>9 DEF Lost, Failed, Turns, HostTypeOK
  <2>2. Evidence'
    BY <1>9 DEF Lost, Failed, Evidence, Turns, Saved, Accounted, HostTypeOK, Busy
  <2>3. Replies'
    BY <1>9 DEF Lost, Failed, Replies, HostTypeOK, InFlight, Busy, Ops
  <2>4. NamesFree'
    BY <1>9 DEF Lost, Failed, NamesFree, Turns, DiskTypeOK, Ops, NoFile, Foreign
  <2>5. DoneIsPublished'
    BY <1>9 DEF Lost, Failed, DoneIsPublished, Evidence, Replies, HostTypeOK, InFlight, Busy
  <2> QED BY <2>1, <2>2, <2>3, <2>4, <2>5
<1>10. CASE Cancel
  <2>1. Turns'
    BY <1>10 DEF Cancel, abort, Turns, HostTypeOK
  <2>2. Evidence'
    BY <1>10 DEF Cancel, abort, Evidence, Turns, Saved, Accounted, HostTypeOK, Busy
  <2>3. Replies'
    BY <1>10 DEF Cancel, abort, Replies, HostTypeOK, InFlight, Busy, Ops
  <2>4. NamesFree'
    BY <1>10 DEF Cancel, abort, NamesFree, Turns, DiskTypeOK, Ops, NoFile, Foreign
  <2>5. DoneIsPublished'
    BY <1>10 DEF Cancel, abort, DoneIsPublished, Evidence, Replies, HostTypeOK, InFlight, Busy
  <2> QED BY <2>1, <2>2, <2>3, <2>4, <2>5
<1> QED BY <1>1, <1>2, <1>3, <1>4, <1>5, <1>6, <1>7, <1>8, <1>9, <1>10 DEF Execute

\* The broker's steps keep it.
LEMMA ServeKeepsPublish == ASSUME JournalInv, JournalInv', PublishInv, Serve PROVE PublishInv'
<1> USE DEF JournalInv, TypeOK, PublishInv, budget, wire, disk
<1>1. CASE Prepare
  <2>1. Turns'
    BY <1>1 DEF Prepare, Answer, prepareLinuxWrite, Turns, HostTypeOK
  <2>2. Evidence'
    BY <1>1 DEF Prepare, Answer, prepareLinuxWrite, Evidence, Turns, Saved, Accounted, HostTypeOK, Busy
  <2>3. Replies'
    BY <1>1 DEF Prepare, Answer, prepareLinuxWrite, Replies, HostTypeOK, InFlight, Busy, Ops
  <2>4. NamesFree'
    BY <1>1 DEF Prepare, Answer, prepareLinuxWrite, NamesFree, Turns, DiskTypeOK, Ops, NoFile, Foreign
  <2>5. DoneIsPublished'
    BY <1>1 DEF Prepare, Answer, prepareLinuxWrite, DoneIsPublished, Evidence, Replies, HostTypeOK, InFlight, Busy
  <2> QED BY <2>1, <2>2, <2>3, <2>4, <2>5
<1>2. CASE Link
  <2>1. Turns'
    BY <1>2 DEF Link, commit, Answer, Turns, HostTypeOK
  <2>2. Evidence'
    BY <1>2 DEF Link, commit, Answer, Evidence, Turns, Saved, Accounted, HostTypeOK, Busy
  <2>3. Replies'
    BY <1>2 DEF Link, commit, Answer, Replies, HostTypeOK, InFlight, Busy, Ops
  <2>4. NamesFree'
    BY <1>2 DEF Link, commit, Answer, NamesFree, Turns, DiskTypeOK, Ops, NoFile, Foreign
  <2>5. DoneIsPublished'
    BY <1>2 DEF Link, commit, Answer, DoneIsPublished, Evidence, Replies, HostTypeOK, InFlight, Busy
  <2> QED BY <2>1, <2>2, <2>3, <2>4, <2>5
<1>3. CASE Rename
  <2>1. Turns'
    BY <1>3 DEF Rename, Turns, HostTypeOK
  <2>2. Evidence'
    BY <1>3 DEF Rename, Evidence, Turns, Saved, Accounted, HostTypeOK, Busy
  <2>3. Replies'
    BY <1>3 DEF Rename, Replies, HostTypeOK, InFlight, Busy, Ops
  <2>4. NamesFree'
    BY <1>3 DEF Rename, NamesFree, Turns, DiskTypeOK, Ops, NoFile, Foreign
  <2>5. DoneIsPublished'
    BY <1>3 DEF Rename, DoneIsPublished, Evidence, Replies, HostTypeOK, InFlight, Busy
  <2> QED BY <2>1, <2>2, <2>3, <2>4, <2>5
<1>4. CASE UnlinkStaging
  <2>1. Turns'
    BY <1>4 DEF UnlinkStaging, Answer, Turns, HostTypeOK
  <2>2. Evidence'
    BY <1>4 DEF UnlinkStaging, Answer, Evidence, Turns, Saved, Accounted, HostTypeOK, Busy
  <2>3. Replies'
    BY <1>4 DEF UnlinkStaging, Answer, Replies, HostTypeOK, InFlight, Busy, Ops
  <2>4. NamesFree'
    BY <1>4 DEF UnlinkStaging, Answer, NamesFree, Turns, DiskTypeOK, Ops, NoFile, Foreign
  <2>5. DoneIsPublished'
    BY <1>4 DEF UnlinkStaging, Answer, DoneIsPublished, Evidence, Replies, HostTypeOK, InFlight, Busy
  <2> QED BY <2>1, <2>2, <2>3, <2>4, <2>5
<1>5. CASE SyncParent
  <2>1. Turns'
    BY <1>5 DEF SyncParent, Answer, Turns, HostTypeOK
  <2>2. Evidence'
    BY <1>5 DEF SyncParent, Answer, Evidence, Turns, Saved, Accounted, HostTypeOK, Busy
  <2>3. Replies'
    BY <1>5 DEF SyncParent, Answer, Replies, HostTypeOK, InFlight, Busy, Ops
  <2>4. NamesFree'
    BY <1>5 DEF SyncParent, Answer, NamesFree, Turns, DiskTypeOK, Ops, NoFile, Foreign
  <2>5. DoneIsPublished'
    BY <1>5 DEF SyncParent, Answer, DoneIsPublished, Evidence, Replies, HostTypeOK, InFlight, Busy
  <2> QED BY <2>1, <2>2, <2>3, <2>4, <2>5
<1>6. CASE BrokerDies
  <2>1. Turns'
    BY <1>6 DEF BrokerDies, Turns, HostTypeOK
  <2>2. Evidence'
    BY <1>6 DEF BrokerDies, Evidence, Turns, Saved, Accounted, HostTypeOK, Busy
  <2>3. Replies'
    BY <1>6 DEF BrokerDies, Replies, HostTypeOK, InFlight, Busy, Ops
  <2>4. NamesFree'
    BY <1>6 DEF BrokerDies, NamesFree, Turns, DiskTypeOK, Ops, NoFile, Foreign
  <2>5. DoneIsPublished'
    BY <1>6 DEF BrokerDies, DoneIsPublished, Evidence, Replies, HostTypeOK, InFlight, Busy
  <2> QED BY <2>1, <2>2, <2>3, <2>4, <2>5
<1> QED BY <1>1, <1>2, <1>3, <1>4, <1>5, <1>6 DEF Serve

\* The owner's steps keep it.
LEMMA CleanupKeepsPublish == ASSUME JournalInv, JournalInv', PublishInv, Cleanup PROVE PublishInv'
<1> USE DEF JournalInv, TypeOK, PublishInv, budget, wire, disk
<1>1. CASE Close
  <2>1. Turns'
    BY <1>1 DEF Close, abort, Turns, HostTypeOK
  <2>2. Evidence'
    BY <1>1 DEF Close, abort, Evidence, Turns, Saved, Accounted, HostTypeOK, Busy
  <2>3. Replies'
    BY <1>1 DEF Close, abort, Replies, HostTypeOK, InFlight, Busy, Ops
  <2>4. NamesFree'
    BY <1>1 DEF Close, abort, NamesFree, Turns, DiskTypeOK, Ops, NoFile, Foreign
  <2>5. DoneIsPublished'
    BY <1>1 DEF Close, abort, DoneIsPublished, Evidence, Replies, HostTypeOK, InFlight, Busy
  <2> QED BY <2>1, <2>2, <2>3, <2>4, <2>5
<1>2. CASE Reap
  <2>1. Turns'
    BY <1>2 DEF Reap, Turns, HostTypeOK
  <2>2. Evidence'
    BY <1>2 DEF Reap, Evidence, Turns, Saved, Accounted, HostTypeOK, Busy
  <2>3. Replies'
    BY <1>2 DEF Reap, Replies, HostTypeOK, InFlight, Busy, Ops
  <2>4. NamesFree'
    BY <1>2 DEF Reap, NamesFree, Turns, DiskTypeOK, Ops, NoFile, Foreign
  <2>5. DoneIsPublished'
    BY <1>2 DEF Reap, DoneIsPublished, Evidence, Replies, HostTypeOK, InFlight, Busy
  <2> QED BY <2>1, <2>2, <2>3, <2>4, <2>5
<1>3. CASE Recover
  <2>1. Turns'
    BY <1>3 DEF Recover, Turns, HostTypeOK
  <2>2. Evidence'
    BY <1>3 DEF Recover, Evidence, Turns, Saved, Accounted, HostTypeOK, Busy
  <2>3. Replies'
    BY <1>3 DEF Recover, Replies, HostTypeOK, InFlight, Busy, Ops
  <2>4. NamesFree'
    BY <1>3 DEF Recover, NamesFree, Turns, DiskTypeOK, Ops, NoFile, Foreign
  <2>5. DoneIsPublished'
    BY <1>3 DEF Recover, DoneIsPublished, Evidence, Replies, HostTypeOK, InFlight, Busy
  <2> QED BY <2>1, <2>2, <2>3, <2>4, <2>5
<1>4. CASE CleanStaging
  <2>1. Turns'
    BY <1>4 DEF CleanStaging, Turns, HostTypeOK
  <2>2. Evidence'
    BY <1>4 DEF CleanStaging, Evidence, Turns, Saved, Accounted, HostTypeOK, Busy
  <2>3. Replies'
    BY <1>4 DEF CleanStaging, Replies, HostTypeOK, InFlight, Busy, Ops
  <2>4. NamesFree'
    BY <1>4 DEF CleanStaging, NamesFree, Turns, DiskTypeOK, Ops, NoFile, Foreign
  <2>5. DoneIsPublished'
    BY <1>4 DEF CleanStaging, DoneIsPublished, Evidence, Replies, HostTypeOK, InFlight, Busy
  <2> QED BY <2>1, <2>2, <2>3, <2>4, <2>5
<1>5. CASE CleanerDies
  <2>1. Turns'
    BY <1>5 DEF CleanerDies, Turns, HostTypeOK
  <2>2. Evidence'
    BY <1>5 DEF CleanerDies, Evidence, Turns, Saved, Accounted, HostTypeOK, Busy
  <2>3. Replies'
    BY <1>5 DEF CleanerDies, Replies, HostTypeOK, InFlight, Busy, Ops
  <2>4. NamesFree'
    BY <1>5 DEF CleanerDies, NamesFree, Turns, DiskTypeOK, Ops, NoFile, Foreign
  <2>5. DoneIsPublished'
    BY <1>5 DEF CleanerDies, DoneIsPublished, Evidence, Replies, HostTypeOK, InFlight, Busy
  <2> QED BY <2>1, <2>2, <2>3, <2>4, <2>5
<1>6. CASE Exchanged
  <2>1. Turns'
    BY <1>6 DEF Exchanged, Turns, HostTypeOK
  <2>2. Evidence'
    BY <1>6 DEF Exchanged, Evidence, Turns, Saved, Accounted, HostTypeOK, Busy
  <2>3. Replies'
    BY <1>6 DEF Exchanged, Replies, HostTypeOK, InFlight, Busy, Ops
  <2>4. NamesFree'
    BY <1>6 DEF Exchanged, NamesFree, Turns, DiskTypeOK, Ops, NoFile, Foreign
  <2>5. DoneIsPublished'
    BY <1>6 DEF Exchanged, DoneIsPublished, Evidence, Replies, HostTypeOK, InFlight, Busy
  <2> QED BY <2>1, <2>2, <2>3, <2>4, <2>5
<1>7. CASE HostDies
  <2>1. Turns'
    BY <1>7 DEF HostDies, Turns, HostTypeOK
  <2>2. Evidence'
    BY <1>7 DEF HostDies, Evidence, Turns, Saved, Accounted, HostTypeOK, Busy
  <2>3. Replies'
    BY <1>7 DEF HostDies, Replies, HostTypeOK, InFlight, Busy, Ops
  <2>4. NamesFree'
    BY <1>7 DEF HostDies, NamesFree, Turns, DiskTypeOK, Ops, NoFile, Foreign
  <2>5. DoneIsPublished'
    BY <1>7 DEF HostDies, DoneIsPublished, Evidence, Replies, HostTypeOK, InFlight, Busy
  <2> QED BY <2>1, <2>2, <2>3, <2>4, <2>5
<1>8. CASE Claim
  <2>1. Turns'
    BY <1>8 DEF Claim, Turns, HostTypeOK
  <2>2. Evidence'
    BY <1>8 DEF Claim, Evidence, Turns, Saved, Accounted, HostTypeOK, Busy
  <2>3. Replies'
    BY <1>8 DEF Claim, Replies, HostTypeOK, InFlight, Busy, Ops
  <2>4. NamesFree'
    BY <1>8 DEF Claim, NamesFree, Turns, DiskTypeOK, Ops, NoFile, Foreign
  <2>5. DoneIsPublished'
    BY <1>8 DEF Claim, DoneIsPublished, Evidence, Replies, HostTypeOK, InFlight, Busy
  <2> QED BY <2>1, <2>2, <2>3, <2>4, <2>5
<1> QED BY <1>1, <1>2, <1>3, <1>4, <1>5, <1>6, <1>7, <1>8 DEF Cleanup

\* What other programs do keeps it.
LEMMA OthersKeepPublish == ASSUME JournalInv, JournalInv', PublishInv, Others PROVE PublishInv'
<1>1. UNCHANGED <<client, call, calls, toBroker, toHost, stream, broker, journal, published, reply>>
  BY ZenonT(30) DEF Others, ForeignTarget, ForeignStaging, budget, wire
<1>2. Turns'
  BY <1>1 DEF PublishInv, Turns
<1>3. Evidence' /\ Replies' /\ DoneIsPublished'
  BY <1>1 DEF PublishInv, Evidence, Replies, DoneIsPublished
<1>4. NamesFree'
  <2>1. CASE \E path \in Paths : ForeignTarget(path)
    BY <1>1, <2>1, ZenonT(30) DEF PublishInv, NamesFree, ForeignTarget
  <2>2. ASSUME NEW op \in Ops, ForeignStaging(op) PROVE NamesFree'
    <3>1. stage \in [Ops -> Files]
      BY ZenonT(30) DEF JournalInv, TypeOK, DiskTypeOK
    <3>2. PICK f \in {NoFile, Foreign} : (f = Foreign => broker = "dead") /\ stage' = [stage EXCEPT ![op] = f]
      BY <2>2, ZenonT(30) DEF ForeignStaging
    <3> QED BY <1>1, <3>1, <3>2, ZenonT(30) DEF PublishInv, NamesFree
  <2> QED BY <2>1, <2>2, ZenonT(30) DEF Others
<1> QED BY <1>2, <1>3, <1>4 DEF PublishInv

\* The layer above JournalInv holds throughout.
THEOREM PublishInvariance == Spec => []PublishInv
<1>1. Init => PublishInv
  <2> SUFFICES ASSUME Init PROVE PublishInv
    OBVIOUS
  <2>1. Turns /\ Evidence
    BY DEF Init, Turns, Evidence, Busy
  <2>2. Replies /\ DoneIsPublished
    BY DEF Init, Replies, DoneIsPublished, Busy
  <2>3. NamesFree
    <3>1. stage = [op \in Ops |-> NoFile]
      BY Zenon DEF Init
    <3>2. NoFile # Foreign
      BY DEF NoFile, Foreign
    <3> QED BY <3>1, <3>2, Zenon DEF NamesFree
  <2> QED BY <2>1, <2>2, <2>3 DEF PublishInv
<1>2. JournalInv /\ JournalInv' /\ PublishInv /\ [Next]_vars => PublishInv'
  <2> SUFFICES ASSUME JournalInv, JournalInv', PublishInv, [Next]_vars PROVE PublishInv'
    OBVIOUS
  <2>1. CASE UNCHANGED vars
    BY <2>1 DEF vars, budget, wire, disk, PublishInv, Turns, Evidence, Replies, NamesFree, DoneIsPublished, Ops
  <2> QED BY <2>1, ExecuteKeepsPublish, ServeKeepsPublish, CleanupKeepsPublish, OthersKeepPublish, ZenonT(30)
          DEF Next, Complete
<1> QED BY <1>1, <1>2, JournalInvariance, PTL DEF Spec

\* A write Execute reports as done has replaced its target, for any number of
\* operations, faults and crashes (exchange, writeJournalled, publish).
THEOREM DoneMeansPublished == Spec => []DoneIsPublished
<1>1. PublishInv => DoneIsPublished
  BY DEF PublishInv
<1> QED BY <1>1, PublishInvariance, PTL

\* Neither the broker nor the recovery broker removes a file of another program
\* from under a staging name (recoverLinuxStaging compares the identity).
THEOREM OthersAreSpared == Spec => SparesOthers
<1> DEFINE Spared == \A op \in Ops : stage[op] = Foreign => stage'[op] = Foreign \/ foreign' # foreign
<1>1. JournalInv /\ PublishInv /\ [Next]_vars => [Spared]_vars
  <2> SUFFICES ASSUME JournalInv, PublishInv, Next, NEW op \in Ops, stage[op] = Foreign
               PROVE  stage'[op] = Foreign \/ foreign' # foreign
    OBVIOUS
  <2> USE DEF JournalInv, TypeOK, DiskTypeOK, disk
  <2>1. CASE Execute
    BY <2>1 DEF Execute, BeginOperation, Admit, ReceiveRecord, AppendRecord, SyncRecord,
       Acknowledge, ReceiveResult, Settle, Lost, Cancel
  <2>2. CASE Serve
    <3>1. CASE broker = "dead"
      BY <2>2, <3>1 DEF Serve, Prepare, Link, Rename, UnlinkStaging, SyncParent, BrokerDies
    <3>2. CASE broker # "dead"
      BY <3>2 DEF PublishInv, NamesFree
    <3> QED BY <3>1, <3>2
  <2>3. CASE Cleanup
    <3>1. CASE CleanStaging
      <4> DEFINE o == Minimum(cleaner.todo)
      <4>1. stage' = stage \/ (stage[o] \in {NoFile, o} /\ stage' = [stage EXCEPT ![o] = NoFile])
        BY <3>1 DEF CleanStaging
      <4>2. op = o => stage[o] \notin {NoFile, o}
        BY DEF Ops, NoFile, Foreign
      <4> HIDE DEF o
      <4> QED BY <4>1, <4>2
    <3>2. CASE ~CleanStaging
      BY <2>3, <3>2 DEF Cleanup, Close, Reap, Recover, CleanerDies, Exchanged, HostDies, Claim
    <3> QED BY <3>1, <3>2
  <2>4. CASE Others
    <3>1. foreign \in Nat /\ foreign' = foreign + 1
      BY <2>4, WriteAssumption DEF Others, ForeignTarget, ForeignStaging, Touch, OwnerTypeOK
    <3> QED BY <3>1
  <2>5. CASE Complete
    BY <2>5 DEF Complete, vars
  <2> QED BY <2>1, <2>2, <2>3, <2>4, <2>5 DEF Next
<1> QED BY <1>1, JournalInvariance, PublishInvariance, PTL DEF Spec, SparesOthers
=============================================================================
