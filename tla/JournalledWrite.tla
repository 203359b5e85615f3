--------------------------- MODULE JournalledWrite ---------------------------
(***************************************************************************)
(* Journalled writes of the filesystem broker and their cleanup            *)
(* (internal/sandboxbroker, internal/sandboxlinux/broker_journal_owner).   *)
(*                                                                         *)
(* The host's FilesystemClient sends one operation at a time to a confined *)
(* broker process.  For a write the broker prepares an unnamed file, sends *)
(* a recovery record, and waits; the host makes the record durable and     *)
(* acknowledges it; only then does the broker link the file under its      *)
(* staging name, rename it over the target and sync the directory.         *)
(* Closing the owner brings the broker down and runs a recovery broker     *)
(* over the journal, which unlinks the staging files that are left.  The   *)
(* broker, the recovery broker and the host may die between any two steps; *)
(* after the host dies another process (ServiceRecovery) does the cleanup. *)
(*                                                                         *)
(* The file a write stages is named by the number of its operation, which  *)
(* stands for the device, inode and size in its RecoveryRecord.  At most   *)
(* one operation is in flight (FilesystemClient.active), so the messages   *)
(* and the broker always speak of operation `calls'; the broker's copy of  *)
(* the budget admits what the host's copy admitted.                        *)
(***************************************************************************)
EXTENDS Integers, FiniteSets

CONSTANTS
    Paths,       \* the files of the granted directory
    MaxCalls,    \* FilesystemLimits.Calls: the operations of one launch
    MaxFaults,   \* bound: failed system calls, expired deadlines
    MaxCrashes,  \* bound: hosts and recovering hosts that die
    MaxForeign   \* bound: changes other programs make to the directory

ASSUME WriteAssumption ==
    /\ Paths # {}
    /\ MaxCalls \in Nat \ {0}
    /\ {MaxFaults, MaxCrashes, MaxForeign} \subseteq Nat

VARIABLES
    client,      \* FilesystemClient: where Execute is, and its closed flag
    call,        \* the operation in flight: its kind and path
    calls,       \* FilesystemBudget.calls, which is also its lastID
    outstanding, \* FilesystemBudget.outstanding
    budgetClosed,
    toBroker, toHost,   \* the message in each direction of the stream
    stream,      \* is the stream open?
    broker,      \* the broker process's place in execute
    stage,       \* the directory: what each operation's staging name holds
    target,      \* the directory: what each path holds
    journal,     \* the operations with a record in the journal directory
    accepted,    \* LinuxRecoveryJournal.records
    owner,       \* filesystemBrokerRecovery: who cleans up and how far it is
    cleaner,     \* the recovery broker: is it running, records still to do
    reply,       \* history: what Execute returned for each operation
    published,   \* history: the operations renamed over their target
    faults, crashes, foreign

budget == <<calls, outstanding, budgetClosed>>
wire == <<toBroker, toHost, stream>>
disk == <<stage, target, journal, published>>
bounds == <<faults, crashes, foreign>>
vars == <<client, call, budget, wire, broker, disk, accepted, owner, cleaner, reply, bounds>>

Ops == 1..MaxCalls
NoFile == 0      \* no operation has number 0 (StagingName)
Foreign == -1
Minimum(S) == CHOOSE m \in S : \A n \in S : m <= n

Init ==
    /\ client = [pc |-> "idle", closed |-> FALSE]
    /\ call = [kind |-> "read", path |-> CHOOSE p \in Paths : TRUE]
    /\ calls = 0 /\ outstanding = 0 /\ budgetClosed = FALSE
    /\ toBroker = "none" /\ toHost = "none" /\ stream = TRUE
    /\ broker = "idle"
    /\ stage = [op \in Ops |-> NoFile]
    /\ target \in [Paths -> {NoFile, Foreign}]
    /\ journal = {} /\ published = {} /\ accepted = {}
    /\ owner = [who |-> "launch", pc |-> "open"]
    /\ cleaner = [pc |-> "none", todo |-> {}]
    /\ reply = [op \in Ops |-> "none"]
    /\ faults = 0 /\ crashes = 0 /\ foreign = 0

\* A system call that fails, or a deadline that expires.
Fault == faults < MaxFaults /\ faults' = faults + 1 /\ UNCHANGED <<crashes, foreign>>
NoFault == UNCHANGED bounds

\* FilesystemClient.abort: no more operations, and the process is killed.
abort == /\ client' = [client EXCEPT !.closed = TRUE]
         /\ budgetClosed' = TRUE
         /\ stream' = FALSE

\* Mutant: the deferred Finish is lost on the error path.
FailedUnsettled ==
    /\ client' = [pc |-> "idle", closed |-> TRUE]
    /\ budgetClosed' = TRUE
    /\ stream' = FALSE
    /\ reply' = reply
    /\ UNCHANGED <<calls, outstanding>>

\* An Execute that fails settles its call (Finish), then aborts.
Failed == /\ client' = [pc |-> "idle", closed |-> TRUE]
          /\ outstanding' = 0
          /\ budgetClosed' = TRUE
          /\ stream' = FALSE
          /\ reply' = IF calls \in Ops /\ outstanding = 1
                      THEN [reply EXCEPT ![calls] = "error"] ELSE reply
          /\ UNCHANGED calls
-----------------------------------------------------------------------------
\* The host: FilesystemBroker.Execute and FilesystemClient.exchange.

BeginOperation(kind, path) ==
    /\ client.pc = "idle" /\ owner = [who |-> "launch", pc |-> "open"]
    /\ client' = [client EXCEPT !.pc = "entered"]
    /\ call' = [kind |-> kind, path |-> path]
    /\ UNCHANGED <<budget, wire, broker, disk, accepted, owner, cleaner, reply, bounds>>

\* A closed client refuses the call and changes nothing; otherwise the budget
\* admits it and the request is sent.
Admit ==
    /\ client.pc = "entered"
    /\ IF client.closed
       THEN /\ client' = [client EXCEPT !.pc = "idle"]
            /\ UNCHANGED <<budget, toBroker>>
       ELSE /\ calls < MaxCalls /\ ~budgetClosed
            /\ calls' = calls + 1 /\ outstanding' = outstanding + 1
            /\ toBroker' = "run"
            /\ client' = [client EXCEPT !.pc = "await"]
            /\ UNCHANGED budgetClosed
    /\ UNCHANGED <<call, toHost, stream, broker, disk, accepted, owner, cleaner, reply, bounds>>

\* Mutant: the record is acknowledged before it is journalled.
ReceiveRecordUnsaved ==
    /\ client.pc = "await" /\ stream /\ toHost = "record"
    /\ toHost' = "none"
    /\ client' = [client EXCEPT !.pc = "ack"]
    /\ UNCHANGED <<call, budget, toBroker, stream, broker, disk, accepted, owner, cleaner, reply, bounds>>

ReceiveRecord ==
    /\ client.pc = "await" /\ stream /\ toHost = "record"
    /\ toHost' = "none"
    /\ client' = [client EXCEPT !.pc = "append"]
    /\ UNCHANGED <<call, budget, toBroker, stream, broker, disk, accepted, owner, cleaner, reply, bounds>>

\* A record is for the unfinished call of an open budget.
matches == ~budgetClosed /\ outstanding = 1 /\ call.kind = "write"

\* appendRecord up to the link of the record's entry.
AppendRecord ==
    /\ client.pc = "append"
    /\ \/ /\ matches
          /\ journal' = journal \cup {calls}
          /\ client' = [client EXCEPT !.pc = "linked"]
          /\ UNCHANGED <<budget, stream, reply>> /\ NoFault
       \/ /\ IF ~matches THEN NoFault ELSE Fault
          /\ Failed /\ UNCHANGED journal
    /\ UNCHANGED <<call, toBroker, toHost, broker, stage, target, published, accepted, owner, cleaner>>

\* The sync of the journal directory: only now is the record the host's own.
SyncRecord ==
    /\ client.pc = "linked"
    /\ \/ /\ accepted' = accepted \cup {calls}
          /\ client' = [client EXCEPT !.pc = "ack"]
          /\ UNCHANGED <<budget, stream, reply>> /\ NoFault
       \/ Fault /\ Failed /\ UNCHANGED accepted
    /\ UNCHANGED <<call, toBroker, toHost, broker, disk, owner, cleaner>>

Acknowledge ==
    /\ client.pc = "ack"
    /\ IF client.closed
       THEN Failed /\ UNCHANGED toBroker
       ELSE /\ toBroker' = "reply"
            /\ client' = [client EXCEPT !.pc = "acked"]
            /\ UNCHANGED <<budget, stream, reply>>
    /\ UNCHANGED <<call, toHost, broker, disk, accepted, owner, cleaner, bounds>>

\* A result that reports failure, or that comes for a write without a record,
\* fails the operation.
ReceiveResult ==
    /\ client.pc \in {"await", "acked"} /\ stream /\ toHost \in {"ok", "error"}
    /\ toHost' = "none"
    /\ IF toHost = "error" \/ (call.kind = "write" /\ client.pc = "await")
       THEN Failed
       ELSE /\ client' = [client EXCEPT !.pc = "settle"]
            /\ UNCHANGED <<budget, stream, reply>>
    /\ UNCHANGED <<call, toBroker, broker, disk, accepted, owner, cleaner, bounds>>

\* A client closed meanwhile drops the response.  The last call of the budget
\* shuts the client down, and an error of the shutdown replaces the response.
Settle ==
    /\ client.pc = "settle"
    /\ LET last == calls = MaxCalls IN
       \/ /\ ~client.closed
          /\ client' = [pc |-> "idle", closed |-> last]
          /\ outstanding' = 0
          /\ budgetClosed' = (budgetClosed \/ last)
          /\ stream' = (stream /\ ~last)
          /\ reply' = [reply EXCEPT ![calls] = "ok"]
          /\ UNCHANGED calls /\ NoFault
       \/ client.closed /\ Failed /\ NoFault
       \/ last /\ ~client.closed /\ Failed /\ Fault
    /\ UNCHANGED <<call, toBroker, toHost, broker, disk, accepted, owner, cleaner>>

\* The stream gives nothing more: it was closed, the broker is gone, or the
\* operation's deadline passed.
Lost ==
    /\ client.pc \in {"await", "acked"}
    /\ IF ~stream \/ (broker = "dead" /\ toHost = "none") THEN NoFault ELSE Fault
    /\ Failed
    /\ UNCHANGED <<call, toBroker, toHost, broker, disk, accepted, owner, cleaner>>

\* The caller's context ends (watchCancellation).  The abort closes the budget,
\* whose mutex an append holds to its end.
Cancel ==
    /\ client.pc \notin {"idle", "gone", "linked"} /\ ~client.closed
    /\ abort
    /\ UNCHANGED <<call, calls, outstanding, toBroker, toHost, broker, disk, accepted, owner, cleaner, reply, bounds>>
-----------------------------------------------------------------------------
\* The broker: LinuxFilesystem.execute and writeJournalled.

\* A reply the broker leaves with: after a failure it exits.
Answer(result) == /\ toHost' = result
                  /\ broker' = IF result = "error" THEN "dead" ELSE "idle"

prepareLinuxWrite == toHost' = "record" /\ broker' = "await"

\* A read is answered at once; a write is staged in an unnamed file and its
\* record sent.
Prepare ==
    /\ broker = "idle" /\ toBroker = "run"
    /\ toBroker' = "none"
    /\ \/ call.kind = "read" /\ Answer("ok") /\ NoFault
       \/ call.kind = "write" /\ prepareLinuxWrite /\ NoFault
       \/ Answer("error") /\ Fault
    /\ UNCHANGED <<client, call, budget, stream, disk, accepted, owner, cleaner, reply>>

\* The prepared file and the target are checked again and the file is linked
\* under the staging name, which must be free.
commit == \/ /\ stage[calls] = NoFile
             /\ stage' = [stage EXCEPT ![calls] = calls]
             /\ broker' = "linked"
             /\ UNCHANGED toHost /\ NoFault
          \/ /\ IF stage[calls] # NoFile THEN NoFault ELSE Fault
             /\ Answer("error") /\ UNCHANGED stage

\* writeJournalled once the acknowledgement comes.
Link ==
    /\ broker = "await" /\ toBroker = "reply"
    /\ toBroker' = "none"
    /\ commit
    /\ UNCHANGED <<client, call, budget, stream, target, journal, published, accepted, owner, cleaner, reply>>

\* Mutant: the error of the rename is dropped.
RenameUnchecked ==
    /\ broker = "linked"
    /\ \/ /\ stage[calls] # NoFile
          /\ target' = [target EXCEPT ![call.path] = stage[calls]]
          /\ stage' = [stage EXCEPT ![calls] = NoFile]
          /\ published' = published \cup {calls}
          /\ broker' = "renamed" /\ NoFault
       \/ /\ IF stage[calls] = NoFile THEN NoFault ELSE Fault
          /\ broker' = "renamed" /\ UNCHANGED <<target, stage, published>>
    /\ UNCHANGED <<client, call, budget, wire, journal, accepted, owner, cleaner, reply>>

Rename ==
    /\ broker = "linked"
    /\ \/ /\ stage[calls] # NoFile
          /\ target' = [target EXCEPT ![call.path] = stage[calls]]
          /\ stage' = [stage EXCEPT ![calls] = NoFile]
          /\ published' = published \cup {calls}
          /\ broker' = "renamed" /\ NoFault
       \/ /\ IF stage[calls] = NoFile THEN NoFault ELSE Fault
          /\ broker' = "unlink" /\ UNCHANGED <<target, stage, published>>
    /\ UNCHANGED <<client, call, budget, wire, journal, accepted, owner, cleaner, reply>>

\* The deferred unlink of publish, after a rename that failed.
UnlinkStaging ==
    /\ broker = "unlink"
    /\ \/ stage' = [stage EXCEPT ![calls] = NoFile] /\ NoFault
       \/ stage[calls] # NoFile /\ UNCHANGED stage /\ Fault
    /\ Answer("error")
    /\ UNCHANGED <<client, call, budget, toBroker, stream, target, journal, published, accepted, owner, cleaner, reply>>

SyncParent ==
    /\ broker = "renamed"
    /\ \/ Answer("ok") /\ NoFault
       \/ Answer("error") /\ Fault
    /\ UNCHANGED <<client, call, budget, toBroker, stream, disk, accepted, owner, cleaner, reply>>

\* Killed with its stream (process.Close, the watchdog), or by a fault.
BrokerDies ==
    /\ broker # "dead"
    /\ IF ~stream THEN NoFault ELSE Fault
    /\ broker' = "dead"
    /\ UNCHANGED <<client, call, budget, wire, disk, accepted, owner, cleaner, reply>>
-----------------------------------------------------------------------------
\* The owner: closeJournalled, called again while it fails.

\* Close lets no further operation in and closes the client, which kills a
\* busy broker and lets an idle one finish.
Close ==
    /\ owner = [who |-> "launch", pc |-> "open"] /\ client.pc # "linked"
    /\ owner' = [owner EXCEPT !.pc = "closing"]
    /\ abort
    /\ UNCHANGED <<call, calls, outstanding, toBroker, toHost, broker, disk, accepted, cleaner, reply, bounds>>

\* Mutant: cleanup starts without waiting for the broker's end.
ReapEarly ==
    /\ owner.pc = "closing"
    /\ client.pc \in {"idle", "gone"} /\ cleaner.pc # "running"
    /\ owner' = [owner EXCEPT !.pc = "reaped"]
    /\ UNCHANGED <<client, call, budget, wire, broker, disk, accepted, cleaner, reply, bounds>>

\* The operations in progress are over and the processes reaped.
Reap ==
    /\ owner.pc = "closing"
    /\ client.pc \in {"idle", "gone"} /\ broker = "dead" /\ cleaner.pc # "running"
    /\ owner' = [owner EXCEPT !.pc = "reaped"]
    /\ UNCHANGED <<client, call, budget, wire, broker, disk, accepted, cleaner, reply, bounds>>

\* recoveryPolicy admits the launch's own records against its budget,
\* checkpointRecoveryPolicy another host's against the limits.
PolicyAdmits ==
    IF owner.who = "launch"
    THEN /\ budgetClosed /\ outstanding = 0
         /\ accepted \subseteq journal
         /\ Cardinality(journal) <= calls /\ journal \subseteq 1..calls
    ELSE accepted \subseteq journal /\ Cardinality(journal) <= MaxCalls

\* recover: an empty journal has nothing to undo; a refused one fails the close.
Recover ==
    /\ owner.pc = "reaped"
    /\ \/ /\ journal = {}
          /\ owner' = [owner EXCEPT !.pc = "complete"]
          /\ UNCHANGED cleaner /\ NoFault
       \/ /\ journal # {} /\ PolicyAdmits
          /\ owner' = [owner EXCEPT !.pc = "recovering"]
          /\ cleaner' = [pc |-> "running", todo |-> journal] /\ NoFault
       \/ /\ IF journal # {} /\ ~PolicyAdmits THEN NoFault ELSE Fault
          /\ owner' = [owner EXCEPT !.pc = "closing"]
          /\ UNCHANGED cleaner
    /\ UNCHANGED <<client, call, budget, wire, broker, disk, accepted, reply>>

\* Mutant: the staging name is unlinked whatever file it holds.
CleanStagingByName ==
    /\ cleaner.pc = "running" /\ cleaner.todo # {}
    /\ LET op == Minimum(cleaner.todo) IN
       \/ /\ stage' = [stage EXCEPT ![op] = NoFile]
          /\ cleaner' = [cleaner EXCEPT !.todo = @ \ {op}] /\ NoFault
       \/ /\ Fault
          /\ cleaner' = [cleaner EXCEPT !.pc = "dead"]
          /\ UNCHANGED stage
    /\ UNCHANGED <<client, call, budget, wire, broker, target, journal, published, accepted, owner, reply>>

\* recoverLinuxStaging for the next record: an absent file is done, a file with
\* the recorded identity is unlinked, any other file ends the recovery.
CleanStaging ==
    /\ cleaner.pc = "running" /\ cleaner.todo # {}
    /\ LET op == Minimum(cleaner.todo) IN
       \/ /\ stage[op] \in {NoFile, op}
          /\ stage' = [stage EXCEPT ![op] = NoFile]
          /\ cleaner' = [cleaner EXCEPT !.todo = @ \ {op}] /\ NoFault
       \/ /\ IF stage[op] \notin {NoFile, op} THEN NoFault ELSE Fault
          /\ cleaner' = [cleaner EXCEPT !.pc = "dead"]
          /\ UNCHANGED stage
    /\ UNCHANGED <<client, call, budget, wire, broker, target, journal, published, accepted, owner, reply>>

CleanerDies ==
    /\ cleaner.pc = "running"
    /\ IF owner.pc # "recovering" THEN NoFault ELSE Fault
    /\ cleaner' = [cleaner EXCEPT !.pc = "dead"]
    /\ UNCHANGED <<client, call, budget, wire, broker, disk, accepted, owner, reply>>

\* Mutant: a failed exchange is not followed by another attempt.
ExchangedOnce ==
    /\ owner.pc = "recovering"
    /\ \/ /\ cleaner.pc = "running" /\ cleaner.todo = {}
          /\ owner' = [owner EXCEPT !.pc = "complete"]
          /\ cleaner' = [cleaner EXCEPT !.pc = "dead"] /\ NoFault
       \/ /\ IF cleaner.pc = "dead" THEN NoFault ELSE Fault
          /\ UNCHANGED <<owner, cleaner>>
    /\ UNCHANGED <<client, call, budget, wire, broker, disk, accepted, reply>>

\* ExchangeFilesystemRecovery: the recovery broker's result, or its failure or
\* the deadline, after which Close is called again.
Exchanged ==
    /\ owner.pc = "recovering"
    /\ \/ /\ cleaner.pc = "running" /\ cleaner.todo = {}
          /\ owner' = [owner EXCEPT !.pc = "complete"]
          /\ cleaner' = [cleaner EXCEPT !.pc = "dead"] /\ NoFault
       \/ /\ IF cleaner.pc = "dead" THEN NoFault ELSE Fault
          /\ owner' = [owner EXCEPT !.pc = "closing"] /\ UNCHANGED cleaner
    /\ UNCHANGED <<client, call, budget, wire, broker, disk, accepted, reply>>

\* The cleaning host dies and its file locks with it; the stream closes.
HostDies ==
    /\ crashes < MaxCrashes /\ crashes' = crashes + 1
    /\ owner.pc \notin {"dead", "complete"}
    /\ owner' = [owner EXCEPT !.pc = "dead"]
    /\ client' = [pc |-> "gone", closed |-> TRUE]
    /\ stream' = FALSE
    /\ UNCHANGED <<call, budget, toBroker, toHost, broker, disk, accepted, cleaner, reply, faults, foreign>>

\* Another host claims the launch: it quiesces the service's group, which ends
\* both brokers, and reads the journal (ServiceRecoveryClaim, load).
Claim ==
    /\ owner.pc = "dead" /\ broker = "dead" /\ cleaner.pc # "running"
    /\ owner' = [who |-> "heir", pc |-> "closing"]
    /\ accepted' = journal
    /\ UNCHANGED <<client, call, budget, wire, broker, disk, cleaner, reply, bounds>>
-----------------------------------------------------------------------------
\* Other programs share the granted directory.  They may change any file, and
\* remove a staging file; the namespace of staging names is random, so none of
\* them makes such a name before the broker is gone.
Touch == foreign < MaxForeign /\ foreign' = foreign + 1 /\ UNCHANGED <<faults, crashes>>

ForeignTarget(path) ==
    /\ Touch
    /\ \E f \in {NoFile, Foreign} : target' = [target EXCEPT ![path] = f]
    /\ UNCHANGED <<client, call, budget, wire, broker, stage, journal, published, accepted, owner, cleaner, reply>>

ForeignStaging(op) ==
    /\ Touch /\ stage[op] # NoFile
    /\ \E f \in {NoFile, Foreign} :
          /\ f = Foreign => broker = "dead"
          /\ stage' = [stage EXCEPT ![op] = f]
    /\ UNCHANGED <<client, call, budget, wire, broker, target, journal, published, accepted, owner, cleaner, reply>>

\* A launch whose cleanup is complete stays as it is.
Complete == owner.pc = "complete" /\ UNCHANGED vars

Execute == \/ \E kind \in {"read", "write"}, path \in Paths : BeginOperation(kind, path)
           \/ Admit \/ ReceiveRecord \/ AppendRecord \/ SyncRecord \/ Acknowledge
           \/ ReceiveResult \/ Settle \/ Lost \/ Cancel
Serve == Prepare \/ Link \/ Rename \/ UnlinkStaging \/ SyncParent \/ BrokerDies
Cleanup == Close \/ Reap \/ Recover \/ CleanStaging \/ CleanerDies \/ Exchanged \/ HostDies \/ Claim
Others == \/ \E path \in Paths : ForeignTarget(path)
          \/ \E op \in Ops : ForeignStaging(op)

Next == Execute \/ Serve \/ Cleanup \/ Others \/ Complete

Spec == Init /\ [][Next]_vars

\* The runtime schedules what is ready: a killed process dies, a lost stream is
\* noticed, a Close that failed is called again, a dead host's launch is found.
Fairness ==
    /\ WF_vars(Admit) /\ WF_vars(AppendRecord \/ SyncRecord) /\ WF_vars(Acknowledge)
    /\ WF_vars(Settle) /\ WF_vars(Lost) /\ WF_vars(BrokerDies)
    /\ WF_vars(Reap) /\ WF_vars(Recover) /\ WF_vars(CleanStaging)
    /\ WF_vars(CleanerDies) /\ WF_vars(Exchanged) /\ WF_vars(Claim)
-----------------------------------------------------------------------------
Files == Ops \cup {NoFile, Foreign}

HostTypeOK ==
    /\ client \in [pc : {"idle", "entered", "await", "append", "linked", "ack", "acked", "settle", "gone"},
                   closed : BOOLEAN]
    /\ call \in [kind : {"read", "write"}, path : Paths]
    /\ calls \in 0..MaxCalls /\ outstanding \in {0, 1} /\ budgetClosed \in BOOLEAN
    /\ reply \in [Ops -> {"none", "ok", "error"}]

BrokerTypeOK ==
    /\ toBroker \in {"none", "run", "reply"}
    /\ toHost \in {"none", "record", "ok", "error"}
    /\ stream \in BOOLEAN
    /\ broker \in {"idle", "await", "linked", "renamed", "unlink", "dead"}

DiskTypeOK ==
    /\ stage \in [Ops -> Files] /\ target \in [Paths -> Files]
    /\ journal \subseteq Ops /\ published \subseteq Ops /\ accepted \subseteq Ops

OwnerTypeOK ==
    /\ owner \in [who : {"launch", "heir"},
                  pc : {"open", "closing", "reaped", "recovering", "complete", "dead"}]
    /\ cleaner \in [pc : {"none", "running", "dead"}, todo : SUBSET Ops]
    /\ faults \in 0..MaxFaults /\ crashes \in 0..MaxCrashes /\ foreign \in 0..MaxForeign

\* Every variable has its type.
TypeOK == HostTypeOK /\ BrokerTypeOK /\ DiskTypeOK /\ OwnerTypeOK

\* "Before replacing a file, the broker saves a recovery record": a staged file
\* never has a name in the granted directory, staging or target, before its
\* record is in the journal, whoever dies when.
WriteAhead ==
    \A op \in Ops :
        stage[op] = op \/ (\E p \in Paths : target[p] = op) => op \in journal

\* A cleanup that reports completion leaves no staging file of the launch, and
\* none appears afterwards: no broker is left that could still link one.
CleanupComplete ==
    owner.pc = "complete" => \A op \in Ops : stage[op] # op

\* A write that Execute reports as done has replaced its target.
DoneIsPublished ==
    \A op \in Ops : reply[op] = "ok" /\ op \in journal => op \in published

\* The journal a cleanup finds is always one its policy admits: the budget is
\* closed and settled, and no record is beyond the calls it admitted.  Else the
\* staging files could never be removed.
RecoveryAdmitted == owner.pc = "reaped" /\ journal # {} => PolicyAdmits

\* Cleanup "leaves unrelated files alone": a file of another program that has
\* a staging name stays until another program changes it.
SparesOthers ==
    [][\A op \in Ops : stage[op] = Foreign => stage'[op] = Foreign \/ foreign' # foreign]_vars

\* A launch that is closed or whose host died is cleaned up in the end, unless
\* another program put a file of its own under a staging name.
CleanedUp ==
    owner.pc \in {"closing", "dead"}
        ~> owner.pc = "complete" \/ \E op \in Ops : stage[op] = Foreign
=============================================================================
