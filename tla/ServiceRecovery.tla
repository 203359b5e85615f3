--------------------------- MODULE ServiceRecovery ---------------------------
(***************************************************************************)
(* One isolated launch and its recovery after a crash (internal/           *)
(* sandboxhost, sandboxlinux).  A launching host creates a launch record   *)
(* and a service cgroup named after the tenant, seals the record with a    *)
(* checkpoint and an approval, starts processes and cleans up; it may die  *)
(* between any two of these.  Recovering hosts then claim the record       *)
(* (ServiceRecoveryClaim), bring the launch's resources down and remove    *)
(* the record; they may fail, retry, give up or die at any point, and a    *)
(* later launch of the tenant may take the name of the cgroup again.       *)
(*                                                                         *)
(* journalled = FALSE is the worker path (linuxIsolatedRecovery), TRUE the *)
(* filesystem path (linuxFilesystemRecovery).  A method of the claim holds *)
(* its mutex throughout and no other process touches the resources of a    *)
(* claimed launch, so a method is one step; a fault in the middle of it is *)
(* one of the outcomes of the step, with whatever it had done by then.     *)
(***************************************************************************)
EXTENDS Integers

CONSTANTS
    Hosts,       \* processes that run recovery
    Journals,    \* the launches: with a filesystem journal (TRUE), without (FALSE)
    MaxRecoveryFaults,   \* bound: failed system calls and expired contexts
    MaxRecoveryCrashes   \* bound: recovering processes killed half way

ASSUME RecoveryAssumption ==
    /\ Journals \subseteq BOOLEAN
    /\ Hosts \cap {"none", "launcher"} = {}
    /\ {MaxRecoveryFaults, MaxRecoveryCrashes} \subseteq Nat

VARIABLES
    journalled,          \* does the launch have a filesystem journal?
    launcher,            \* the launching host's place
    record,              \* the launch record: "absent", "partial" or "sealed"
    group,               \* the tenant's cgroup: whose it is and what it holds
    images, staging,     \* are executable copies, staging files left?
    ready,               \* the durable release-ready marker
    lock,                \* the process that holds the record's file locks
    claim,               \* per host: its ServiceRecoveryClaim and handle
    recoveryFaults, recoveryCrashes   \* used up so far

recoveryDisk == <<record, group, images, staging, ready>>
recoveryBounds == <<recoveryFaults, recoveryCrashes>>
recoveryVars == <<journalled, launcher, recoveryDisk, lock, claim, recoveryBounds>>

NoHost == "none"
NoGroup == [owner |-> "none", fill |-> "empty"]

\* The claim a constructor returns, and the phase its first Recover starts in.
NewClaim == [pc |-> "handle", phase |-> "claimed", pinned |-> FALSE, store |-> FALSE,
             process |-> FALSE, pending |-> FALSE, quiesced |-> FALSE,
             recovering |-> FALSE, recovered |-> FALSE, releaseStarted |-> FALSE,
             poisoned |-> FALSE, closed |-> FALSE, released |-> FALSE, spoilt |-> FALSE]

NoClaim == [NewClaim EXCEPT !.pc = "idle"]

RecoveryInit == /\ journalled \in Journals
                /\ launcher = "start"
                /\ record = "absent" /\ group = NoGroup
                /\ images = FALSE /\ staging = FALSE /\ ready = FALSE
                /\ lock = NoHost
                /\ claim = [h \in Hosts |-> NoClaim]
                /\ recoveryFaults = 0 /\ recoveryCrashes = 0

Alive == launcher \notin {"dead", "gone"}
-----------------------------------------------------------------------------
\* The launch: the worker path makes the record first, the filesystem path the
\* group; the checkpoint is sealed before the first process starts.
CreateRecord ==
    /\ launcher = IF journalled THEN "group" ELSE "start"
    /\ record' = "partial"
    /\ launcher' = IF journalled THEN "both" ELSE "record"
    /\ UNCHANGED <<group, images, staging, ready, lock, claim, recoveryBounds, journalled>>

NewServiceGroup ==
    /\ launcher = IF journalled THEN "start" ELSE "record"
    /\ group = NoGroup
    /\ group' = [owner |-> "original", fill |-> "empty"]
    /\ launcher' = IF journalled THEN "group" ELSE "both"
    /\ UNCHANGED <<record, images, staging, ready, lock, claim, recoveryBounds, journalled>>

PersistLaunchCheckpoint ==
    /\ launcher = "both"
    /\ record' = "sealed"
    /\ lock' = "launcher"
    /\ launcher' = "sealed"
    /\ UNCHANGED <<group, images, staging, ready, claim, recoveryBounds, journalled>>

StartProcesses ==
    /\ launcher = "sealed"
    /\ images' = TRUE
    /\ group' = [group EXCEPT !.fill = "busy"]
    /\ launcher' = "running"
    /\ UNCHANGED <<record, staging, ready, lock, claim, recoveryBounds, journalled>>

\* A journalled write is under way in the broker.
BeginWrite ==
    /\ journalled /\ launcher = "running"
    /\ staging' = TRUE
    /\ UNCHANGED <<launcher, record, group, images, ready, lock, claim, recoveryBounds, journalled>>

\* Close, or a launch that failed at any point, starts the cleanup.
BeginClose ==
    /\ launcher \in {"record", "group", "both", "sealed", "running"}
    /\ launcher' = "closing"
    /\ UNCHANGED <<recoveryDisk, lock, claim, recoveryBounds, journalled>>

\* cleanup: processes and their groups, executable copies, staging files, and
\* only then the service group.
CleanupProcesses ==
    /\ launcher = "closing"
    /\ group.fill # "empty"
    /\ group' = [group EXCEPT !.fill = "empty"]
    /\ UNCHANGED <<launcher, record, images, staging, ready, lock, claim, recoveryBounds, journalled>>

CleanupFiles ==
    /\ launcher = "closing" /\ group.fill = "empty"
    /\ \/ images /\ images' = FALSE /\ UNCHANGED staging
       \/ staging /\ staging' = FALSE /\ UNCHANGED images
    /\ UNCHANGED <<launcher, record, group, ready, lock, claim, recoveryBounds, journalled>>

\* closeJournalled closes the stores, and with them the locks, before the
\* image store and the group; a worker closes its checkpoint after the group.
CloseStores ==
    /\ journalled /\ launcher = "closing" /\ group.fill = "empty"
    /\ ~staging /\ lock = "launcher"
    /\ lock' = NoHost
    /\ UNCHANGED <<launcher, recoveryDisk, claim, recoveryBounds, journalled>>

CleanupGroup ==
    /\ launcher = "closing" /\ group.fill = "empty"
    /\ ~images /\ ~staging
    /\ journalled => lock # "launcher"
    /\ group' = IF group.owner = "original" THEN NoGroup ELSE group
    /\ lock' = IF lock = "launcher" THEN NoHost ELSE lock
    /\ launcher' = "released"
    /\ UNCHANGED <<record, images, staging, ready, claim, recoveryBounds, journalled>>

\* record.remove is os.RemoveAll: it can be cut off between two entries.
Unlinked == CASE record = "sealed" -> "partial"
              [] OTHER -> "absent"

\* Mutant of RemoveOwnRecord: Released() is not asked.
RemoveOwnRecordEarly ==
    /\ launcher \in {"closing", "released"}
    /\ record' = Unlinked
    /\ launcher' = IF record' = "absent" THEN "gone" ELSE launcher
    /\ UNCHANGED <<group, images, staging, ready, lock, claim, recoveryBounds, journalled>>

RemoveOwnRecord ==
    /\ launcher = "released"
    /\ record' = Unlinked
    /\ launcher' = IF record' = "absent" THEN "gone" ELSE launcher
    /\ UNCHANGED <<group, images, staging, ready, lock, claim, recoveryBounds, journalled>>

LaunchHostDies ==
          /\ Alive
          /\ launcher' = "dead"
          /\ lock' = IF lock = "launcher" THEN NoHost ELSE lock
          /\ UNCHANGED <<recoveryDisk, claim, recoveryBounds, journalled>>

\* Without the host that started them, the watchdog ends the processes.
WatchdogKills ==
    /\ launcher = "dead"
    /\ group.owner = "original" /\ group.fill = "busy"
    /\ group' = [group EXCEPT !.fill = "nested"]
    /\ UNCHANGED <<launcher, record, images, staging, ready, lock, claim, recoveryBounds, journalled>>

\* A later launch of the tenant takes the name of the cgroup, and leaves it.
LaterLaunch ==
    /\ launcher \in {"released", "gone", "dead"}
    /\ group.owner = "none"
    /\ group' = [owner |-> "later", fill |-> "busy"]
    /\ UNCHANGED <<launcher, record, images, staging, ready, lock, claim, recoveryBounds, journalled>>

LaterLaunchEnds ==
    /\ group.owner = "later"
    /\ group' = NoGroup
    /\ UNCHANGED <<launcher, record, images, staging, ready, lock, claim, recoveryBounds, journalled>>

Launch == \/ CreateRecord \/ NewServiceGroup \/ PersistLaunchCheckpoint
          \/ StartProcesses \/ BeginWrite \/ BeginClose
          \/ CleanupProcesses \/ CleanupFiles \/ CloseStores \/ CleanupGroup
          \/ RemoveOwnRecord
          \/ LaunchHostDies \/ WatchdogKills \/ LaterLaunch \/ LaterLaunchEnds
-----------------------------------------------------------------------------
RecoveryFault == /\ recoveryFaults < MaxRecoveryFaults
                 /\ recoveryFaults' = recoveryFaults + 1
                 /\ UNCHANGED recoveryCrashes
NoRecoveryFault == UNCHANGED recoveryBounds

Put(h, c) == claim' = [claim EXCEPT ![h] = c]

\* Recover returns an error; the handle keeps the claim as it is.
Errs(h, c) == Put(h, [c EXCEPT !.pc = "handle"])

At(h, phase) == claim[h].pc = "recovering" /\ claim[h].phase = phase

\* Mutant of Original: the group is recognised by its name alone.
OriginalByName == group.owner # "none"

\* The cgroup under the recorded name has the recorded identity.
Original == group.owner = "original"

Killed == [group EXCEPT !.fill = IF @ = "busy" THEN "nested" ELSE @]
Pruned == [group EXCEPT !.fill = "empty"]

\* prepareFilesystemRecovery goes through: original and without processes.
Prepared == Original /\ group.fill # "busy"

\* The constructor claims a sealed record whose locks are free and whose host
\* is dead; it skips one that is locked or whose host lives.  A record without
\* an approval fails the constructor, which changes nothing.
Construct(h) ==
    /\ claim[h].pc = "idle"
    /\ record = "sealed" /\ lock = NoHost /\ ~Alive
    /\ lock' = h
    /\ Put(h, NewClaim)
    /\ UNCHANGED <<launcher, recoveryDisk, recoveryBounds, journalled>>

\* Recover: the worker path starts over, the filesystem path resumes its phase.
RecoverHandle(h) ==
          LET c == claim[h]
          IN /\ c.pc = "handle"
             /\ journalled => c.phase # "complete"
             /\ Put(h, [c EXCEPT !.pc = "recovering", !.phase = IF journalled THEN @ ELSE "claimed"])
             /\ UNCHANGED <<launcher, recoveryDisk, lock, recoveryBounds, journalled>>

\* A method fails before it has done anything, for example on its context.
Interrupted(h) ==
    /\ claim[h].pc = "recovering"
    /\ RecoveryFault
    /\ Errs(h, claim[h])
    /\ UNCHANGED <<launcher, recoveryDisk, lock, journalled>>
-----------------------------------------------------------------------------
\* Mutant of Resumable: the marker is not looked at.
ResumableNever == FALSE

\* Only the filesystem path asks for the marker before it begins.
Resumable == journalled /\ ready

\* selectRecoveryPhase: a recorded marker leads to ResumeRelease; a record
\* that another host is removing cannot be read.
SelectPhase(h) ==
    LET c == claim[h]
    IN /\ journalled /\ At(h, "claimed")
       /\ \/ record # "sealed" /\ Errs(h, c)
          \/ record = "sealed" /\ Resumable /\ Put(h, [c EXCEPT !.phase = "resume"])
       /\ UNCHANGED <<launcher, recoveryDisk, lock, recoveryBounds, journalled>>

\* Quiesce: pin the group by identity, kill it and wait until it is empty.
Quiesce(h) ==
    LET c == claim[h]
        pinned == [c EXCEPT !.pinned = TRUE]
    IN /\ At(h, "claimed")
       /\ journalled => record = "sealed" /\ ~Resumable
       /\ IF c.closed \/ c.process \/ ~(c.pinned \/ Original)
            THEN Errs(h, c) /\ NoRecoveryFault /\ UNCHANGED group
            ELSE \/ /\ NoRecoveryFault
                    /\ group' = Killed
                    /\ Put(h, [pinned EXCEPT !.pending = FALSE, !.quiesced = TRUE,
                                  !.phase = IF journalled THEN "images" ELSE "prune"])
                 \/ /\ RecoveryFault
                    /\ \/ /\ group' \in {group, Killed}
                          /\ Errs(h, [pinned EXCEPT !.pending = TRUE, !.quiesced = FALSE])
                       \/ /\ group' = Killed
                          /\ Errs(h, [pinned EXCEPT !.pending = FALSE, !.quiesced = TRUE])
       /\ UNCHANGED <<launcher, record, images, staging, ready, lock, journalled>>

\* Prune: remove the empty groups of the launch's processes.
Prune(h) ==
    LET c == claim[h]
    IN /\ At(h, "prune")
       /\ IF Prepared
            THEN \/ /\ NoRecoveryFault
                    /\ group' = Pruned
                    /\ Put(h, [c EXCEPT !.pending = FALSE, !.phase = "images"])
                 \/ /\ RecoveryFault
                    /\ group' \in {group, Pruned}
                    /\ Errs(h, [c EXCEPT !.pending = TRUE])
            ELSE Errs(h, [c EXCEPT !.pending = TRUE]) /\ NoRecoveryFault /\ UNCHANGED group
       /\ UNCHANGED <<launcher, record, images, staging, ready, lock, journalled>>

\* checkImageRecoveryAdmission.
ImagesAdmitted(c) == /\ ~c.closed /\ ~c.releaseStarted /\ ~c.recovering /\ ~c.recovered
                     /\ ~c.process /\ c.pinned /\ c.quiesced
                     /\ record = "sealed" /\ ~ready

\* RecoverImages: remove the executable copies; this is all that the worker
\* path has to recover.
RecoverImages(h) ==
    LET c == claim[h]
        opened == [c EXCEPT !.store = TRUE]
    IN /\ At(h, "images")
       /\ IF ImagesAdmitted(c) /\ Prepared
            THEN \/ /\ NoRecoveryFault
                    /\ group' = Pruned /\ images' = FALSE
                    /\ Put(h, [opened EXCEPT !.pending = FALSE, !.recovered = ~journalled,
                                  !.phase = IF journalled THEN "cleanup" ELSE "release"])
                 \/ /\ RecoveryFault
                    /\ group' \in {group, Pruned}
                    /\ \/ Errs(h, c) /\ UNCHANGED images
                       \/ Errs(h, opened) /\ UNCHANGED images
                       \/ Errs(h, [opened EXCEPT !.pending = TRUE]) /\ images' \in {images, FALSE}
            ELSE Errs(h, c) /\ NoRecoveryFault /\ UNCHANGED <<group, images>>
       /\ UNCHANGED <<launcher, record, staging, ready, lock, journalled>>
-----------------------------------------------------------------------------
\* checkFilesystemRecoveryAdmission; what it admits first reaps the helper of
\* an earlier attempt.
FilesystemAdmitted(c) == /\ ~c.closed /\ ~c.releaseStarted /\ c.pinned /\ c.store
                         /\ c.recovering \/ (c.quiesced /\ ~c.pending)
                         /\ record = "sealed" /\ ~ready
                         /\ Original /\ (c.process \/ group.fill # "busy")

\* The claim after RecoverFilesystem succeeded.
FilesystemRecovered(c) ==
    [c EXCEPT !.process = FALSE, !.recovering = FALSE, !.pending = FALSE,
              !.recovered = TRUE, !.quiesced = TRUE, !.phase = "release"]

\* A fault during RecoverFilesystem: before the helper was launched, or with
\* the helper's process, group and executable copy left to be reaped.
FilesystemFault(h, c) ==
    LET begun == [c EXCEPT !.recovering = TRUE, !.pending = TRUE, !.recovered = FALSE]
    IN \/ Errs(h, begun) /\ UNCHANGED <<group, images, staging>>
       \/ /\ Errs(h, [begun EXCEPT !.process = FALSE, !.quiesced = FALSE])
          /\ group' = Pruned /\ images' = FALSE /\ UNCHANGED staging
       \/ /\ Errs(h, [begun EXCEPT !.process = TRUE, !.quiesced = FALSE])
          /\ group' \in {[group EXCEPT !.fill = f] : f \in {"busy", "nested"}}
          /\ images' \in BOOLEAN
          /\ staging' \in {staging, FALSE}

\* Mutant of RecoverFilesystem: the helper's error is dropped.
RecoverFilesystemBlindly(h) ==
    LET c == claim[h]
    IN /\ At(h, "cleanup")
       /\ NoRecoveryFault
       /\ group' = Pruned /\ images' = FALSE /\ staging' \in {staging, FALSE}
       /\ Put(h, FilesystemRecovered(c))
       /\ UNCHANGED <<launcher, record, ready, lock, journalled>>

\* RecoverFilesystem: a confined helper removes the journalled staging files.
RecoverFilesystem(h) ==
    LET c == claim[h]
    IN /\ At(h, "cleanup")
       /\ IF FilesystemAdmitted(c)
            THEN \/ /\ NoRecoveryFault
                    /\ group' = Pruned /\ images' = FALSE /\ staging' = FALSE
                    /\ Put(h, FilesystemRecovered(c))
                 \/ RecoveryFault /\ FilesystemFault(h, c)
            ELSE Errs(h, c) /\ NoRecoveryFault /\ UNCHANGED <<group, images, staging>>
       /\ UNCHANGED <<launcher, record, ready, lock, journalled>>
-----------------------------------------------------------------------------
\* finishRelease: the claim and its locks are gone, the record is not.
Released(c) == [c EXCEPT !.pinned = FALSE, !.releaseStarted = TRUE, !.pending = FALSE,
                         !.closed = TRUE, !.released = TRUE]

\* release: close the image store, record the marker, remove the group.  A
\* marker whose write failed cannot be written again by this claim.
TearDown(h, c) ==
    LET pending == [c EXCEPT !.pending = TRUE]
        started == [pending EXCEPT !.releaseStarted = TRUE]
    IN \/ /\ NoRecoveryFault
          /\ group' = NoGroup /\ ready' = TRUE /\ lock' = NoHost
          /\ Put(h, [Released(c) EXCEPT !.phase = "complete"])
       \/ /\ RecoveryFault
          /\ group' \in {group, Pruned} /\ UNCHANGED <<ready, lock>>
          /\ Errs(h, pending)
       \/ /\ RecoveryFault
          /\ group' = Pruned /\ ready' \in {ready, TRUE} /\ UNCHANGED lock
          /\ Errs(h, [started EXCEPT !.poisoned = @ \/ ~ready])
       \/ /\ RecoveryFault
          /\ group' = Pruned /\ ready' = TRUE /\ UNCHANGED lock
          /\ Errs(h, started)
       \/ /\ RecoveryFault
          /\ group' = NoGroup /\ ready' = TRUE /\ lock' = NoHost
          /\ Errs(h, [Released(c) EXCEPT !.spoilt = TRUE])

Release(h) ==
    LET c == claim[h]
    IN /\ At(h, "release")
       /\ IF /\ ~c.closed /\ c.recovered /\ ~c.recovering /\ ~c.process
             /\ c.pinned /\ c.quiesced
             /\ Prepared
             /\ c.releaseStarted \/ (c.store /\ ~images)
             /\ record = "sealed" /\ (ready \/ ~c.poisoned)
            THEN TearDown(h, c)
            ELSE Errs(h, c) /\ NoRecoveryFault /\ UNCHANGED <<group, ready, lock>>
       /\ UNCHANGED <<launcher, record, images, staging, journalled>>

\* ResumeRelease: the marker says that only the group can be left; a group of
\* that name with another identity belongs to a later launch.
ResumeRelease(h) ==
    LET c == claim[h]
        resumed == [c EXCEPT !.pinned = TRUE, !.releaseStarted = TRUE, !.recovered = TRUE,
                             !.quiesced = TRUE]
    IN /\ At(h, "resume")
       /\ IF c.closed \/ record # "sealed" \/ ~ready
            THEN Errs(h, c) /\ NoRecoveryFault /\ UNCHANGED <<group, ready, lock>>
          ELSE IF ~c.pinned /\ ~Original
            THEN /\ NoRecoveryFault
                 /\ lock' = NoHost /\ UNCHANGED <<group, ready>>
                 /\ Put(h, [Released(c) EXCEPT !.phase = "complete"])
          ELSE IF Prepared
            THEN TearDown(h, resumed)
            ELSE /\ NoRecoveryFault /\ UNCHANGED <<group, ready, lock>>
                 /\ Errs(h, [c EXCEPT !.releaseStarted = TRUE])
       /\ UNCHANGED <<launcher, record, images, staging, journalled>>

\* record.remove after the release; its locks are already free.
RemoveRecord(h) ==
    LET c == claim[h]
    IN /\ At(h, "complete")
       /\ record' = Unlinked
       /\ Put(h, IF record' = "absent" THEN NoClaim ELSE c)
       /\ UNCHANGED <<launcher, group, images, staging, ready, lock, recoveryBounds, journalled>>

\* Close: refused while cleanup is half done; it frees the locks otherwise.
CloseHandle(h) ==
    LET c == claim[h]
    IN /\ c.pc = "handle"
       /\ IF c.closed THEN ~c.spoilt
                      ELSE ~c.pending /\ ~c.recovering /\ ~c.process /\ (c.store => ~images)
       /\ Put(h, NoClaim)
       /\ lock' = IF lock = h THEN NoHost ELSE lock
       /\ UNCHANGED <<launcher, recoveryDisk, recoveryBounds, journalled>>

\* The recovering process ends: after a failed attempt, or killed during one.
Exit(h) ==
    /\ claim[h].pc = "handle"
    /\ Put(h, NoClaim)
    /\ lock' = IF lock = h THEN NoHost ELSE lock
    /\ UNCHANGED <<launcher, recoveryDisk, recoveryBounds, journalled>>

Crash(h) ==
    /\ claim[h].pc = "recovering"
    /\ recoveryCrashes < MaxRecoveryCrashes
    /\ recoveryCrashes' = recoveryCrashes + 1
    /\ Put(h, NoClaim)
    /\ lock' = IF lock = h THEN NoHost ELSE lock
    /\ UNCHANGED <<launcher, recoveryDisk, recoveryFaults, journalled>>

Attempt(h) == \/ SelectPhase(h) \/ Quiesce(h) \/ Prune(h) \/ RecoverImages(h)
              \/ RecoverFilesystem(h) \/ Release(h) \/ ResumeRelease(h)
              \/ RemoveRecord(h)

\* The launch is over and nothing is left of it.
Finished == launcher \in {"gone", "dead"} /\ UNCHANGED recoveryVars

RecoveryNext == \/ Launch
                \/ \E h \in Hosts : \/ Construct(h) \/ RecoverHandle(h)
                                     \/ Attempt(h) \/ Interrupted(h)
                                     \/ CloseHandle(h) \/ Exit(h) \/ Crash(h)
                \/ Finished

RecoverySpec == RecoveryInit /\ [][RecoveryNext]_recoveryVars
-----------------------------------------------------------------------------
\* Recovery is run again while a sealed record is there, a handle is used and
\* not only opened and closed, an attempt runs on, and no process keeps a
\* failing handle for ever: "pipit isolated recover" makes one attempt and exits.
RecoveryFairness == /\ WF_recoveryVars(WatchdogKills)
                    /\ \A h \in Hosts : WF_recoveryVars(Construct(h)) /\ SF_recoveryVars(RecoverHandle(h))
                                      /\ WF_recoveryVars(Attempt(h)) /\ SF_recoveryVars(Exit(h))

RecoveryFairSpec == RecoverySpec /\ RecoveryFairness

Phases == {"claimed", "prune", "images", "cleanup", "release", "resume", "complete"}

\* The claim is open exactly while it holds the record's locks, and each flag
\* of the claim has its range.
RecoveryTypeOK ==
    /\ record \in {"absent", "partial", "sealed"}
    /\ group \in [owner : {"none", "original", "later"}, fill : {"empty", "nested", "busy"}]
    /\ {journalled, images, staging, ready} \subseteq BOOLEAN
    /\ recoveryFaults \in 0..MaxRecoveryFaults /\ recoveryCrashes \in 0..MaxRecoveryCrashes
    /\ \A h \in Hosts :
          /\ claim[h].pc \in {"idle", "handle", "recovering"}
          /\ claim[h].phase \in Phases
          /\ lock = h <=> claim[h].pc # "idle" /\ ~claim[h].closed

\* Recovery leaves a launch alone while its host lives (verifyRecoveryHost),
\* also in the time between the host's giving up its locks and its end.
SparesLiveHost == [][claim' # claim /\ Alive => recoveryDisk' = recoveryDisk]_recoveryVars

\* Recovery never kills or removes the group of a later launch that took the
\* same name (matchRecoveryService, matchReadyRecoveryService).
SparesLaterLaunch == [][claim' # claim /\ group.owner = "later" => group' = group]_recoveryVars

\* Values keep their types, and the release-ready marker is only there when
\* nothing but an empty group can be left: ResumeRelease relies on it after any
\* sequence of crashes (release).
MarkerSound ==
    /\ RecoveryTypeOK
    /\ ready => ~images /\ ~staging /\ ~(Original /\ group.fill = "busy")

\* A sealed record is only taken apart when nothing is left that it would be
\* needed for, by the launching host and by recovery (Close, recoverRecord).
RecordRemovedLast ==
    [][record = "sealed" /\ record' # "sealed" => group.owner # "original" /\ ~images /\ ~staging]_recoveryVars

\* Recovery touches nothing that is not a dead launch's, neither what a living
\* host launched nor what a later launch put under the same name, and gives up
\* the record of a launch last.
RecoveryCareful == SparesLiveHost /\ SparesLaterLaunch /\ RecordRemovedLast

\* Once recovery has claimed a launch, its processes, group, executable copies
\* and staging files are eventually gone, whatever fails and whoever crashes in
\* between: "If recovery fails, keep the recovery handle and retry"
\* (docs/isolated-execution.md:202).
ResourcesReclaimed ==
    (\E h \in Hosts : lock = h) ~> (group.owner # "original" /\ ~images /\ ~staging)

\* The same of a launch with a journal, whose recovery can resume a release that
\* failed half way (linuxFilesystemRecoveryRecord.recover).
FilesystemReclaimed ==
    (journalled /\ \E h \in Hosts : lock = h) ~> (group.owner # "original" /\ ~images /\ ~staging)
=============================================================================
