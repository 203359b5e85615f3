---------------------------- MODULE ApprovalStore ----------------------------
(***************************************************************************)
(* The approval file of cmd/pipit/internal/modloader.  Each gated run of   *)
(* the command loads the file, binds it to its script, collects the        *)
(* operator's approvals in memory and saves them when the script ends.     *)
(* Several runs share one file; a process or the machine may die at any    *)
(* step, and the operator may remove the file.                             *)
(***************************************************************************)
EXTENDS Naturals, FiniteSets

CONSTANTS Runners,     \* processes; each performs one run at a time
          Scripts,     \* script path and identity, as one value
          Claims,      \* a module path with a capability and its scope
          MaxRuns      \* bound: runs started

ASSUME ApprovalBounds == MaxRuns \in Nat /\ "free" \notin Runners

\* LockfileSchema, and the one before it whose approvals do not carry over.
CurrentSchema == 2
OlderSchema == 1

NoFile == [script |-> "none", claims |-> {}, schema |-> 0, stamp |-> 0]

NewStore == [script |-> "none", claims |-> {}, dirty |-> FALSE, revision |-> NoFile]

VARIABLES file,      \* the published file; its stamp tells two publications apart
          synced,    \* the file a machine that stops now may come back with
          guard,     \* the runner whose descriptor holds the flock, or "free"
          runner,    \* per process: its step, its Store, and what its operator approved
          runs,      \* runs started so far
          stamps     \* publications so far; GeneratedAt makes their bytes distinct

approvalVars == <<file, synced, guard, runner, runs, stamps>>

Idle == [step |-> "out", store |-> NewStore, approved |-> {}]

ApprovalInit ==
    /\ file \in {NoFile} \cup [script : Scripts, claims : SUBSET Claims,
                               schema : {OlderSchema, CurrentSchema}, stamp : {0}]
    /\ synced = file
    /\ guard = "free"
    /\ runner = [r \in Runners |-> Idle]
    /\ runs = 0
    /\ stamps = 0

Proceeds(r, step) == runner' = [runner EXCEPT ![r].step = step]

\* Store.Load: what a file of an older schema approved is dropped.
Loaded ==
    [script |-> file.script, claims |-> IF file.schema = CurrentSchema THEN file.claims ELSE {},
     dirty |-> FALSE, revision |-> file]

\* Store.SetScript: another script, or another version of it, has no approvals.
Bound(store, script) ==
    IF store.script = script
    THEN store
    ELSE [store EXCEPT !.script = script, !.claims = {}, !.dirty = TRUE]

\* capabilityGateOptions: load and bind; the revision is that of the bytes read.
StartRun(r, script) ==
    /\ runner[r].step = "out"
    /\ runs < MaxRuns
    /\ runs' = runs + 1
    /\ runner' = [runner EXCEPT ![r] = [step |-> "running", store |-> Bound(Loaded, script),
                                        approved |-> {}]]
    /\ UNCHANGED <<file, synced, guard, stamps>>

\* Store.Upsert of the module with one claim more.
Approved(store, claim) == [store EXCEPT !.claims = @ \cup {claim}, !.dirty = TRUE]

\* consult, promptAndPersist and recordApproval, under the hook's mutex: a
\* claim that is not approved yet is put to the operator, who approves it.
Consult(r, claim) ==
    /\ runner[r].step = "running"
    /\ claim \notin runner[r].store.claims
    /\ runner' = [runner EXCEPT ![r].store = Approved(@, claim),
                                ![r].approved = @ \cup {claim}]
    /\ UNCHANGED <<file, synced, guard, runs, stamps>>

\* The run ends; Save has nothing to do, fails before the guard, meets another
\* holder of it, or takes it.
BeginSave(r) ==
    /\ runner[r].step = "running"
    /\ \/ Proceeds(r, "out") /\ UNCHANGED guard
       \/ /\ runner[r].store.dirty /\ guard = "free"
          /\ guard' = r
          /\ Proceeds(r, "guarded")
    /\ UNCHANGED <<file, synced, runs, stamps>>

\* Mutant of RevisionHeld: only the presence of the file is compared.
PresenceHeld(r) == (file = NoFile) = (runner[r].store.revision = NoFile)

\* checkApprovalRevision: the file is the one this store loaded, or is still absent.
RevisionHeld(r) == file = runner[r].store.revision

CheckRevision(r) ==
    /\ runner[r].step = "guarded"
    /\ \/ RevisionHeld(r) /\ Proceeds(r, "checked")
       \/ Proceeds(r, "closing")                     \* changed, or unreadable
    /\ UNCHANGED <<file, synced, guard, runs, stamps>>

\* publishApprovalFile to the rename: the temporary file is complete and synced
\* before it takes the name, or the attempt fails and leaves the file alone.
Rename(r) ==
    /\ runner[r].step = "checked"
    /\ \/ /\ stamps' = stamps + 1
          /\ file' = [script |-> runner[r].store.script, claims |-> runner[r].store.claims,
                      schema |-> CurrentSchema, stamp |-> stamps']
          /\ Proceeds(r, "renamed")
       \/ Proceeds(r, "closing") /\ UNCHANGED <<file, stamps>>
    /\ UNCHANGED <<synced, guard, runs>>

\* syncApprovalDirectory: a failure is reported although the name has moved.
SyncDirectory(r) ==
    /\ runner[r].step = "renamed"
    /\ synced' = file \/ UNCHANGED synced
    /\ Proceeds(r, "closing")
    /\ UNCHANGED <<file, guard, runs, stamps>>

\* approvalGuard.Close, and the process with it.
CloseGuard(r) ==
    /\ runner[r].step = "closing"
    /\ guard' = "free"
    /\ runner' = [runner EXCEPT ![r] = Idle]
    /\ UNCHANGED <<file, synced, runs, stamps>>

\* The process dies: the kernel releases its lock, the temporary stays behind.
RunnerDies(r) ==
    /\ runner[r].step # "out"
    /\ runner' = [runner EXCEPT ![r] = Idle]
    /\ guard' = IF guard = r THEN "free" ELSE guard
    /\ UNCHANGED <<file, synced, runs, stamps>>

\* The machine stops and comes back with the name as it was last synced or as
\* it was last set.
MachineStops ==
    /\ file' \in {file, synced}
    /\ synced' = file'
    /\ guard' = "free"
    /\ runner' = [r \in Runners |-> Idle]
    /\ UNCHANGED <<runs, stamps>>

\* The operator withdraws every approval by removing the file.
RemoveFile ==
    /\ file # NoFile
    /\ file' = NoFile /\ synced' = NoFile
    /\ UNCHANGED <<guard, runner, runs, stamps>>

ApprovalNext ==
    \/ \E r \in Runners :
          \/ \E script \in Scripts : StartRun(r, script)
          \/ \E claim \in Claims : Consult(r, claim)
          \/ BeginSave(r) \/ CheckRevision(r) \/ Rename(r) \/ SyncDirectory(r) \/ CloseGuard(r)
          \/ RunnerDies(r)
    \/ MachineStops
    \/ RemoveFile

ApprovalSpec == ApprovalInit /\ [][ApprovalNext]_approvalVars

-----------------------------------------------------------------------------

\* What a file approves for a script.
Approves(f, script) ==
    IF f.script = script /\ f.schema = CurrentSchema THEN f.claims ELSE {}

\* Whatever other runs publish between one run's Load and its Save, the file
\* it publishes approves for its script what the file it replaces did and
\* what its own operator approved, and nothing else: an approval of another
\* run is never overwritten, and one that was withdrawn does not return
\* (checkApprovalRevision under the guard).  The one exception is a file
\* that the operator, who takes no guard, removes between check and rename.
PublishMerges ==
    [][\A r \in Runners :
          runner[r].step = "checked" /\ runner'[r].step = "renamed" =>
             \/ file'.claims = Approves(file, file'.script) \cup runner[r].approved
             \/ file = NoFile /\ runner[r].store.revision # NoFile]_approvalVars
=============================================================================
