----------------------------- MODULE MCRecovery -----------------------------
(* What a crash leaves behind, one model per behaviour: the resources of a
   launch, or the files of a journalled write.  `part' says which; the other
   stays as it started, and each one's fairness is asked of its own part.

   Two recovering processes, so that one can claim what the other lets go of;
   three faults and two crashes reach a retry of a retry after a restart.  Three
   operations, so that a record of an earlier write is in the journal when a
   later one fails, and a read leaves a gap between records; one path keeps the
   writes on the same target. *)
EXTENDS ServiceRecovery, JournalledWrite

VARIABLE part

crashVars == <<part, recoveryVars, vars>>

CrashInit == /\ part \in {"launch", "write"}
             /\ RecoveryInit /\ Init
             /\ part = "write" => journalled

CrashNext ==
    /\ \/ part = "launch" /\ RecoveryNext /\ UNCHANGED vars
       \/ part = "write" /\ Next /\ UNCHANGED recoveryVars
    /\ UNCHANGED part

\* RecoveryFairness of the launch and Fairness of the write.
CrashSpec ==
    /\ CrashInit /\ [][CrashNext]_crashVars
    /\ WF_recoveryVars(part = "launch" /\ WatchdogKills)
    /\ \A h \in Hosts : /\ WF_recoveryVars(part = "launch" /\ Construct(h))
                        /\ SF_recoveryVars(part = "launch" /\ RecoverHandle(h))
                        /\ WF_recoveryVars(part = "launch" /\ Attempt(h))
                        /\ SF_recoveryVars(part = "launch" /\ Exit(h))
    /\ WF_vars(part = "write" /\ Admit)
    /\ WF_vars(part = "write" /\ (AppendRecord \/ SyncRecord))
    /\ WF_vars(part = "write" /\ Acknowledge) /\ WF_vars(part = "write" /\ Settle)
    /\ WF_vars(part = "write" /\ Lost) /\ WF_vars(part = "write" /\ BrokerDies)
    /\ WF_vars(part = "write" /\ Reap) /\ WF_vars(part = "write" /\ Recover)
    /\ WF_vars(part = "write" /\ CleanStaging) /\ WF_vars(part = "write" /\ CleanerDies)
    /\ WF_vars(part = "write" /\ Exchanged) /\ WF_vars(part = "write" /\ Claim)
=============================================================================
