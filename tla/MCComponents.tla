---------------------------- MODULE MCComponents ----------------------------
(* Components that do not call each other and whose properties are safety
   alone, one per behaviour.  `part' says which; the others stay as they
   started.

   Admission table: three callers of two keys with room for one, so that a key
   is refused, and freed while another caller looks it up; two gates, one that
   two callers use after the table has forgotten it, and its successor.
   Unwinding: a call below the entry point, two deferred calls and two panics,
   so that a deferred call panics while a panic unwinds; one Goexit and one
   error that ends a dispatch loop.
   Callback machines: two goroutines and three machines over two executions,
   with a budget of two chunks and a cost larger than one.
   Pool: two goroutines, two shards, one object at first and room for two, so
   that the pool grows, is full, and MustGet falls back.
   Debugger: two goroutines and a callback, two stops and two registrations.
   Debug adapter: two machines, a client that resumes, pauses or inspects once,
   and room for one event, so that thread events are dropped.
   Restricted session: two submitters, with budgets of the session below those
   of two submissions.
   Session tables: two names, two texts of init, three submissions.
   Approvals: two processes, two scripts, two claims, two runs.
   Compiler passes: the bodies of MCPasses. *)
EXTENDS AdmissionTable, Unwinding, CallbackVMs, StablePool, DebugBarrier,
        DebugAdapter, RestrictedSession, SessionTables, ApprovalStore, MCPasses

VARIABLE part

componentVars == <<part, vars, unwindVars, callbackVars, poolVars, debugVars,
                   adapterVars, sessionVars, sessionTableVars, approvalVars, passVars>>

Parts == {"table", "unwind", "callback", "pool", "debug", "adapter",
          "restricted", "tables", "approval", "passes"}

ComponentsInit ==
    /\ part \in Parts
    /\ TableInit /\ UnwindInit /\ CallbackInit /\ PoolInit /\ DebugInit
    /\ AdapterInit /\ RestrictedInit /\ TablesInit /\ ApprovalInit /\ PassInit
    /\ part # "approval" => file = NoFile
    /\ part # "passes" => profile = (CHOOSE p \in Profiles : TRUE) /\ ~result

\* Only the variables of the part in play move.
Others(p, theirs) == IF part = p THEN TRUE ELSE UNCHANGED theirs

ComponentsNext ==
    /\ UNCHANGED part
    /\ Others("table", vars)
    /\ Others("unwind", unwindVars)
    /\ Others("callback", callbackVars)
    /\ Others("pool", poolVars)
    /\ Others("debug", debugVars)
    /\ Others("adapter", adapterVars)
    /\ Others("restricted", sessionVars)
    /\ Others("tables", sessionTableVars)
    /\ Others("approval", approvalVars)
    /\ Others("passes", passVars)
    /\ \/ part = "table" /\ TableNext
       \/ part = "unwind" /\ UnwindNext
       \/ part = "callback" /\ CallbackNext
       \/ part = "pool" /\ PoolNext
       \/ part = "debug" /\ DebugNext
       \/ part = "adapter" /\ AdapterNext
       \/ part = "restricted" /\ RestrictedNext
       \/ part = "tables" /\ TablesNext
       \/ part = "approval" /\ ApprovalNext
       \/ part = "passes" /\ PassNext

ComponentsSpec == ComponentsInit /\ [][ComponentsNext]_componentVars
=============================================================================
