---------------------------- MODULE SessionTables ----------------------------
(***************************************************************************)
(* The tables a session keeps between submissions (internal/app:           *)
(* session.go, session_submit.go, session_execution.go).  A submission is  *)
(* compiled into the persistent tables first and executed in stages, each  *)
(* of which may fail; then the tables are rolled back to a snapshot.       *)
(***************************************************************************)
EXTENDS Naturals, Sequences, FiniteSets, SequencesExt

CONSTANTS Names,        \* functions and variables a submission may declare
          Inits,        \* texts of init functions
          MaxSubmits,   \* submissions, failed ones included
          EvalBudget,   \* the service's CostBudget, 0 when metering is off
          StageCost     \* the most one stage costs

ASSUME TableBounds ==
    /\ IsFiniteSet(Names) /\ IsFiniteSet(Inits) /\ Names \cap Inits = {}
    /\ {MaxSubmits, EvalBudget, StageCost} \subseteq Nat

VARIABLES tables,     \* what a snapshot holds, and the functions themselves
          declared,   \* declaredNames: names of the committed declarations
          serial,     \* submissions so far
          plan,       \* the submission between compilation and its end
          costBudget  \* service.limits.CostBudget

sessionTableVars == <<tables, declared, serial, plan, costBudget>>

NoPlan == [names |-> {}, stages |-> <<>>, snapshot |-> <<>>, cost |-> 0]

EmptyTables == [functions |-> <<>>, functionTable |-> <<>>, executedInits |-> {},
                compiledDecls |-> {}, compiledInits |-> {}]

TablesInit ==
    /\ tables = EmptyTables
    /\ declared = {} /\ serial = 0 /\ plan = NoPlan
    /\ costBudget = EvalBudget

Function(decl) == [decl |-> decl, submission |-> serial + 1, runs |-> 0]

\* Mutant of Restored: the functions are truncated, the maps stay.
Truncated(t, snapshot) ==
    [t EXCEPT !.functions = SubSeq(@, 1, Len(snapshot.functions))]

\* restore: the functions are truncated, the maps replaced by their clones.
Restored(t, snapshot) ==
    [snapshot EXCEPT !.functions = SubSeq(t.functions, 1, Len(snapshot.functions))]

\* compileSubmissionFunctions for new names and inits, a resubmitted init
\* left out.  It appends a function for each and stops after the first bad.
Compiled(t, names, inits) ==
    LET order == SetToSeq(names) \o SetToSeq(inits \ t.compiledInits)
        base  == Len(t.functions)
    IN  [t EXCEPT
           !.functions = @ \o [i \in 1..Len(order) |-> Function(order[i])],
           !.functionTable = [n \in DOMAIN @ \cup names |->
                                 IF n \in names
                                 THEN base + (CHOOSE i \in 1..Len(order) : order[i] = n)
                                 ELSE @[n]],
           !.compiledInits = @ \cup inits]

\* The plan of sessionExecution: an initialiser of variables when there are
\* names, the new init functions in order, and the body.
Stages(t, after, names) ==
    LET added == [i \in 1..Len(after.functions) - Len(t.functions) |-> Len(t.functions) + i]
    IN  (IF names = {} THEN <<>> ELSE <<0>>)
        \o SelectSeq(added, LAMBDA i : after.functions[i].decl \in Inits) \o <<0>>

\* compileSubmission.  Early errors, a redeclaration among them, change
\* nothing; a compile error comes after the tables changed and restores them.
Compile(names, inits, fails) ==
    LET after == Compiled(tables, names, inits)
    IN  /\ plan = NoPlan /\ serial < MaxSubmits
        /\ serial' = serial + 1
        /\ IF names \cap declared # {}
           THEN UNCHANGED <<tables, plan>>
           ELSE IF fails
           THEN tables' = Restored(after, tables) /\ UNCHANGED plan
           ELSE /\ tables' = after
                /\ plan' = [names |-> names, stages |-> Stages(tables, after, names),
                            snapshot |-> tables, cost |-> 0]
        /\ UNCHANGED <<declared, costBudget>>

\* The error path of execution.run and of the closure around it.
Fails ==
    /\ tables' = Restored(tables, plan.snapshot)
    /\ plan' = NoPlan
    /\ costBudget' = EvalBudget
    /\ UNCHANGED <<declared, serial>>

\* stage for the first one of the plan.  An init that ran is skipped; an
\* exhausted budget starts no stage; the last one commits.
RunStage(cost, fails) ==
    LET index == Head(plan.stages)
        ran   == IF index = 0 THEN tables
                 ELSE [tables EXCEPT !.functions[index].runs = @ + 1]
        done  == IF index = 0 THEN tables
                 ELSE [ran EXCEPT !.executedInits = @ \cup {index}]
    IN  /\ plan # NoPlan
        /\ IF index \in tables.executedInits
           THEN /\ plan' = [plan EXCEPT !.stages = Tail(@)]
                /\ UNCHANGED <<tables, declared, serial, costBudget>>
           ELSE IF EvalBudget > 0 /\ plan.cost >= EvalBudget
           THEN Fails
           ELSE /\ EvalBudget > 0 => cost <= EvalBudget - plan.cost
                /\ IF fails THEN Fails
                   ELSE /\ UNCHANGED serial
                        /\ IF Len(plan.stages) > 1
                           THEN /\ plan' = [plan EXCEPT !.stages = Tail(@), !.cost = @ + cost]
                                /\ tables' = done
                                /\ costBudget' = IF EvalBudget > 0 THEN EvalBudget - plan.cost
                                                 ELSE costBudget
                                /\ UNCHANGED declared
                           ELSE /\ plan' = NoPlan
                                /\ tables' = [done EXCEPT !.compiledDecls = @ \cup plan.names]
                                /\ declared' = declared \cup plan.names
                                /\ costBudget' = EvalBudget

\* Reset between submissions.
ResetSession ==
    /\ plan = NoPlan /\ serial > 0
    /\ tables' = EmptyTables /\ declared' = {}
    /\ UNCHANGED <<serial, plan, costBudget>>

TablesNext ==
    \/ \E names \in SUBSET Names, inits \in SUBSET Inits, fails \in BOOLEAN :
           Compile(names, inits, fails)
    \/ \E cost \in 0..StageCost, fails \in BOOLEAN : RunStage(cost, fails)
    \/ ResetSession

-----------------------------------------------------------------------------
(* Properties                                                               *)

\* "Declaration metadata is committed only on success" (Submit).  Between
\* submissions, after any mix of failures, exactly the committed names are
\* declared, compiled and in the function table, every index leads to the
\* function of that name, every init in the table ran exactly once, though
\* indices of failed submissions are used again, and the service has its
\* budget back.
SessionTablesSound ==
    plan = NoPlan =>
        /\ DOMAIN tables.functionTable = declared
        /\ tables.compiledDecls = declared
        /\ \A n \in declared : /\ tables.functionTable[n] <= Len(tables.functions)
                               /\ tables.functions[tables.functionTable[n]].decl = n
        /\ \A i \in 1..Len(tables.functions) :
               tables.functions[i].decl \in Inits =>
                   tables.functions[i].runs = 1 /\ i \in tables.executedInits
        /\ costBudget = EvalBudget
=============================================================================
