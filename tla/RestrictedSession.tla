-------------------------- MODULE RestrictedSession --------------------------
(***************************************************************************)
(* The retained session of internal/app/restricted_session.go.  Callers    *)
(* submit, a host closes it, the lifetime ends and idle timers fire, each  *)
(* in its own goroutine; the mutex makes the critical sections atomic, and *)
(* the evaluation between admit and finish holds nothing.                  *)
(***************************************************************************)
EXTENDS Integers, FiniteSets, FiniteSetsExt

CONSTANTS Submitters,      \* goroutines that submit
          SourceSizes,     \* sizes of a submitted source
          MaxSourceBytes, MaxOutputBytes, SubmissionCost,  \* limits of one submission
          SessionSource, SessionOutput, SessionCost, MaxSubmissions

ASSUME SessionBounds ==
    /\ SourceSizes \subseteq Nat
    /\ {MaxSourceBytes, MaxOutputBytes, SubmissionCost, SessionSource, SessionOutput,
        SessionCost, MaxSubmissions} \subseteq Nat

VARIABLES ended,       \* session.ctx is cancelled
          retained,    \* session.session and session.output are set
          running,
          generation,
          armed,       \* generations of the timers that may still fire
          fired,       \* those that fired and wait for the mutex
          releasing,   \* calls of releaseClosed on their way; Close's and the AfterFunc's
          remaining,   \* the cumulative budgets
          delivered,   \* output and cost of the submissions so far, as their callers see it
          submitter    \* per submitter: its step and the error it will finish with

sessionVars == <<ended, retained, running, generation, armed, fired, releasing, remaining,
                 delivered, submitter>>

RestrictedInit ==
    /\ ended = FALSE /\ retained = TRUE /\ running = FALSE
    /\ generation = 1 /\ armed = {1} /\ fired = {}
    /\ releasing = {}
    /\ remaining = [source |-> SessionSource, output |-> SessionOutput, cost |-> SessionCost,
                    submissions |-> MaxSubmissions]
    /\ delivered = [output |-> 0, cost |-> 0]
    /\ submitter = [c \in Submitters |-> [step |-> "out", failed |-> FALSE]]

Moves(c, step, failed) == submitter' = [submitter EXCEPT ![c] = [step |-> step, failed |-> failed]]

\* Cancelling the context starts the AfterFunc of newRestrictedSession.
Cancelled == ended' = TRUE /\ releasing' = IF ended THEN releasing ELSE releasing \cup {"hook"}

\* admit: closed and busy sessions refuse, a spent one ends.
AdmitSubmission(c, size) ==
    /\ submitter[c].step = "out"
    /\ ~ended /\ ~running
    /\ IF \/ size > MaxSourceBytes \/ size > remaining.source
          \/ remaining.submissions = 0 \/ remaining.cost <= 0
       THEN /\ Cancelled
            /\ UNCHANGED <<running, generation, armed, remaining, submitter>>
       ELSE /\ running' = TRUE
            /\ armed' = armed \ {generation}
            /\ generation' = generation + 1
            /\ remaining' = [remaining EXCEPT !.source = @ - size, !.submissions = @ - 1]
            /\ Moves(c, "admitted", FALSE)
            /\ UNCHANGED <<ended, releasing>>
    /\ UNCHANGED <<retained, fired, delivered>>

\* evaluatePhased up to execution: it compiles and asks for permission, and
\* fails in either, or because a context ended.
Prepare(c) ==
    /\ submitter[c].step = "admitted"
    /\ Moves(c, "finishing", TRUE) \/ (~ended /\ Moves(c, "executing", FALSE))
    /\ UNCHANGED <<ended, retained, running, generation, armed, fired, releasing, remaining, delivered>>

\* Mutant of ExecuteSubmission: the writer has the limit of one submission only.
ExecuteUncapped(c, written, cost, fails) ==
    LET kept == Min({written, MaxOutputBytes})
    IN  /\ submitter[c].step = "executing"
        /\ cost <= Min({SubmissionCost, remaining.cost})
        /\ remaining' = [remaining EXCEPT !.output = IF kept > @ THEN 0 ELSE @ - kept,
                                          !.cost = @ - Min({remaining.cost, cost})]
        /\ delivered' = [output |-> delivered.output + kept, cost |-> delivered.cost + cost]
        /\ Moves(c, "finishing", fails \/ written > MaxOutputBytes)
        /\ UNCHANGED <<ended, retained, running, generation, armed, fired, releasing>>

\* The rest of evaluatePhased.  The writer keeps what fits and notes the loss.
ExecuteSubmission(c, written, cost, fails) ==
    LET room == Min({MaxOutputBytes, remaining.output})
        kept == Min({written, room})
    IN  /\ submitter[c].step = "executing"
        /\ cost <= Min({SubmissionCost, remaining.cost})
        /\ remaining' = [remaining EXCEPT !.output = @ - kept,
                                          !.cost = @ - Min({remaining.cost, cost})]
        /\ delivered' = [output |-> delivered.output + kept, cost |-> delivered.cost + cost]
        /\ Moves(c, "finishing", fails \/ written > room)
        /\ UNCHANGED <<ended, retained, running, generation, armed, fired, releasing>>

Finish(c) ==
    /\ submitter[c].step = "finishing"
    /\ Moves(c, "out", FALSE)
    /\ running' = FALSE
    /\ IF submitter[c].failed \/ ended
       THEN /\ Cancelled
            /\ retained' = FALSE
            /\ UNCHANGED <<generation, armed>>
       ELSE /\ generation' = generation + 1
            /\ armed' = armed \cup {generation + 1}
            /\ UNCHANGED <<ended, releasing, retained>>
    /\ UNCHANGED <<fired, remaining, delivered>>

\* A timer fires and its goroutine waits for the mutex ...
TimerFires(g) ==
    /\ g \in armed
    /\ armed' = armed \ {g} /\ fired' = fired \cup {g}
    /\ UNCHANGED <<ended, retained, running, generation, releasing, remaining, delivered, submitter>>

\* ... and expires the session if it is still idle in that interval.
IdleExpires(g) ==
    /\ g \in fired
    /\ fired' = fired \ {g}
    /\ IF running \/ generation # g \/ ended
       THEN UNCHANGED <<ended, releasing, retained>>
       ELSE Cancelled /\ retained' = FALSE
    /\ UNCHANGED <<running, generation, armed, remaining, delivered, submitter>>

\* The lifetime or the parent context ends.
LifetimeEnds ==
    /\ ~ended
    /\ Cancelled
    /\ UNCHANGED <<retained, running, generation, armed, fired, remaining, delivered, submitter>>

CloseSession ==
    /\ "close" \notin releasing
    /\ ended' = TRUE
    /\ releasing' = releasing \cup {"close"} \cup (IF ended THEN {} ELSE {"hook"})
    /\ UNCHANGED <<retained, running, generation, armed, fired, remaining, delivered, submitter>>

\* Mutant of ReleaseClosed: a submission in progress is not looked at.
ReleaseAtOnce(by) ==
    /\ by \in releasing
    /\ releasing' = releasing \ {by}
    /\ armed' = armed \ {generation}
    /\ retained' = FALSE
    /\ UNCHANGED <<ended, running, generation, fired, remaining, delivered, submitter>>

ReleaseClosed(by) ==
    /\ by \in releasing
    /\ releasing' = releasing \ {by}
    /\ armed' = armed \ {generation}
    /\ retained' = (retained /\ running)
    /\ UNCHANGED <<ended, running, generation, fired, remaining, delivered, submitter>>

RestrictedNext ==
    \/ \E c \in Submitters :
        \/ \E size \in SourceSizes : AdmitSubmission(c, size)
        \/ Prepare(c) \/ Finish(c)
        \/ \E written \in 0..MaxOutputBytes + 1, cost \in 0..SubmissionCost, fails \in BOOLEAN :
               ExecuteSubmission(c, written, cost, fails)
    \/ \E g \in 1..generation : TimerFires(g) \/ IdleExpires(g)
    \/ LifetimeEnds \/ CloseSession
    \/ \E by \in {"hook", "close"} : ReleaseClosed(by)

RestrictedSpec == RestrictedInit /\ [][RestrictedNext]_sessionVars

-----------------------------------------------------------------------------
(* Properties                                                               *)

\* The interpreter is never dropped under an admitted submission, whichever
\* of Close, the lifetime, the AfterFunc and a late idle timer ends the
\* session meanwhile; and once the session is over, nothing on its way and
\* no submission inside, it is dropped.
StateHeldWhileUsed ==
    /\ (\E c \in Submitters : submitter[c].step # "out") => running /\ retained
    /\ ended /\ releasing = {} /\ ~running => ~retained

\* The cumulative budgets bound what all submissions together delivered,
\* whatever the limits of each, and at most one submission is inside.
SessionBudgetsHeld ==
    /\ delivered.output <= SessionOutput /\ delivered.cost <= SessionCost
    /\ \A budget \in DOMAIN remaining : remaining[budget] >= 0
    /\ Cardinality({c \in Submitters : submitter[c].step # "out"}) <= 1

\* A session's interpreter outlives every submission inside it, and all of
\* them together stay in the session's budgets (beginSubmission, release).
SessionHeld == StateHeldWhileUsed /\ SessionBudgetsHeld
=============================================================================
