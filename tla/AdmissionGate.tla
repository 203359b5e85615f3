--------------------------- MODULE AdmissionGate ---------------------------
(***************************************************************************)
(* The admission gate of internal/sandboxlinux/admission_linux.go: a lease *)
(* with one active holder and one queued caller, acquired under a context  *)
(* that may be cancelled while the lease is being handed over.             *)
(*                                                                         *)
(* A step is one critical section of gate.mutex, or one receive of the     *)
(* select in acquire.  A queued caller stands for the channel it waits on: *)
(* it has at most one call in progress, and every call makes a new channel.*)
(***************************************************************************)
CONSTANTS
    Callers,    \* goroutines that acquire leases
    Gates,      \* admission objects
    NoCaller,   \* a nil pending channel
    NoGate      \* no admission object

ASSUME GateAssumption == NoCaller \notin Callers /\ NoGate \notin Gates

VARIABLES
    active,     \* gate.active
    pending,    \* gate.pending: the caller whose channel is registered
    closed,     \* the callers whose channel was closed by release
    at,         \* the gate a caller's call is about
    pc,         \* where a caller is in acquire or in its lease
    cancelled   \* whether the caller's context is done

gateVars == <<active, pending, closed, at, pc, cancelled>>

Places == {"idle", "enter", "lock", "select", "surrender", "held", "released",
           "refused"}

\* Besides the types: a caller inside the gate has a gate, and a closed channel
\* is one that a blocked caller is about to receive from.
TypeOK == /\ active \in [Gates -> BOOLEAN]
          /\ pending \in [Gates -> Callers \cup {NoCaller}]
          /\ at \in [Callers -> Gates \cup {NoGate}]
          /\ pc \in [Callers -> Places]
          /\ cancelled \in [Callers -> BOOLEAN]
          /\ closed \subseteq {c \in Callers : pc[c] = "select"}
          /\ \A c \in Callers : pc[c] \notin {"idle", "refused"} => at[c] \in Gates

Init == /\ active = [g \in Gates |-> FALSE]
        /\ pending = [g \in Gates |-> NoCaller]
        /\ closed = {}
        /\ at = [c \in Callers |-> NoGate]
        /\ pc = [c \in Callers |-> "idle"]
        /\ cancelled = [c \in Callers |-> FALSE]

Goto(c, place) == pc' = [pc EXCEPT ![c] = place]
-----------------------------------------------------------------------------
\* A caller enters gate.acquire with a fresh context.
Call(c, g) == /\ pc[c] = "idle"
              /\ Goto(c, "enter")
              /\ at' = [at EXCEPT ![c] = g]
              /\ UNCHANGED <<active, pending, closed, cancelled>>

\* The caller's context ends.
Cancel(c) == /\ pc[c] \in {"enter", "lock", "select"}
             /\ ~cancelled[c]
             /\ cancelled' = [cancelled EXCEPT ![c] = TRUE]
             /\ UNCHANGED <<active, pending, closed, at, pc>>

\* acquire looks at the context before it takes the mutex.
CheckContext(c) == /\ pc[c] = "enter"
                   /\ Goto(c, IF cancelled[c] THEN "refused" ELSE "lock")
                   /\ UNCHANGED <<active, pending, closed, at, cancelled>>

\* acquire finds the gate free and takes the lease.
Admit(c) == /\ pc[c] = "lock"
            /\ ~active[at[c]]
            /\ active' = [active EXCEPT ![at[c]] = TRUE]
            /\ Goto(c, "held")
            /\ UNCHANGED <<pending, closed, at, cancelled>>

\* acquire finds both slots taken.
Refuse(c) == /\ pc[c] = "lock"
             /\ active[at[c]]
             /\ pending[at[c]] # NoCaller
             /\ Goto(c, "refused")
             /\ UNCHANGED <<active, pending, closed, at, cancelled>>

\* Mutant of Queue: the waiting slot is overwritten instead of checked.
QueueOverwrites(c) == /\ pc[c] = "lock"
                      /\ active[at[c]]
                      /\ pending' = [pending EXCEPT ![at[c]] = c]
                      /\ Goto(c, "select")
                      /\ UNCHANGED <<active, closed, at, cancelled>>

\* acquire registers its channel and blocks in the select.
Queue(c) == /\ pc[c] = "lock"
            /\ active[at[c]]
            /\ pending[at[c]] = NoCaller
            /\ pending' = [pending EXCEPT ![at[c]] = c]
            /\ Goto(c, "select")
            /\ UNCHANGED <<active, closed, at, cancelled>>

\* Mutant of ReleaseGate: the registered channel is dropped, not closed.
ReleaseGateSilent(g) == /\ active' = [active EXCEPT ![g] = pending[g] # NoCaller]
                        /\ pending' = [pending EXCEPT ![g] = NoCaller]
                        /\ UNCHANGED closed

\* gate.release: close the registered channel, or clear active.
ReleaseGate(g) == /\ active' = [active EXCEPT ![g] = pending[g] # NoCaller]
                  /\ pending' = [pending EXCEPT ![g] = NoCaller]
                  /\ closed' = closed \cup ({pending[g]} \ {NoCaller})

\* The select receives from the closed channel; with the context done by then
\* the lease is given back.
ReceiveHandoff(c) == /\ pc[c] = "select"
                     /\ c \in closed
                     /\ closed' = closed \ {c}
                     /\ Goto(c, IF cancelled[c] THEN "surrender" ELSE "held")
                     /\ UNCHANGED <<active, pending, at, cancelled>>

\* Mutant of GiveUp: the transfer is not noticed.
GiveUpBlindly(c) == /\ pc[c] = "select"
                    /\ cancelled[c]
                    /\ pending' = [pending EXCEPT ![at[c]] = NoCaller]
                    /\ Goto(c, "refused")
                    /\ UNCHANGED <<active, closed, at, cancelled>>

\* The select receives ctx.Done: withdraw the channel if it is still the
\* registered one, else the lease was transferred and must be given back.
GiveUp(c) == /\ pc[c] = "select"
             /\ cancelled[c]
             /\ \/ /\ pending[at[c]] = c
                   /\ pending' = [pending EXCEPT ![at[c]] = NoCaller]
                   /\ Goto(c, "refused")
                   /\ UNCHANGED closed
                \/ /\ pending[at[c]] # c
                   /\ closed' = closed \ {c}
                   /\ Goto(c, "surrender")
                   /\ UNCHANGED pending
             /\ UNCHANGED <<active, at, cancelled>>

\* A caller whose context is done gives the lease back.
Surrender(c) == /\ pc[c] = "surrender"
                /\ ReleaseGate(at[c])
                /\ Goto(c, "refused")
                /\ UNCHANGED <<at, cancelled>>

\* The holder calls its release function; sync.OnceFunc drops a second call.
ReleaseLease(c) == /\ pc[c] \in {"held", "released"}
                   /\ IF pc[c] = "held" THEN ReleaseGate(at[c])
                                        ELSE UNCHANGED <<active, pending, closed>>
                   /\ Goto(c, "released")
                   /\ UNCHANGED <<at, cancelled>>

\* The call is over, with its context; its goroutine may acquire again.
Return(c) == /\ pc[c] \in {"released", "refused"}
             /\ Goto(c, "idle")
             /\ at' = [at EXCEPT ![c] = NoGate]
             /\ cancelled' = [cancelled EXCEPT ![c] = FALSE]
             /\ UNCHANGED <<active, pending, closed>>

\* The steps of the gate itself, shared with the table that uses it.
GateStep(c) == \/ CheckContext(c) \/ Admit(c) \/ Refuse(c) \/ Queue(c)
               \/ ReceiveHandoff(c) \/ GiveUp(c) \/ Surrender(c)
               \/ ReleaseLease(c)

Next == \E c \in Callers :
            \/ \E g \in Gates : Call(c, g)
            \/ Cancel(c)
            \/ GateStep(c)
            \/ Return(c)

\* Goroutines inside acquire run on, and a lease is released once cleanup is
\* over; nobody is obliged to call or to cancel.
Fairness == \A c \in Callers : WF_gateVars(GateStep(c) \/ Return(c))

Spec == Init /\ [][Next]_gateVars

FairSpec == Spec /\ Fairness
-----------------------------------------------------------------------------
\* The caller answers for its gate's lease: it holds it, or it has been handed
\* over to it and not been given back yet.
Owns(c) == \/ pc[c] \in {"held", "surrender"}
           \/ pc[c] = "select" /\ c \in closed

\* A gate's lease is neither duplicated nor lost, whatever the order in which
\* release, the handoff and a cancellation meet: active is set exactly while
\* one caller answers for the lease (acquire and release).
LeaseConserved ==
    /\ \A c, d \in Callers : Owns(c) /\ Owns(d) /\ at[c] = at[d] => c = d
    /\ \A g \in Gates : active[g] <=> \E c \in Callers : Owns(c) /\ at[c] = g

\* A caller blocked in acquire's select is never forgotten: the gate still has
\* its channel, or the channel has been closed; and a registered channel
\* belongs to a blocked caller of an active gate (acquire, release).
WaiterRemembered ==
    /\ \A c \in Callers :
           pc[c] = "select" => pending[at[c]] = c \/ c \in closed
    /\ \A g \in Gates : pending[g] # NoCaller =>
           /\ pc[pending[g]] = "select"
           /\ at[pending[g]] = g
           /\ pending[g] \notin closed
           /\ active[g]

\* A caller queued behind a lease leaves the queue, with the lease or with its
\* cancellation, once holders release theirs (acquire's select).
QueuedServed == \A c \in Callers : pc[c] = "select" ~> pc[c] # "select"

\* The caller that answers for a gate's lease, as LeaseSlot's owner.
OwnerOf(g) == IF \E c \in Callers : Owns(c) /\ at[c] = g
                THEN CHOOSE c \in Callers : Owns(c) /\ at[c] = g
                ELSE NoCaller

Slot == INSTANCE LeaseSlot
            WITH owner <- [g \in Gates |-> OwnerOf(g)], waiter <- pending

\* The gate implements one active lease and one queued caller: cancellation
\* and the split critical sections of acquire are invisible.
ImplementsSlot == Slot!Spec
=============================================================================
