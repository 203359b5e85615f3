----------------------------- MODULE LeaseSlot -----------------------------
(***************************************************************************)
(* What an admission gate promises its callers, without mutexes, channels  *)
(* or cancellation: each gate has one active lease and one queued caller   *)
(* ("bounds process-wide worker creation to one active and one queued      *)
(* launch", admission_linux.go:133).  AdmissionGate implements it.         *)
(***************************************************************************)
CONSTANTS Callers, Gates, NoCaller

VARIABLES owner,   \* owner[g]: the caller holding g's lease, or NoCaller
          waiter   \* waiter[g]: the caller queued behind it, or NoCaller

vars == <<owner, waiter>>

Init == /\ owner = [g \in Gates |-> NoCaller]
        /\ waiter = [g \in Gates |-> NoCaller]

\* A free gate grants its lease.
Grant(g, c) == /\ owner[g] = NoCaller
               /\ owner' = [owner EXCEPT ![g] = c]
               /\ UNCHANGED waiter

\* A caller queues behind the lease holder.
Queue(g, c) == /\ owner[g] \notin {NoCaller, c}
               /\ waiter[g] = NoCaller
               /\ waiter' = [waiter EXCEPT ![g] = c]
               /\ UNCHANGED owner

\* The queued caller gives up its place.
Leave(g) == /\ waiter[g] # NoCaller
            /\ waiter' = [waiter EXCEPT ![g] = NoCaller]
            /\ UNCHANGED owner

\* The lease ends: it passes to the queued caller, or the gate becomes free.
Free(g) == /\ owner[g] # NoCaller
           /\ owner' = [owner EXCEPT ![g] = waiter[g]]
           /\ waiter' = [waiter EXCEPT ![g] = NoCaller]

Next == \E g \in Gates :
            \/ \E c \in Callers : Grant(g, c) \/ Queue(g, c)
            \/ Leave(g)
            \/ Free(g)

Spec == Init /\ [][Next]_vars
=============================================================================
