--------------------------- MODULE AdmissionTable ---------------------------
(***************************************************************************)
(* admissionTable (internal/sandboxlinux/admission_linux.go): one gate per *)
(* tenant, created on first use and dropped once idle.  The table's mutex  *)
(* covers the lookup and the drop, never the gate operation in between, so *)
(* the lookup, each gate step and the drop are separate steps here.        *)
(***************************************************************************)
EXTENDS AdmissionGate, FiniteSets, Naturals

CONSTANTS
    Tenants,    \* admission keys
    NoTenant,   \* the key of a goroutine that has no call
    MaxKeys     \* maximumAdmissionKeys

ASSUME TableAssumption == MaxKeys \in Nat \ {0} /\ NoTenant \notin Tenants

VARIABLES
    gates,      \* table.gates: tenant -> gate, or NoGate
    tenant      \* the key of a caller's call

tableVars == <<gates, tenant>>
vars == <<gateVars, tableVars>>

Tracked == {t \in Tenants : gates[t] # NoGate}

\* Besides the types: the table never tracks more tenants than its limit.
TableTypeOK == /\ TypeOK
               /\ gates \in [Tenants -> Gates \cup {NoGate}]
               /\ tenant \in [Callers -> Tenants \cup {NoTenant}]
               /\ Cardinality(Tracked) <= MaxKeys

TableInit == /\ Init
             /\ gates = [t \in Tenants |-> NoGate]
             /\ tenant = [c \in Callers |-> NoTenant]

\* A gate object nothing refers to: what an allocation yields.
Fresh(g) == /\ \A t \in Tenants : gates[t] # g
            /\ \A c \in Callers : at[c] # g
-----------------------------------------------------------------------------
\* The lookup finds the tenant's gate.
LookupExisting(c, t) == /\ pc[c] = "idle"
                        /\ gates[t] # NoGate
                        /\ Call(c, gates[t])
                        /\ tenant' = [tenant EXCEPT ![c] = t]
                        /\ UNCHANGED gates

\* The lookup creates the tenant's gate.  Gates must hold a fresh object, which
\* it does when there are as many gates as callers.
LookupNew(c, t) == /\ pc[c] = "idle"
                   /\ gates[t] = NoGate
                   /\ Cardinality(Tracked) < MaxKeys
                   /\ \E g \in Gates : Fresh(g)
                   /\ LET g == CHOOSE g \in Gates : Fresh(g)
                      IN Call(c, g) /\ gates' = [gates EXCEPT ![t] = g]
                   /\ tenant' = [tenant EXCEPT ![c] = t]

\* The table tracks the maximum number of tenants: acquire fails.
LookupFull(c, t) == /\ pc[c] = "idle"
                    /\ gates[t] = NoGate
                    /\ Cardinality(Tracked) >= MaxKeys
                    /\ Goto(c, "refused")
                    /\ tenant' = [tenant EXCEPT ![c] = t]
                    /\ UNCHANGED <<active, pending, closed, at, cancelled, gates>>

\* Mutant of DropIfIdle: only the release function drops, a failed acquire
\* does not.
DropAfterRelease(c) == /\ Return(c)
                       /\ LET idle == /\ pc[c] = "released"
                                      /\ gates[tenant[c]] = at[c]
                                      /\ ~active[at[c]]
                                      /\ pending[at[c]] = NoCaller
                          IN gates' = [gates EXCEPT ![tenant[c]] =
                                           IF idle THEN NoGate ELSE @]
                       /\ tenant' = [tenant EXCEPT ![c] = NoTenant]

\* dropIfIdle after a failed acquire or a release, and the return to the
\* caller: forget the gate when the table still holds it and it is idle.
DropIfIdle(c) == /\ Return(c)
                 /\ LET idle == /\ at[c] # NoGate
                                /\ gates[tenant[c]] = at[c]
                                /\ ~active[at[c]]
                                /\ pending[at[c]] = NoCaller
                    IN gates' = [gates EXCEPT ![tenant[c]] = IF idle THEN NoGate ELSE @]
                 /\ tenant' = [tenant EXCEPT ![c] = NoTenant]

TableNext == \E c \in Callers :
                 \/ \E t \in Tenants : \/ LookupExisting(c, t)
                                       \/ LookupNew(c, t)
                                       \/ LookupFull(c, t)
                 \/ (Cancel(c) \/ GateStep(c)) /\ UNCHANGED tableVars
                 \/ DropIfIdle(c)

TableSpec == TableInit /\ [][TableNext]_vars
-----------------------------------------------------------------------------
\* Idle gates are not retained: a tracked gate is one that a call in progress
\* refers to, so with no call in progress the table is empty (dropIfIdle on
\* both ways out of acquire).
GatesReclaimed ==
    \A t \in Tracked : \E c \in Callers : at[c] = gates[t] /\ tenant[c] = t

\* "one tenant's long session never starves another's launches"
\* (admission_linux.go:32): a caller is only ever queued behind a lease of its
\* own tenant, also on a gate the table has already forgotten.
TenantsIndependent ==
    \A c \in Callers : pc[c] = "select" =>
        \E d \in Callers : Owns(d) /\ at[d] = at[c] /\ tenant[d] = tenant[c]

\* The table keeps within its limit, forgets no gate in use by a tenant it
\* tracks, retains no idle one, and keeps tenants apart.
TableSound == TableTypeOK /\ GatesReclaimed /\ TenantsIndependent

\* "workerAdmission is the process-wide table that bounds concurrent worker
\* launches per tenant" (admission_linux.go:47): one lease per tenant.
TenantExclusive ==
    \A c, d \in Callers : Owns(c) /\ Owns(d) /\ tenant[c] = tenant[d] => c = d
=============================================================================
