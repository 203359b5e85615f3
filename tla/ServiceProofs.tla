---------------------------- MODULE ServiceProofs ----------------------------
(***************************************************************************)
(* The service around the workers, for any values of the constants: the    *)
(* admission of callers, and the recovery of what an earlier process left. *)
(***************************************************************************)
EXTENDS AdmissionTable, ServiceRecovery, FiniteSetTheorems, TLAPS

-----------------------------------------------------------------------------
(***************************************************************************)
(* The admission gate for any set of callers and gates, and the table of   *)
(* gates for any tenants: their invariants and the fact that both          *)
(* implement LeaseSlot.  The inductive invariant of the gate is the        *)
(* conjunction of the type invariant, the conservation of the lease and    *)
(* the memory of the waiter: each needs the others (a handoff keeps the    *)
(* lease because the registered caller is still blocked, and a withdrawn   *)
(* caller owns nothing because its channel is open).  The table adds where *)
(* its callers are (TableInv).                                             *)
(***************************************************************************)

GateInv == TypeOK /\ LeaseConserved /\ WaiterRemembered

\* What gate.release does to the invariant's state: the lease of the caller c
\* moves to the registered caller, or ends.
LEMMA ReleaseKeepsInv ==
    ASSUME GateInv, NEW c \in Callers, pc[c] \in {"held", "surrender"},
           ReleaseGate(at[c]), NEW place \in {"released", "refused"},
           Goto(c, place), UNCHANGED <<at, cancelled>>
    PROVE  GateInv'
<1> DEFINE g == at[c]
           p == pending[g]
<1>1. /\ g \in Gates
      /\ Owns(c)
      /\ \A d \in Callers : Owns(d) /\ at[d] = g => d = c
  BY DEF GateInv, TypeOK, LeaseConserved, Owns
<1>2. p # NoCaller => /\ p \in Callers /\ p # c /\ pc[p] = "select"
                      /\ at[p] = g /\ p \notin closed
  BY <1>1 DEF GateInv, TypeOK, WaiterRemembered
<1>3. TypeOK'
  BY <1>1, <1>2 DEF GateInv, TypeOK, ReleaseGate, Goto, Places
<1>4. \A d \in Callers : Owns(d)' <=> (Owns(d) /\ d # c) \/ (d = p)
  BY <1>1, <1>2, GateAssumption
     DEF GateInv, TypeOK, Owns, ReleaseGate, Goto, Places
<1>5. LeaseConserved'
  <2>1. \A d, e \in Callers : Owns(d)' /\ Owns(e)' /\ at[d] = at[e] => d = e
    BY <1>1, <1>2, <1>4, GateAssumption DEF GateInv, LeaseConserved
  <2>2. ASSUME NEW h \in Gates
        PROVE  active'[h] <=> \E d \in Callers : Owns(d)' /\ at[d] = h
    <3>1. CASE h = g
      BY <3>1, <1>1, <1>2, <1>4, GateAssumption, ZenonT(30)
         DEF GateInv, TypeOK, ReleaseGate
    <3>2. CASE h # g
      BY <3>2, <1>1, <1>2, <1>4, GateAssumption
         DEF GateInv, TypeOK, LeaseConserved, ReleaseGate
    <3> QED BY <3>1, <3>2
  <2> QED BY <2>1, <2>2 DEF LeaseConserved, Owns
<1>6. WaiterRemembered'
  <2>1. ASSUME NEW d \in Callers, pc'[d] = "select"
        PROVE  pending'[at'[d]] = d \/ d \in closed'
    BY <2>1, <1>1, <1>2, GateAssumption
       DEF GateInv, TypeOK, WaiterRemembered, ReleaseGate, Goto
  <2>2. ASSUME NEW h \in Gates, pending'[h] # NoCaller
        PROVE  /\ pc'[pending'[h]] = "select"
               /\ at'[pending'[h]] = h
               /\ pending'[h] \notin closed'
               /\ active'[h]
    <3>1. h # g /\ pending'[h] = pending[h] /\ active'[h] = active[h]
      BY <2>2, <1>1 DEF GateInv, TypeOK, ReleaseGate
    <3>2. pending[h] \in Callers /\ pending[h] # c /\ pending[h] # p
      BY <2>2, <3>1, <1>1, <1>2 DEF GateInv, TypeOK, WaiterRemembered
    <3> QED BY <2>2, <3>1, <3>2
            DEF GateInv, TypeOK, WaiterRemembered, ReleaseGate, Goto
  <2> QED BY <2>1, <2>2 DEF WaiterRemembered
<1> QED BY <1>3, <1>5, <1>6 DEF GateInv

\* A step that leaves the gate alone and moves a caller between places where
\* it neither owns nor waits keeps the invariant.
LEMMA MoveKeepsInv ==
    ASSUME GateInv, NEW c \in Callers, NEW place,
           pc[c] \in {"idle", "enter", "lock", "released", "refused"},
           place \in {"idle", "enter", "lock", "released", "refused"},
           Goto(c, place), UNCHANGED <<active, pending, closed>>,
           \A d \in Callers \ {c} : at'[d] = at[d],
           at' \in [Callers -> Gates \cup {NoGate}],
           place \in {"enter", "lock", "released"} => at'[c] \in Gates,
           cancelled' \in [Callers -> BOOLEAN]
    PROVE  GateInv'
<1>1. TypeOK'
  BY Zenon DEF GateInv, TypeOK, Goto, Places
<1>2. \A d \in Callers : (Owns(d)' <=> Owns(d)) /\ (Owns(d) => d # c)
  BY DEF GateInv, TypeOK, Owns, Goto
<1>3. LeaseConserved'
  <2>1. \A d, e \in Callers : Owns(d)' /\ Owns(e)' /\ at'[d] = at'[e] => d = e
    BY <1>2 DEF GateInv, LeaseConserved
  <2>2. \A g \in Gates : active'[g] <=> \E d \in Callers : Owns(d)' /\ at'[d] = g
    BY <1>2 DEF GateInv, LeaseConserved
  <2> QED BY <2>1, <2>2 DEF LeaseConserved
<1>4. WaiterRemembered'
  BY DEF GateInv, TypeOK, WaiterRemembered, Goto
<1> QED BY <1>1, <1>3, <1>4 DEF GateInv

\* Every step of acquire, release and the callers keeps the invariant.
THEOREM GateInvStep == GateInv /\ [Next]_gateVars => GateInv'
<1> SUFFICES ASSUME GateInv, [Next]_gateVars PROVE GateInv'
  OBVIOUS
<1>1. ASSUME NEW c \in Callers, NEW g \in Gates, Call(c, g) PROVE GateInv'
  BY <1>1, MoveKeepsInv DEF GateInv, TypeOK, Call
<1>2. ASSUME NEW c \in Callers, Cancel(c) PROVE GateInv'
  BY <1>2 DEF GateInv, TypeOK, LeaseConserved, WaiterRemembered, Owns, Cancel
<1>3. ASSUME NEW c \in Callers, CheckContext(c) PROVE GateInv'
  BY <1>3, MoveKeepsInv DEF GateInv, TypeOK, CheckContext
<1>4. ASSUME NEW c \in Callers, Admit(c) PROVE GateInv'
  <2>1. at[c] \in Gates /\ ~active[at[c]] /\ pc' = [pc EXCEPT ![c] = "held"]
    BY <1>4 DEF GateInv, TypeOK, Admit, Goto
  <2>2. TypeOK'
    BY <1>4, <2>1 DEF GateInv, TypeOK, Admit, Places
  <2>3. \A d \in Callers : /\ Owns(d)' <=> Owns(d) \/ d = c
                           /\ Owns(d) => at[d] # at[c]
    BY <1>4, <2>1 DEF GateInv, TypeOK, LeaseConserved, Owns, Admit
  <2>4. LeaseConserved'
    <3>1. \A d, e \in Callers : Owns(d)' /\ Owns(e)' /\ at'[d] = at'[e] => d = e
      BY <1>4, <2>3 DEF GateInv, LeaseConserved, Admit
    <3>2. \A g \in Gates : active'[g] <=> \E d \in Callers : Owns(d)' /\ at'[d] = g
      BY <1>4, <2>1, <2>3 DEF GateInv, TypeOK, LeaseConserved, Admit
    <3> QED BY <3>1, <3>2 DEF LeaseConserved
  <2>5. WaiterRemembered'
    BY <1>4, <2>1 DEF GateInv, TypeOK, WaiterRemembered, Admit
  <2> QED BY <2>2, <2>4, <2>5 DEF GateInv
<1>5. ASSUME NEW c \in Callers, Refuse(c) PROVE GateInv'
  BY <1>5, MoveKeepsInv DEF GateInv, TypeOK, Refuse
<1>6. ASSUME NEW c \in Callers, Queue(c) PROVE GateInv'
  <2>1. at[c] \in Gates /\ c \notin closed /\ pc' = [pc EXCEPT ![c] = "select"]
    BY <1>6 DEF GateInv, TypeOK, Queue, Goto
  <2>2. TypeOK'
    BY <1>6, <2>1 DEF GateInv, TypeOK, Queue, Places
  <2>3. \A d \in Callers : Owns(d)' <=> Owns(d)
    BY <1>6, <2>1 DEF GateInv, TypeOK, Owns, Queue
  <2>4. LeaseConserved'
    BY <1>6, <2>3 DEF GateInv, LeaseConserved, Queue
  <2>5. WaiterRemembered'
    BY <1>6, <2>1, GateAssumption DEF GateInv, TypeOK, WaiterRemembered, Queue
  <2> QED BY <2>2, <2>4, <2>5 DEF GateInv
<1>7. ASSUME NEW c \in Callers, ReceiveHandoff(c) PROVE GateInv'
  <2>1. \A d \in Callers : Owns(d)' <=> Owns(d)
    BY <1>7 DEF GateInv, TypeOK, Owns, ReceiveHandoff, Goto
  <2>2. LeaseConserved'
    BY <1>7, <2>1 DEF GateInv, LeaseConserved, ReceiveHandoff
  <2>3. TypeOK'
    BY <1>7 DEF GateInv, TypeOK, ReceiveHandoff, Goto, Places
  <2>4. WaiterRemembered'
    BY <1>7 DEF GateInv, TypeOK, WaiterRemembered, ReceiveHandoff, Goto
  <2> QED BY <2>2, <2>3, <2>4 DEF GateInv
<1>8. ASSUME NEW c \in Callers, GiveUp(c) PROVE GateInv'
  <2>1. at[c] \in Gates /\ (pending[at[c]] = c => c \notin closed)
        /\ (pending[at[c]] # c => c \in closed)
    BY <1>8, GateAssumption DEF GateInv, TypeOK, WaiterRemembered, GiveUp
  <2>2. \A d \in Callers : Owns(d)' <=> Owns(d)
    BY <1>8, <2>1 DEF GateInv, TypeOK, Owns, GiveUp, Goto
  <2>3. LeaseConserved'
    BY <1>8, <2>2 DEF GateInv, LeaseConserved, GiveUp
  <2>4. TypeOK'
    BY <1>8, <2>1 DEF GateInv, TypeOK, GiveUp, Goto, Places
  <2>5. WaiterRemembered'
    BY <1>8, <2>1, GateAssumption
       DEF GateInv, TypeOK, WaiterRemembered, GiveUp, Goto
  <2> QED BY <2>3, <2>4, <2>5 DEF GateInv
<1>9. ASSUME NEW c \in Callers, Surrender(c) PROVE GateInv'
  BY <1>9, ReleaseKeepsInv DEF Surrender
<1>10. ASSUME NEW c \in Callers, ReleaseLease(c) PROVE GateInv'
  <2>1. CASE pc[c] = "held"
    BY <1>10, <2>1, ReleaseKeepsInv DEF ReleaseLease
  <2>2. CASE pc[c] = "released"
    BY <1>10, <2>2, MoveKeepsInv DEF GateInv, TypeOK, ReleaseLease
  <2> QED BY <1>10, <2>1, <2>2 DEF ReleaseLease
<1>11. ASSUME NEW c \in Callers, Return(c) PROVE GateInv'
  BY <1>11, MoveKeepsInv DEF GateInv, TypeOK, Return
<1>12. CASE UNCHANGED gateVars
  BY <1>12 DEF GateInv, TypeOK, LeaseConserved, WaiterRemembered, Owns, gateVars
<1> QED
  BY <1>1, <1>2, <1>3, <1>4, <1>5, <1>6, <1>7, <1>8, <1>9, <1>10, <1>11, <1>12
     DEF Next, GateStep

\* The lease is neither lost nor duplicated, a blocked caller is never
\* forgotten, and the types hold, for every set of callers and gates.
THEOREM GateInvariance == Spec => []GateInv
<1>1. Init => GateInv
  BY GateAssumption
     DEF Init, GateInv, TypeOK, LeaseConserved, WaiterRemembered, Owns, Places
<1> QED BY <1>1, GateInvStep, PTL DEF Spec

\* The gate's types (TypeOK) for every set of callers and gates.
THEOREM GateTypeCorrect == Spec => []TypeOK
BY GateInvariance, PTL DEF GateInv

\* acquire and release conserve each gate's lease.
THEOREM LeaseIsConserved == Spec => []LeaseConserved
BY GateInvariance, PTL DEF GateInv

\* A caller blocked in acquire's select is registered or has been handed the
\* lease, and a registered channel belongs to a blocked caller.
THEOREM WaiterIsRemembered == Spec => []WaiterRemembered
BY GateInvariance, PTL DEF GateInv
-----------------------------------------------------------------------------
\* o is what LeaseSlot calls the owner of g.
IsOwner(g, o) == \/ o \in Callers /\ Owns(o) /\ at[o] = g
                 \/ o = NoCaller /\ \A d \in Callers : ~(Owns(d) /\ at[d] = g)

\* The CHOOSE in the refinement mapping has one possible value.
LEMMA OwnerUnique ==
    GateInv => \A g \in Gates : /\ IsOwner(g, OwnerOf(g))
                                /\ \A o : IsOwner(g, o) => OwnerOf(g) = o
BY GateAssumption DEF GateInv, LeaseConserved, IsOwner, OwnerOf

\* Every step of the gate is a step of LeaseSlot or leaves it unchanged.
LEMMA SlotStep == GateInv /\ GateInv' /\ [Next]_gateVars => [Slot!Next]_Slot!vars
<1> SUFFICES ASSUME GateInv, GateInv', [Next]_gateVars
             PROVE  [Slot!Next]_Slot!vars
  OBVIOUS
<1>a. \A g \in Gates : /\ IsOwner(g, OwnerOf(g))
                       /\ \A o : IsOwner(g, o) => OwnerOf(g) = o
  BY OwnerUnique
<1>b. \A g \in Gates : /\ IsOwner(g, OwnerOf(g))'
                       /\ \A o : IsOwner(g, o)' => OwnerOf(g)' = o
  <2>1. (GateInv => \A g \in Gates : /\ IsOwner(g, OwnerOf(g))
                                     /\ \A o : IsOwner(g, o) => OwnerOf(g) = o)'
    BY OwnerUnique, PTL
  <2> QED BY <2>1
<1>c. ASSUME UNCHANGED pending,
             \A d \in Callers : (Owns(d)' <=> Owns(d)) /\ (Owns(d) => at'[d] = at[d])
      PROVE  UNCHANGED Slot!vars
  <2>1. \A g \in Gates : OwnerOf(g)' = OwnerOf(g)
    BY <1>a, <1>b, <1>c DEF IsOwner
  <2> QED BY <1>c, <2>1 DEF Slot!vars
<1>d. ASSUME NEW c \in Callers, pc[c] \in {"held", "surrender"}, ReleaseGate(at[c]),
             NEW place \in {"released", "refused"}, Goto(c, place), UNCHANGED at
      PROVE  Slot!Free(at[c])
  <2>1. /\ at[c] \in Gates
        /\ OwnerOf(at[c]) = c
    BY <1>a, <1>d DEF GateInv, TypeOK, IsOwner, Owns
  <2>2. \A d \in Callers : Owns(d)' <=> (Owns(d) /\ d # c) \/ d = pending[at[c]]
    BY <1>d, <2>1, GateAssumption
       DEF GateInv, TypeOK, WaiterRemembered, Owns, ReleaseGate, Goto
  <2>3. \A g \in Gates : OwnerOf(g)' = IF g = at[c] THEN pending[g] ELSE OwnerOf(g)
    <3> TAKE g \in Gates
    <3>1. CASE g # at[c]
      <4>1. pending[at[c]] # NoCaller => at[pending[at[c]]] = at[c]
        BY <2>1 DEF GateInv, WaiterRemembered
      <4> QED BY <1>a, <1>b, <1>d, <2>1, <2>2, <3>1, <4>1, GateAssumption
              DEF IsOwner
    <3>2. CASE g = at[c]
      <4>1. pending[g] # NoCaller => pending[g] \in Callers /\ at[pending[g]] = g
        BY DEF GateInv, TypeOK, WaiterRemembered
      <4>2. \A d \in Callers : Owns(d) /\ at[d] = g => d = c
        BY <2>1, <3>2, <1>a DEF IsOwner
      <4> QED BY <1>b, <1>d, <2>2, <3>2, <4>1, <4>2, GateAssumption DEF IsOwner
    <3> QED BY <3>1, <3>2
  <2>4. [g \in Gates |-> OwnerOf(g)'] =
            [[g \in Gates |-> OwnerOf(g)] EXCEPT ![at[c]] = pending[at[c]]]
    BY <2>1, <2>3, ZenonT(30)
  <2>5. OwnerOf(at[c]) # NoCaller /\ pending' = [pending EXCEPT ![at[c]] = NoCaller]
    BY <1>d, <2>1, GateAssumption DEF ReleaseGate
  <2> QED BY <2>1, <2>4, <2>5 DEF Slot!Free
<1>1. ASSUME NEW c \in Callers, NEW g \in Gates, Call(c, g)
      PROVE  UNCHANGED Slot!vars
  BY <1>1, <1>c DEF GateInv, TypeOK, Owns, Call, Goto
<1>2. ASSUME NEW c \in Callers, Cancel(c) PROVE UNCHANGED Slot!vars
  BY <1>2, <1>c DEF Owns, Cancel
<1>3. ASSUME NEW c \in Callers, CheckContext(c) \/ Refuse(c) \/ Return(c)
      PROVE  UNCHANGED Slot!vars
  BY <1>3, <1>c DEF GateInv, TypeOK, Owns, CheckContext, Refuse, Return, Goto
<1>4. ASSUME NEW c \in Callers, Admit(c) PROVE Slot!Grant(at[c], c) /\ at[c] \in Gates
  <2>1. at[c] \in Gates /\ OwnerOf(at[c]) = NoCaller
    BY <1>4, <1>a DEF GateInv, TypeOK, LeaseConserved, IsOwner, Admit
  <2>2. \A d \in Callers : Owns(d)' <=> Owns(d) \/ d = c
    BY <1>4 DEF GateInv, TypeOK, Owns, Admit, Goto
  <2>3. \A g \in Gates : OwnerOf(g)' = IF g = at[c] THEN c ELSE OwnerOf(g)
    BY <1>4, <1>a, <1>b, <2>1, <2>2 DEF IsOwner, Admit
  <2> QED BY <1>4, <2>1, <2>3 DEF Slot!Grant, Admit
<1>5. ASSUME NEW c \in Callers, Queue(c) PROVE Slot!Queue(at[c], c) /\ at[c] \in Gates
  <2>1. at[c] \in Gates /\ OwnerOf(at[c]) \notin {NoCaller, c}
    BY <1>5, <1>a, GateAssumption
       DEF GateInv, TypeOK, LeaseConserved, IsOwner, Owns, Queue
  <2>2. \A d \in Callers : Owns(d)' <=> Owns(d)
    BY <1>5 DEF GateInv, TypeOK, Owns, Queue, Goto
  <2>3. \A g \in Gates : OwnerOf(g)' = OwnerOf(g)
    BY <1>5, <1>a, <1>b, <2>2 DEF IsOwner, Queue
  <2> QED BY <1>5, <2>1, <2>3 DEF Slot!Queue, Queue
<1>6. ASSUME NEW c \in Callers, ReceiveHandoff(c) PROVE UNCHANGED Slot!vars
  BY <1>6, <1>c DEF GateInv, TypeOK, Owns, ReceiveHandoff, Goto
<1>7. ASSUME NEW c \in Callers, GiveUp(c)
      PROVE  (Slot!Leave(at[c]) /\ at[c] \in Gates) \/ UNCHANGED Slot!vars
  <2>1. /\ at[c] \in Gates
        /\ pending[at[c]] = c => c \notin closed
        /\ pending[at[c]] # c => c \in closed
    BY <1>7, GateAssumption DEF GateInv, TypeOK, WaiterRemembered, GiveUp
  <2>2. \A d \in Callers : Owns(d)' <=> Owns(d)
    BY <1>7, <2>1 DEF GateInv, TypeOK, Owns, GiveUp, Goto
  <2>3. \A g \in Gates : OwnerOf(g)' = OwnerOf(g)
    BY <1>7, <1>a, <1>b, <2>2 DEF IsOwner, GiveUp
  <2> QED BY <1>7, <2>1, <2>3, GateAssumption DEF Slot!Leave, Slot!vars, GiveUp
<1>8. ASSUME NEW c \in Callers, Surrender(c) PROVE Slot!Free(at[c]) /\ at[c] \in Gates
  BY <1>8, <1>d DEF GateInv, TypeOK, Surrender
<1>9. ASSUME NEW c \in Callers, ReleaseLease(c)
      PROVE  (Slot!Free(at[c]) /\ at[c] \in Gates) \/ UNCHANGED Slot!vars
  <2>1. CASE pc[c] = "held"
    BY <1>9, <1>d, <2>1 DEF GateInv, TypeOK, ReleaseLease
  <2>2. CASE pc[c] = "released"
    BY <1>9, <1>c, <2>2 DEF GateInv, TypeOK, Owns, ReleaseLease, Goto
  <2> QED BY <1>9, <2>1, <2>2 DEF ReleaseLease
<1>10. CASE UNCHANGED gateVars
  BY <1>10, <1>c DEF Owns, gateVars
<1> QED
  BY <1>1, <1>2, <1>3, <1>4, <1>5, <1>6, <1>7, <1>8, <1>9, <1>10
     DEF Next, GateStep, Slot!Next

\* The gate implements LeaseSlot: to its callers it is one active lease with
\* one queued caller behind it.
THEOREM GateImplementsSlot == Spec => ImplementsSlot
<1>1. Init => Slot!Init
  BY DEF Init, Slot!Init, OwnerOf, Owns
<1> QED BY <1>1, SlotStep, GateInvariance, PTL DEF Spec, ImplementsSlot, Slot!Spec
-----------------------------------------------------------------------------
\* The table's calls and gates agree: a goroutine between calls refers to no
\* gate, the callers of one gate have one tenant, and a tracked gate is called
\* for the tenant it is tracked under.
CallsAgree ==
    /\ \A c \in Callers : pc[c] = "idle" => at[c] = NoGate
    /\ \A c \in Callers : at[c] # NoGate => tenant[c] \in Tenants
    /\ \A c, d \in Callers : at[c] = at[d] /\ at[c] # NoGate => tenant[c] = tenant[d]
    /\ \A c \in Callers, t \in Tenants :
           gates[t] = at[c] /\ at[c] # NoGate => tenant[c] = t

\* The table's inductive invariant.  TenantsIndependent follows from it.
TableInv == /\ GateInv
            /\ TableTypeOK
            /\ IsFiniteSet(Tracked)
            /\ CallsAgree
            /\ GatesReclaimed

\* Whoever is queued is queued behind its own tenant's lease, because the gate
\* it is queued on is active, and the callers of a gate share a tenant.
LEMMA TableInvSound == TableInv => TableSound
<1> SUFFICES ASSUME TableInv PROVE TenantsIndependent
  BY DEF TableInv, TableSound
<1> SUFFICES ASSUME NEW c \in Callers, pc[c] = "select"
             PROVE  \E d \in Callers : Owns(d) /\ at[d] = at[c] /\ tenant[d] = tenant[c]
  BY DEF TenantsIndependent
<1>1. at[c] \in Gates
  BY DEF TableInv, GateInv, TypeOK
<1>2. CASE c \in closed
  BY <1>2 DEF Owns
<1>3. CASE pending[at[c]] = c
  <2>1. active[at[c]]
    BY <1>1, <1>3, GateAssumption DEF TableInv, GateInv, WaiterRemembered
  <2>2. PICK d \in Callers : Owns(d) /\ at[d] = at[c]
    BY <1>1, <2>1 DEF TableInv, GateInv, LeaseConserved
  <2> QED BY <1>1, <2>2, GateAssumption DEF TableInv, CallsAgree
<1> QED BY <1>2, <1>3 DEF TableInv, GateInv, WaiterRemembered

\* A step of the gate alone leaves the table as it was.
LEMMA GateStepKeepsTable ==
    ASSUME TableInv, NEW c \in Callers, Cancel(c) \/ GateStep(c), UNCHANGED tableVars
    PROVE  TableInv'
<1>1. GateInv'
  BY GateInvStep DEF TableInv, Next
<1>2. UNCHANGED at
  BY DEF Cancel, GateStep, CheckContext, Admit, Refuse, Queue, ReceiveHandoff,
         GiveUp, Surrender, ReleaseLease
<1>3. \A d \in Callers : pc'[d] = "idle" => pc[d] = "idle"
  BY DEF TableInv, GateInv, TypeOK, Cancel, GateStep, CheckContext, Admit, Refuse,
         Queue, ReceiveHandoff, GiveUp, Surrender, ReleaseLease, Goto
<1>4. Tracked' = Tracked
  BY DEF Tracked, tableVars
<1>5. TableTypeOK'
  BY <1>1, <1>4 DEF GateInv, TableInv, TableTypeOK, tableVars
<1>6. CallsAgree'
  BY <1>2, <1>3 DEF TableInv, CallsAgree, tableVars
<1>7. GatesReclaimed'
  BY <1>2, <1>4 DEF TableInv, GatesReclaimed, tableVars
<1> QED BY <1>1, <1>4, <1>5, <1>6, <1>7 DEF TableInv

\* Lookup, drop and every gate step between them keep the table's invariant.
THEOREM TableInvStep == TableInv /\ [TableNext]_vars => TableInv'
<1> SUFFICES ASSUME TableInv, [TableNext]_vars PROVE TableInv'
  OBVIOUS
<1>1. ASSUME NEW c \in Callers, NEW t \in Tenants, LookupExisting(c, t)
      PROVE  TableInv'
  <2>1. gates[t] \in Gates /\ at[c] = NoGate /\ at' = [at EXCEPT ![c] = gates[t]]
        /\ pc' = [pc EXCEPT ![c] = "enter"]
    BY <1>1 DEF TableInv, TableTypeOK, CallsAgree, LookupExisting, Call, Goto
  <2>2. GateInv'
    BY <1>1, <2>1, GateInvStep DEF TableInv, Next, LookupExisting
  <2>3. Tracked' = Tracked
    BY <1>1 DEF Tracked, LookupExisting
  <2>4. TableTypeOK'
    BY <1>1, <2>2, <2>3 DEF GateInv, TableInv, TableTypeOK, LookupExisting
  <2>5. CallsAgree'
    <3>1. \A d \in Callers : at[d] = gates[t] => tenant[d] = t
      BY <2>1, GateAssumption DEF TableInv, CallsAgree
    <3>2. \A u \in Tenants : gates[u] = gates[t] => u = t
      BY <2>1, GateAssumption DEF TableInv, GatesReclaimed, CallsAgree, Tracked
    <3> QED BY <1>1, <2>1, <3>1, <3>2
            DEF TableInv, TableTypeOK, GateInv, TypeOK, CallsAgree, LookupExisting
  <2>6. GatesReclaimed'
    BY <1>1, <2>1, <2>3, GateAssumption
       DEF TableInv, TableTypeOK, GateInv, TypeOK, GatesReclaimed, LookupExisting, Tracked
  <2> QED BY <2>2, <2>3, <2>4, <2>5, <2>6 DEF TableInv
<1>2. ASSUME NEW c \in Callers, NEW t \in Tenants, LookupNew(c, t) PROVE TableInv'
  <2>1. PICK g \in Gates : /\ Fresh(g) /\ Call(c, g)
                           /\ gates' = [gates EXCEPT ![t] = g]
    BY <1>2, ZenonT(30) DEF LookupNew
  <2>2. at[c] = NoGate /\ at' = [at EXCEPT ![c] = g] /\ g # NoGate
        /\ pc' = [pc EXCEPT ![c] = "enter"]
    BY <1>2, <2>1, GateAssumption, ZenonT(30) DEF TableInv, CallsAgree, LookupNew, Call, Goto
  <2>3. GateInv'
    BY <2>1, GateInvStep DEF TableInv, Next
  <2>4. Tracked' = Tracked \cup {t} /\ t \notin Tracked
    BY <1>2, <2>1, <2>2, ZenonT(30) DEF TableInv, TableTypeOK, Tracked, LookupNew
  <2>5. IsFiniteSet(Tracked') /\ Cardinality(Tracked') <= MaxKeys
    <3>1. IsFiniteSet(Tracked) /\ Cardinality(Tracked) \in Nat
          /\ Cardinality(Tracked) < MaxKeys
      BY <1>2, FS_CardinalityType DEF TableInv, LookupNew
    <3>2. /\ IsFiniteSet(Tracked \cup {t})
          /\ Cardinality(Tracked \cup {t}) = Cardinality(Tracked) + 1
      BY <2>4, <3>1, FS_AddElement
    <3> QED BY <2>4, <3>1, <3>2, TableAssumption
  <2>6. TableTypeOK'
    BY <1>2, <2>1, <2>3, <2>5 DEF GateInv, TableInv, TableTypeOK, LookupNew
  <2>7. CallsAgree'
    BY <1>2, <2>1, <2>2
       DEF TableInv, TableTypeOK, GateInv, TypeOK, CallsAgree, LookupNew, Fresh
  <2>8. GatesReclaimed'
    <3>1. at'[c] = gates'[t] /\ tenant'[c] = t
      BY <1>2, <2>1, <2>2 DEF TableInv, TableTypeOK, GateInv, TypeOK, LookupNew
    <3>2. ASSUME NEW u \in Tracked
          PROVE  \E d \in Callers : at'[d] = gates'[u] /\ tenant'[d] = u
      BY <1>2, <2>1, <2>2, <2>4
         DEF TableInv, TableTypeOK, GateInv, TypeOK, GatesReclaimed, LookupNew, Tracked
    <3> QED BY <2>4, <3>1, <3>2 DEF GatesReclaimed
  <2> QED BY <2>3, <2>5, <2>6, <2>7, <2>8 DEF TableInv
<1>3. ASSUME NEW c \in Callers, NEW t \in Tenants, LookupFull(c, t) PROVE TableInv'
  <2>1. at[c] = NoGate /\ pc' = [pc EXCEPT ![c] = "refused"]
    BY <1>3 DEF TableInv, CallsAgree, LookupFull, Goto
  <2>2. GateInv'
    BY <1>3, MoveKeepsInv DEF TableInv, GateInv, TypeOK, LookupFull
  <2>3. Tracked' = Tracked
    BY <1>3 DEF Tracked, LookupFull
  <2>4. TableTypeOK'
    BY <1>3, <2>2, <2>3 DEF GateInv, TableInv, TableTypeOK, LookupFull
  <2>5. CallsAgree'
    BY <1>3, <2>1 DEF TableInv, TableTypeOK, GateInv, TypeOK, CallsAgree, LookupFull
  <2>6. GatesReclaimed'
    BY <1>3, <2>1, <2>3
       DEF TableInv, TableTypeOK, GatesReclaimed, LookupFull, Tracked
  <2> QED BY <2>2, <2>3, <2>4, <2>5, <2>6 DEF TableInv
<1>4. ASSUME NEW c \in Callers, Cancel(c) \/ GateStep(c), UNCHANGED tableVars
      PROVE  TableInv'
  BY <1>4, GateStepKeepsTable
<1>5. ASSUME NEW c \in Callers, DropIfIdle(c) PROVE TableInv'
  <2>1. /\ at' = [at EXCEPT ![c] = NoGate]
        /\ pc[c] \in {"released", "refused"} /\ pc' = [pc EXCEPT ![c] = "idle"]
        /\ tenant' = [tenant EXCEPT ![c] = NoTenant]
        /\ \A t \in Tenants : t # tenant[c] => gates'[t] = gates[t]
        /\ \A t \in Tenants : gates'[t] \in {gates[t], NoGate}
        /\ gates' \in [Tenants -> Gates \cup {NoGate}]
    BY <1>5, ZenonT(30) DEF TableInv, TableTypeOK, DropIfIdle, Return, Goto
  <2>2. GateInv'
    BY <1>5, GateInvStep DEF TableInv, Next, DropIfIdle
  <2>3. Tracked' \subseteq Tracked
    BY <2>1 DEF Tracked
  <2>4. IsFiniteSet(Tracked') /\ Cardinality(Tracked') <= MaxKeys
    BY <2>3, FS_Subset, FS_CardinalityType, TableAssumption DEF TableInv, TableTypeOK
  <2>5. TableTypeOK'
    BY <2>1, <2>2, <2>4 DEF GateInv, TableInv, TableTypeOK
  <2>6. CallsAgree'
    BY <2>1 DEF TableInv, TableTypeOK, GateInv, TypeOK, CallsAgree
  <2>7. GatesReclaimed'
    <3> SUFFICES ASSUME NEW t \in Tracked'
                 PROVE  \E d \in Callers : at'[d] = gates'[t] /\ tenant'[d] = t
      BY DEF GatesReclaimed
    <3>1. t \in Tenants /\ t \in Tracked /\ gates'[t] = gates[t] /\ gates[t] \in Gates
      BY <2>1, <2>3 DEF Tracked, TableInv, TableTypeOK
    <3>2. PICK d \in Callers : at[d] = gates[t] /\ tenant[d] = t
      BY <3>1 DEF TableInv, GatesReclaimed
    <3>3. CASE d # c
      BY <2>1, <3>1, <3>2, <3>3 DEF TableInv, TableTypeOK, GateInv, TypeOK
    <3>4. CASE d = c
      <4>1. active[at[c]] \/ pending[at[c]] # NoCaller
        BY <1>5, <3>1, <3>2, <3>4, GateAssumption
           DEF DropIfIdle, Tracked, TableInv, TableTypeOK
      <4>2. active[at[c]]
        BY <3>1, <3>2, <3>4, <4>1 DEF TableInv, GateInv, WaiterRemembered
      <4>3. PICK e \in Callers : Owns(e) /\ at[e] = at[c]
        BY <3>1, <3>2, <3>4, <4>2 DEF TableInv, GateInv, LeaseConserved
      <4>4. e # c /\ tenant[e] = t
        BY <2>1, <3>1, <3>2, <3>4, <4>3, GateAssumption, SMTT(20)
           DEF Owns, TableInv, CallsAgree
      <4> QED BY <2>1, <3>1, <3>2, <3>4, <4>3, <4>4
              DEF TableInv, TableTypeOK, GateInv, TypeOK
    <3> QED BY <3>3, <3>4
  <2> QED BY <2>2, <2>4, <2>5, <2>6, <2>7 DEF TableInv
<1>6. CASE UNCHANGED vars
  <2>1. GateInv'
    BY <1>6, GateInvStep DEF TableInv, vars
  <2>2. Tracked' = Tracked
    BY <1>6 DEF vars, tableVars, Tracked
  <2> QED BY <1>6, <2>1, <2>2
          DEF TableInv, TableTypeOK, GateInv, CallsAgree, GatesReclaimed, vars,
              tableVars, gateVars
<1> QED BY <1>1, <1>2, <1>3, <1>4, <1>5, <1>6 DEF TableNext

\* The table's invariant for every number of callers, tenants and gates.
THEOREM TableInvariance == TableSpec => []TableInv
<1>1. TableInit => TableInv
  <2> SUFFICES ASSUME TableInit PROVE TableInv
    OBVIOUS
  <2>1. GateInv
    BY GateAssumption
       DEF TableInit, Init, GateInv, TypeOK, LeaseConserved, WaiterRemembered, Owns, Places
  <2>2. Tracked = {}
    BY DEF TableInit, Tracked
  <2>3. IsFiniteSet(Tracked) /\ Cardinality(Tracked) <= MaxKeys
    BY <2>2, FS_EmptySet, TableAssumption
  <2> QED BY <2>1, <2>2, <2>3
          DEF TableInv, TableInit, Init, TableTypeOK, GateInv, CallsAgree, GatesReclaimed
<1> QED BY <1>1, TableInvStep, PTL DEF TableSpec

\* The table of gates (admissionTable.acquire, dropIfIdle) keeps within its
\* limit, keeps its gates' leases, retains no idle gate and queues nobody
\* behind another tenant, for every number of callers, tenants and gates.
THEOREM TableIsSound == TableSpec => []TableSound
BY TableInvariance, TableInvSound, PTL

\* A call the full table refuses touches no gate.
LEMMA RefusedBeforeGate ==
    ASSUME TableInv, TableInv', NEW c \in Callers, NEW t \in Tenants, LookupFull(c, t)
    PROVE  UNCHANGED Slot!vars
<1>1. \A d \in Callers : (Owns(d)' <=> Owns(d)) /\ at'[d] = at[d]
  BY DEF TableInv, GateInv, TypeOK, Owns, LookupFull, Goto
<1>2. \A g \in Gates : /\ IsOwner(g, OwnerOf(g))
                       /\ \A o : IsOwner(g, o) => OwnerOf(g) = o
  BY OwnerUnique DEF TableInv
<1>3. (GateInv => \A g \in Gates : /\ IsOwner(g, OwnerOf(g))
                                   /\ \A o : IsOwner(g, o) => OwnerOf(g) = o)'
  BY OwnerUnique, PTL
<1>4. \A g \in Gates : \A o : IsOwner(g, o)' <=> IsOwner(g, o)
  BY <1>1 DEF IsOwner
<1>5. \A g \in Gates : OwnerOf(g)' = OwnerOf(g)
  BY <1>2, <1>3, <1>4 DEF TableInv
<1> QED BY <1>5 DEF Slot!vars, LookupFull

\* Every gate of the table is one active lease with one queued caller behind
\* it, from its creation on the first lookup to the drop and through every
\* later use: the table adds no step to a gate and takes none away.
THEOREM TableImplementsSlot == TableSpec => ImplementsSlot
<1>1. TableInit => Slot!Init
  BY DEF TableInit, Init, Slot!Init, OwnerOf, Owns
<1>2. TableInv /\ TableInv' /\ [TableNext]_vars => [Slot!Next]_Slot!vars
  <2> SUFFICES ASSUME TableInv, TableInv', [TableNext]_vars
               PROVE  [Slot!Next]_Slot!vars
    OBVIOUS
  <2>1. ASSUME NEW c \in Callers, NEW t \in Tenants, LookupFull(c, t)
        PROVE  [Slot!Next]_Slot!vars
    BY <2>1, RefusedBeforeGate
  <2>2. ASSUME NEW c \in Callers, NEW t \in Tenants, LookupExisting(c, t)
        PROVE  Next
    BY <2>2 DEF LookupExisting, Next, TableInv, TableTypeOK
  <2>3. ASSUME NEW c \in Callers, NEW t \in Tenants, LookupNew(c, t) PROVE Next
    BY <2>3 DEF LookupNew, Next
  <2>4. ASSUME NEW c \in Callers, Cancel(c) \/ GateStep(c) \/ DropIfIdle(c) PROVE Next
    BY <2>4 DEF Next, DropIfIdle
  <2>5. CASE UNCHANGED vars
    BY <2>5, SlotStep DEF TableInv, vars
  <2> QED BY <2>1, <2>2, <2>3, <2>4, <2>5, SlotStep DEF TableNext, TableInv
<1> QED BY <1>1, <1>2, TableInvariance, PTL
        DEF TableSpec, ImplementsSlot, Slot!Spec

-----------------------------------------------------------------------------
(***************************************************************************)
(* The recovery of a launch for any number of recovering hosts, faults and *)
(* crashes.  MarkerSound is not inductive: that the marker is only written *)
(* over removed files rests on what each flag of a claim stands for        *)
(* (ClaimMeans), and the flags of two claims do not get in each other's    *)
(* way because all but one claim are idle or released, by the locks.  No   *)
(* claim exists while the launching host lives (LaunchSide).               *)
(***************************************************************************)

Claims == [pc : {"idle", "handle", "recovering"}, phase : Phases,
           pinned : BOOLEAN, store : BOOLEAN, process : BOOLEAN, pending : BOOLEAN,
           quiesced : BOOLEAN, recovering : BOOLEAN, recovered : BOOLEAN,
           releaseStarted : BOOLEAN, poisoned : BOOLEAN, closed : BOOLEAN,
           released : BOOLEAN, spoilt : BOOLEAN]

ClaimPlaces == {"start", "record", "group", "both", "sealed", "running", "closing",
           "released", "gone", "dead"}

\* The ranges of the variables, and whom the locks belong to.
RecoveryShape ==
    /\ launcher \in ClaimPlaces /\ journalled \in BOOLEAN
    /\ record \in {"absent", "partial", "sealed"}
    /\ group \in [owner : {"none", "original", "later"}, fill : {"empty", "nested", "busy"}]
    /\ images \in BOOLEAN /\ staging \in BOOLEAN /\ ready \in BOOLEAN
    /\ recoveryFaults \in 0..MaxRecoveryFaults /\ recoveryCrashes \in 0..MaxRecoveryCrashes
    /\ claim \in [Hosts -> Claims]
    /\ lock \in Hosts \cup {NoHost, "launcher"}

\* What the launching host has left at each of its places.
LaunchSide ==
    /\ Alive => ~ready /\ \A h \in Hosts : claim[h].pc = "idle"
    /\ launcher \in {"start", "group"} => record = "absent"
    /\ lock = "launcher" => launcher \in {"sealed", "running", "closing"}
    /\ launcher = "released" => ~Original /\ ~images /\ ~staging
    /\ staging => journalled
    /\ ready => ~images /\ ~staging /\ ~(Original /\ group.fill = "busy")

\* What a claim stands for.
ClaimMeans(h) ==
    LET c == claim[h]
    IN /\ lock = h <=> c.pc # "idle" /\ ~c.closed
       /\ c.pc = "idle" => ~c.pinned /\ ~c.closed /\ ~c.recovered /\ ~c.releaseStarted
                           /\ c.phase = "claimed"
       /\ c.pinned => Original /\ ~c.closed
       /\ c.closed => ready
       /\ c.phase = "complete" => c.closed /\ ~Original
       /\ c.recovered => ~staging
       /\ c.releaseStarted => ~images

\* The inductive invariant.
RecoveryInv == RecoveryShape /\ LaunchSide /\ \A h \in Hosts : ClaimMeans(h)

\* The claim a constructor returns is one, and so is a host's without claim.
LEMMA NewClaimTypes ==
    /\ NewClaim \in Claims /\ NoClaim \in Claims
    /\ NewClaim.pc = "handle" /\ NoClaim.pc = "idle"
    /\ \A c \in {NewClaim, NoClaim} : /\ c.phase = "claimed" /\ ~c.pinned /\ ~c.closed
                                      /\ ~c.recovered /\ ~c.releaseStarted
<1>1. NewClaim \in Claims
  BY DEF NewClaim, Claims, Phases
<1>2. /\ NewClaim.pc = "handle" /\ NewClaim.phase = "claimed" /\ ~NewClaim.pinned
      /\ ~NewClaim.closed /\ ~NewClaim.recovered /\ ~NewClaim.releaseStarted
  BY DEF NewClaim
<1>3. NoClaim \in Claims
  BY <1>1 DEF NoClaim, Claims
<1>4. /\ NoClaim.pc = "idle" /\ NoClaim.phase = "claimed" /\ ~NoClaim.pinned
      /\ ~NoClaim.closed /\ ~NoClaim.recovered /\ ~NoClaim.releaseStarted
  BY <1>1, <1>2 DEF NoClaim, Claims
<1> QED BY <1>1, <1>2, <1>3, <1>4

\* The initial states satisfy the invariant.
LEMMA InitRecoveryInv == RecoveryInit => RecoveryInv
<1> SUFFICES ASSUME RecoveryInit PROVE RecoveryInv
  OBVIOUS
<1>1. RecoveryShape
  <2>1. /\ journalled \in BOOLEAN /\ images \in BOOLEAN /\ staging \in BOOLEAN
        /\ ready \in BOOLEAN
    BY RecoveryAssumption, ZenonT(30) DEF RecoveryInit
  <2>2. claim \in [Hosts -> Claims]
    BY NewClaimTypes, ZenonT(30) DEF RecoveryInit
  <2> QED BY <2>1, <2>2, RecoveryAssumption
          DEF RecoveryInit, RecoveryShape, ClaimPlaces, NoGroup
<1>2. LaunchSide
  BY NewClaimTypes DEF RecoveryInit, LaunchSide, Original, NoGroup, NoHost
<1>3. \A h \in Hosts : ClaimMeans(h)
  BY NewClaimTypes, RecoveryAssumption, ZenonT(30) DEF RecoveryInit, ClaimMeans, NoHost
<1> QED BY <1>1, <1>2, <1>3 DEF RecoveryInv
-----------------------------------------------------------------------------
\* The launching host's steps: no claim changes, and while the host lives there
\* is none.
LEMMA LaunchKeeps == ASSUME RecoveryInv, Launch PROVE RecoveryInv'
<1> USE RecoveryAssumption DEF RecoveryInv, recoveryBounds, recoveryDisk
<1>1. CASE CreateRecord
  <2>1. RecoveryShape'
    BY <1>1 DEF CreateRecord, RecoveryShape, ClaimPlaces, NoGroup, NoHost
  <2>2. LaunchSide'
    BY <1>1 DEF CreateRecord, RecoveryShape, LaunchSide, Alive, Original, NoGroup, NoHost
  <2>3. \A h \in Hosts : ClaimMeans(h)'
    BY <1>1 DEF CreateRecord, RecoveryShape, LaunchSide, ClaimMeans, Alive, Original, NoGroup, NoHost
  <2> QED BY <2>1, <2>2, <2>3
<1>2. CASE NewServiceGroup
  <2>1. RecoveryShape'
    BY <1>2 DEF NewServiceGroup, RecoveryShape, ClaimPlaces, NoGroup, NoHost
  <2>2. LaunchSide'
    BY <1>2 DEF NewServiceGroup, RecoveryShape, LaunchSide, Alive, Original, NoGroup, NoHost
  <2>3. \A h \in Hosts : ClaimMeans(h)'
    BY <1>2 DEF NewServiceGroup, RecoveryShape, LaunchSide, ClaimMeans, Alive, Original, NoGroup, NoHost
  <2> QED BY <2>1, <2>2, <2>3
<1>3. CASE PersistLaunchCheckpoint
  <2>1. RecoveryShape'
    BY <1>3 DEF PersistLaunchCheckpoint, RecoveryShape, ClaimPlaces, NoGroup, NoHost
  <2>2. LaunchSide'
    BY <1>3 DEF PersistLaunchCheckpoint, RecoveryShape, LaunchSide, Alive, Original, NoGroup, NoHost
  <2>3. \A h \in Hosts : ClaimMeans(h)'
    BY <1>3 DEF PersistLaunchCheckpoint, RecoveryShape, LaunchSide, ClaimMeans, Alive, Original, NoGroup, NoHost
  <2> QED BY <2>1, <2>2, <2>3
<1>4. CASE StartProcesses
  <2>1. RecoveryShape'
    BY <1>4 DEF StartProcesses, RecoveryShape, ClaimPlaces, NoGroup, NoHost
  <2>2. LaunchSide'
    BY <1>4 DEF StartProcesses, RecoveryShape, LaunchSide, Alive, Original, NoGroup, NoHost
  <2>3. \A h \in Hosts : ClaimMeans(h)'
    BY <1>4 DEF StartProcesses, RecoveryShape, LaunchSide, ClaimMeans, Alive, Original, NoGroup, NoHost
  <2> QED BY <2>1, <2>2, <2>3
<1>5. CASE BeginWrite
  <2>1. RecoveryShape'
    BY <1>5 DEF BeginWrite, RecoveryShape, ClaimPlaces, NoGroup, NoHost
  <2>2. LaunchSide'
    BY <1>5 DEF BeginWrite, RecoveryShape, LaunchSide, Alive, Original, NoGroup, NoHost
  <2>3. \A h \in Hosts : ClaimMeans(h)'
    BY <1>5 DEF BeginWrite, RecoveryShape, LaunchSide, ClaimMeans, Alive, Original, NoGroup, NoHost
  <2> QED BY <2>1, <2>2, <2>3
<1>6. CASE BeginClose
  <2>1. RecoveryShape'
    BY <1>6 DEF BeginClose, RecoveryShape, ClaimPlaces, NoGroup, NoHost
  <2>2. LaunchSide'
    BY <1>6 DEF BeginClose, RecoveryShape, LaunchSide, Alive, Original, NoGroup, NoHost
  <2>3. \A h \in Hosts : ClaimMeans(h)'
    BY <1>6 DEF BeginClose, RecoveryShape, LaunchSide, ClaimMeans, Alive, Original, NoGroup, NoHost
  <2> QED BY <2>1, <2>2, <2>3
<1>7. CASE CleanupProcesses
  <2>1. RecoveryShape'
    BY <1>7 DEF CleanupProcesses, RecoveryShape, ClaimPlaces, NoGroup, NoHost
  <2>2. LaunchSide'
    BY <1>7 DEF CleanupProcesses, RecoveryShape, LaunchSide, Alive, Original, NoGroup, NoHost
  <2>3. \A h \in Hosts : ClaimMeans(h)'
    BY <1>7 DEF CleanupProcesses, RecoveryShape, LaunchSide, ClaimMeans, Alive, Original, NoGroup, NoHost
  <2> QED BY <2>1, <2>2, <2>3
<1>8. CASE CleanupFiles
  <2>1. RecoveryShape'
    BY <1>8, ZenonT(30) DEF CleanupFiles, RecoveryShape, ClaimPlaces, NoGroup, NoHost
  <2>2. LaunchSide'
    BY <1>8 DEF CleanupFiles, RecoveryShape, LaunchSide, Alive, Original, NoGroup, NoHost
  <2>3. \A h \in Hosts : ClaimMeans(h)'
    BY <1>8 DEF CleanupFiles, RecoveryShape, LaunchSide, ClaimMeans, Alive, Original, NoGroup, NoHost
  <2> QED BY <2>1, <2>2, <2>3
<1>9. CASE CloseStores
  <2>1. RecoveryShape'
    BY <1>9 DEF CloseStores, RecoveryShape, ClaimPlaces, NoGroup, NoHost
  <2>2. LaunchSide'
    BY <1>9 DEF CloseStores, RecoveryShape, LaunchSide, Alive, Original, NoGroup, NoHost
  <2>3. \A h \in Hosts : ClaimMeans(h)'
    BY <1>9 DEF CloseStores, RecoveryShape, LaunchSide, ClaimMeans, Alive, Original, NoGroup, NoHost
  <2> QED BY <2>1, <2>2, <2>3
<1>10. CASE CleanupGroup
  <2>1. RecoveryShape'
    BY <1>10 DEF CleanupGroup, RecoveryShape, ClaimPlaces, NoGroup, NoHost
  <2>2. LaunchSide'
    BY <1>10 DEF CleanupGroup, RecoveryShape, LaunchSide, Alive, Original, NoGroup, NoHost
  <2>3. \A h \in Hosts : ClaimMeans(h)'
    BY <1>10 DEF CleanupGroup, RecoveryShape, LaunchSide, ClaimMeans, Alive, Original, NoGroup, NoHost
  <2> QED BY <2>1, <2>2, <2>3
<1>11. CASE RemoveOwnRecord
  <2>1. RecoveryShape'
    BY <1>11 DEF RemoveOwnRecord, Unlinked, RecoveryShape, ClaimPlaces, NoGroup, NoHost
  <2>2. LaunchSide'
    BY <1>11 DEF RemoveOwnRecord, Unlinked, RecoveryShape, LaunchSide, Alive, Original, NoGroup, NoHost
  <2>3. \A h \in Hosts : ClaimMeans(h)'
    BY <1>11 DEF RemoveOwnRecord, Unlinked, RecoveryShape, LaunchSide, ClaimMeans, Alive, Original, NoGroup, NoHost
  <2> QED BY <2>1, <2>2, <2>3
<1>12. CASE LaunchHostDies
  <2>1. RecoveryShape'
    BY <1>12 DEF LaunchHostDies, RecoveryShape, ClaimPlaces, NoGroup, NoHost
  <2>2. LaunchSide'
    BY <1>12 DEF LaunchHostDies, RecoveryShape, LaunchSide, Alive, Original, NoGroup, NoHost
  <2>3. \A h \in Hosts : ClaimMeans(h)'
    BY <1>12 DEF LaunchHostDies, RecoveryShape, LaunchSide, ClaimMeans, Alive, Original, NoGroup, NoHost
  <2> QED BY <2>1, <2>2, <2>3
<1>13. CASE WatchdogKills
  <2>1. RecoveryShape'
    BY <1>13 DEF WatchdogKills, RecoveryShape, ClaimPlaces, NoGroup, NoHost
  <2>2. LaunchSide'
    BY <1>13 DEF WatchdogKills, RecoveryShape, LaunchSide, Alive, Original, NoGroup, NoHost
  <2>3. \A h \in Hosts : ClaimMeans(h)'
    BY <1>13 DEF WatchdogKills, RecoveryShape, LaunchSide, ClaimMeans, Alive, Original, NoGroup, NoHost
  <2> QED BY <2>1, <2>2, <2>3
<1>14. CASE LaterLaunch
  <2>1. RecoveryShape'
    BY <1>14 DEF LaterLaunch, RecoveryShape, ClaimPlaces, NoGroup, NoHost
  <2>2. LaunchSide'
    BY <1>14 DEF LaterLaunch, RecoveryShape, LaunchSide, Alive, Original, NoGroup, NoHost
  <2>3. \A h \in Hosts : ClaimMeans(h)'
    BY <1>14 DEF LaterLaunch, RecoveryShape, LaunchSide, ClaimMeans, Alive, Original, NoGroup, NoHost
  <2> QED BY <2>1, <2>2, <2>3
<1>15. CASE LaterLaunchEnds
  <2>1. RecoveryShape'
    BY <1>15 DEF LaterLaunchEnds, RecoveryShape, ClaimPlaces, NoGroup, NoHost
  <2>2. LaunchSide'
    BY <1>15 DEF LaterLaunchEnds, RecoveryShape, LaunchSide, Alive, Original, NoGroup, NoHost
  <2>3. \A h \in Hosts : ClaimMeans(h)'
    BY <1>15 DEF LaterLaunchEnds, RecoveryShape, LaunchSide, ClaimMeans, Alive, Original, NoGroup, NoHost
  <2> QED BY <2>1, <2>2, <2>3
<1> QED BY <1>1, <1>2, <1>3, <1>4, <1>5, <1>6, <1>7, <1>8, <1>9, <1>10, <1>11, <1>12, <1>13, <1>14, <1>15 DEF Launch
-----------------------------------------------------------------------------
\* What d must be to be the claim of h after a step.
Fits(h, d) ==
    /\ d \in Claims
    /\ lock' = h <=> d.pc # "idle" /\ ~d.closed
    /\ d.pc = "idle" => ~d.pinned /\ ~d.closed /\ ~d.recovered /\ ~d.releaseStarted
                        /\ d.phase = "claimed"
    /\ d.pinned => Original' /\ ~d.closed
    /\ d.closed => ready'
    /\ d.phase = "complete" => d.closed /\ ~Original'
    /\ d.recovered => ~staging'
    /\ d.releaseStarted => ~images'

\* What h may do to the locks and to the launch's resources.
HostMay(h) ==
    /\ lock' = lock \/ (lock \in {NoHost, h} /\ lock' \in {NoHost, h})
    /\ record' \in {"absent", "partial", "sealed"}
    /\ group' \in [owner : {"none", "original", "later"}, fill : {"empty", "nested", "busy"}]
    /\ images' \in BOOLEAN /\ staging' \in BOOLEAN /\ ready' \in BOOLEAN
    /\ recoveryFaults' \in 0..MaxRecoveryFaults /\ recoveryCrashes' \in 0..MaxRecoveryCrashes
    /\ ready => ready'
    /\ staging' => staging
    /\ Original' => Original
    /\ Original /\ ~Original' => lock = h
    /\ images' => images \/ (lock = h /\ ~ready)
    /\ ready' => ~images' /\ ~staging' /\ ~(Original' /\ group'.fill = "busy")

\* A recovering host's step keeps the invariant when its own claim fits: every
\* other claim is idle or has been released.
LEMMA HostStep ==
    ASSUME RecoveryInv, NEW h \in Hosts, NEW d, Put(h, d), Fits(h, d), HostMay(h),
           ~Alive, UNCHANGED <<launcher, journalled>>
    PROVE  RecoveryInv'
<1> USE RecoveryAssumption DEF RecoveryInv
<1>1. claim' = [claim EXCEPT ![h] = d] /\ claim \in [Hosts -> Claims] /\ d \in Claims
  BY DEF Put, RecoveryShape, Fits
<1>2. RecoveryShape'
  BY <1>1 DEF RecoveryShape, HostMay, NoHost
<1>3. LaunchSide'
  BY DEF LaunchSide, RecoveryShape, HostMay, Alive, NoHost
<1>4. ClaimMeans(h)'
  BY <1>1, ZenonT(30) DEF ClaimMeans, Fits
<1>5. ASSUME NEW g \in Hosts, g # h PROVE ClaimMeans(g)'
  <2>1. claim'[g] = claim[g] /\ claim[g] \in Claims
    BY <1>1, <1>5
  <2>2. lock' = g <=> lock = g
    BY <1>5 DEF HostMay, NoHost
  <2>3. claim[g].pinned => Original'
    BY <1>5 DEF ClaimMeans, HostMay
  <2>4. claim[g].releaseStarted => ~images'
    BY <1>5 DEF ClaimMeans, HostMay
  <2> QED BY <2>1, <2>2, <2>3, <2>4, ZenonT(30) DEF ClaimMeans, HostMay
<1> QED BY <1>2, <1>3, <1>4, <1>5

\* Whoever recovers has a claim, of a launch whose host is dead.
LEMMA HostFacts ==
    ASSUME RecoveryInv, NEW h \in Hosts
    PROVE  /\ claim[h] \in Claims /\ ClaimMeans(h) /\ RecoveryShape
           /\ claim[h].pc # "idle" => ~Alive
BY DEF RecoveryInv, RecoveryShape, LaunchSide

\* The record is claimed.
LEMMA ConstructKeeps ==
    ASSUME RecoveryInv, NEW h \in Hosts, Construct(h) PROVE RecoveryInv'
<1>1. ~Alive /\ Put(h, NewClaim) /\ UNCHANGED <<launcher, journalled>>
  BY DEF Construct
<1>2. Fits(h, NewClaim)
  BY NewClaimTypes DEF Construct, Fits
<1>3. HostMay(h)
  BY HostFacts, RecoveryAssumption
     DEF Construct, HostMay, RecoveryShape, LaunchSide, RecoveryInv, Original,
         recoveryDisk, recoveryBounds
<1> QED BY <1>1, <1>2, <1>3, HostStep

\* A step of a method that neither starts nor ends a release.
LEMMA MethodStep ==
    ASSUME RecoveryInv, NEW h \in Hosts, NEW d \in Claims, Put(h, d),
           claim[h].pc # "idle", d.pc # "idle",
           d.closed = claim[h].closed, d.releaseStarted = claim[h].releaseStarted,
           d.phase = "complete" => claim[h].phase = "complete",
           d.pinned => claim[h].pinned \/ (Original /\ ~claim[h].closed),
           d.recovered => claim[h].recovered \/ ~staging',
           UNCHANGED <<launcher, journalled, record, ready, lock>>,
           group' = group \/ \E f \in {"empty", "nested", "busy"} : group' = [group EXCEPT !.fill = f],
           ready /\ Original => group' = group \/ group'.fill # "busy",
           images' \in BOOLEAN, staging' \in BOOLEAN, staging' => staging,
           images' => images \/ (lock = h /\ ~ready /\ ~claim[h].releaseStarted),
           RecoveryFault \/ UNCHANGED recoveryBounds
    PROVE  RecoveryInv'
<1> DEFINE c == claim[h]
<1>1. c \in Claims /\ ClaimMeans(h) /\ RecoveryShape /\ ~Alive
  BY HostFacts
<1>2. group'.owner = group.owner /\ (Original' <=> Original)
      /\ group' \in [owner : {"none", "original", "later"}, fill : {"empty", "nested", "busy"}]
  BY <1>1 DEF RecoveryShape, Original
<1>3. Fits(h, d)
  BY <1>1, <1>2 DEF Fits, ClaimMeans
<1>4. HostMay(h)
  <2>1. recoveryFaults' \in 0..MaxRecoveryFaults /\ recoveryCrashes' \in 0..MaxRecoveryCrashes
    BY <1>1, RecoveryAssumption DEF RecoveryShape, RecoveryFault, recoveryBounds
  <2>2. ready => ~images' /\ ~staging' /\ ~(Original' /\ group'.fill = "busy")
    BY <1>2 DEF RecoveryInv, LaunchSide
  <2> QED BY <1>1, <1>2, <2>1, <2>2 DEF HostMay, RecoveryShape
<1> QED BY <1>1, <1>3, <1>4, HostStep

\* An attempt starts, or fails before it has done anything.
LEMMA RecoverHandleKeeps ==
    ASSUME RecoveryInv, NEW h \in Hosts, RecoverHandle(h) \/ Interrupted(h)
    PROVE  RecoveryInv'
<1> DEFINE c == claim[h]
<1>1. c \in Claims /\ RecoveryShape
  BY HostFacts
<1>2. PICK d : /\ \/ d = [c EXCEPT !.pc = "recovering",
                                   !.phase = IF journalled THEN @ ELSE "claimed"]
                  \/ d = [c EXCEPT !.pc = "handle"]
               /\ Put(h, d)
  BY DEF RecoverHandle, Interrupted, Errs
<1>3. /\ d \in Claims /\ d.pc # "idle" /\ d.closed = c.closed /\ d.pinned = c.pinned
      /\ d.recovered = c.recovered /\ d.releaseStarted = c.releaseStarted
      /\ d.phase \in {c.phase, "claimed"}
  BY <1>1, <1>2, ZenonT(30) DEF Claims, Phases
<1> QED BY <1>1, <1>2, <1>3, MethodStep
        DEF RecoverHandle, Interrupted, RecoveryShape, recoveryDisk

\* selectRecoveryPhase changes the claim only.
LEMMA SelectPhaseKeeps ==
    ASSUME RecoveryInv, NEW h \in Hosts, SelectPhase(h) PROVE RecoveryInv'
<1> DEFINE c == claim[h]
<1>1. c \in Claims /\ RecoveryShape
  BY HostFacts
<1>2. PICK d : /\ d = [c EXCEPT !.pc = "handle"] \/ d = [c EXCEPT !.phase = "resume"]
               /\ Put(h, d)
  BY DEF SelectPhase, Errs
<1>3. /\ d \in Claims /\ d.pc \in {c.pc, "handle"} /\ d.closed = c.closed
      /\ d.pinned = c.pinned /\ d.phase \in {c.phase, "resume"}
      /\ d.recovered = c.recovered /\ d.releaseStarted = c.releaseStarted
  BY <1>1, <1>2 DEF Claims, Phases
<1> QED BY <1>1, <1>2, <1>3, MethodStep
        DEF SelectPhase, At, RecoveryShape, recoveryDisk

\* Quiesce only pins the original group, and a pinned claim is open.
LEMMA QuiesceKeeps ==
    ASSUME RecoveryInv, NEW h \in Hosts, Quiesce(h) PROVE RecoveryInv'
<1> DEFINE c == claim[h]
           pinned == [c EXCEPT !.pinned = TRUE]
<1>1. c \in Claims /\ RecoveryShape /\ ClaimMeans(h)
  BY HostFacts
<1>2. pinned \in Claims /\ pinned.pc = c.pc /\ pinned.closed = c.closed
      /\ pinned.phase = c.phase
      /\ pinned.recovered = c.recovered /\ pinned.releaseStarted = c.releaseStarted
  BY <1>1, ZenonT(30) DEF Claims
<1>3. group' \in {group, Killed} /\ (RecoveryFault \/ UNCHANGED recoveryBounds)
  BY DEF Quiesce, NoRecoveryFault
<1>4. group' = group \/ (group'.fill # "busy" /\ \E f \in {"empty", "nested", "busy"} :
                             group' = [group EXCEPT !.fill = f])
  BY <1>1, <1>3 DEF Killed, RecoveryShape
<1>5. CASE Errs(h, c)
  <2>1. [c EXCEPT !.pc = "handle"] \in Claims
    BY <1>1 DEF Claims
  <2> QED BY <1>1, <1>3, <1>4, <1>5, <2>1, MethodStep
          DEF Quiesce, At, Errs, RecoveryShape, Claims
<1>6. CASE ~Errs(h, c)
  <2> HIDE DEF pinned
  <2>1. Original /\ ~c.closed
    BY <1>1, <1>6 DEF Quiesce, ClaimMeans
  <2>2. PICK d : /\ \/ d = [pinned EXCEPT !.pending = FALSE, !.quiesced = TRUE,
                                 !.phase = IF journalled THEN "images" ELSE "prune"]
                    \/ \E b \in BOOLEAN : d = [[pinned EXCEPT !.pending = b, !.quiesced = ~b]
                                                   EXCEPT !.pc = "handle"]
                 /\ Put(h, d)
    BY <1>6, ZenonT(40) DEF Quiesce, Errs, pinned
  <2>3. /\ d \in Claims /\ d.pc \in {c.pc, "handle"} /\ d.closed = c.closed
        /\ d.phase \in {c.phase, "images", "prune"}
        /\ d.recovered = c.recovered /\ d.releaseStarted = c.releaseStarted
    BY <1>2, <2>2, ZenonT(30) DEF Claims, Phases
  <2> QED BY <1>1, <1>3, <1>4, <2>1, <2>2, <2>3, MethodStep, ZenonT(40)
          DEF Quiesce, At, RecoveryShape
<1> QED BY <1>5, <1>6

\* Prune empties the original group.
LEMMA PruneKeeps ==
    ASSUME RecoveryInv, NEW h \in Hosts, Prune(h) PROVE RecoveryInv'
<1> DEFINE c == claim[h]
<1>1. c \in Claims /\ RecoveryShape
  BY HostFacts
<1>2. PICK d : /\ \/ d = [c EXCEPT !.pending = FALSE, !.phase = "images"]
                  \/ d = [[c EXCEPT !.pending = TRUE] EXCEPT !.pc = "handle"]
               /\ Put(h, d)
  BY DEF Prune, Errs
<1>3. /\ d \in Claims /\ d.pc \in {c.pc, "handle"} /\ d.closed = c.closed
      /\ d.phase \in {c.phase, "images"} /\ d.pinned = c.pinned
      /\ d.recovered = c.recovered /\ d.releaseStarted = c.releaseStarted
  BY <1>1, <1>2, ZenonT(30) DEF Claims, Phases
<1>4. group' \in {group, Pruned} /\ (RecoveryFault \/ UNCHANGED recoveryBounds)
  BY DEF Prune, NoRecoveryFault
<1>5. group' = group \/ (group'.fill # "busy" /\ \E f \in {"empty", "nested", "busy"} :
                             group' = [group EXCEPT !.fill = f])
  BY <1>1, <1>4 DEF Pruned, RecoveryShape
<1> QED BY <1>1, <1>2, <1>3, <1>4, <1>5, MethodStep DEF Prune, At, RecoveryShape

\* RecoverImages finishes a launch without a journal, which has no staging files.
LEMMA RecoverImagesKeeps ==
    ASSUME RecoveryInv, NEW h \in Hosts, RecoverImages(h) PROVE RecoveryInv'
<1> DEFINE c == claim[h]
           opened == [c EXCEPT !.store = TRUE]
<1>1. c \in Claims /\ RecoveryShape
  BY HostFacts
<1>2. opened \in Claims /\ opened.pc = c.pc /\ opened.closed = c.closed
      /\ opened.phase = c.phase /\ opened.pinned = c.pinned
      /\ opened.recovered = c.recovered /\ opened.releaseStarted = c.releaseStarted
  BY <1>1, ZenonT(30) DEF Claims
<1> HIDE DEF opened
<1>3. PICK d : /\ \/ d = [opened EXCEPT !.pending = FALSE, !.recovered = ~journalled,
                                  !.phase = IF journalled THEN "cleanup" ELSE "release"]
                  \/ d = [c EXCEPT !.pc = "handle"]
                  \/ d = [opened EXCEPT !.pc = "handle"]
                  \/ d = [[opened EXCEPT !.pending = TRUE] EXCEPT !.pc = "handle"]
               /\ Put(h, d)
  BY ZenonT(30) DEF RecoverImages, Errs, opened
<1>4. /\ d \in Claims /\ d.pc \in {c.pc, "handle"} /\ d.closed = c.closed
      /\ d.phase \in {c.phase, "cleanup", "release"} /\ d.pinned = c.pinned
      /\ d.recovered => c.recovered \/ ~journalled
      /\ d.releaseStarted = c.releaseStarted
  <2>1. CASE /\ d # [c EXCEPT !.pc = "handle"] /\ d # [opened EXCEPT !.pc = "handle"]
             /\ d # [[opened EXCEPT !.pending = TRUE] EXCEPT !.pc = "handle"]
    <3>1. CASE journalled
      BY <1>2, <1>3, <2>1, <3>1, ZenonT(30) DEF Claims, Phases
    <3>2. CASE ~journalled
      BY <1>2, <1>3, <2>1, <3>2, ZenonT(40) DEF Claims, Phases
    <3> QED BY <3>1, <3>2
  <2> QED BY <1>1, <1>2, <1>3, <2>1, ZenonT(30) DEF Claims
<1>5. /\ group' \in {group, Pruned} /\ (RecoveryFault \/ UNCHANGED recoveryBounds)
      /\ images' \in {images, FALSE} /\ staging' = staging
  BY Zenon DEF RecoverImages, NoRecoveryFault
<1>6. group' = group \/ (group'.fill # "busy" /\ \E f \in {"empty", "nested", "busy"} :
                             group' = [group EXCEPT !.fill = f])
  BY <1>1, <1>5 DEF Pruned, RecoveryShape
<1>7. d.recovered => c.recovered \/ ~staging'
  BY <1>4, <1>5 DEF RecoveryInv, LaunchSide
<1>8. images' \in BOOLEAN /\ staging' \in BOOLEAN /\ (images' => images)
  <2>1. CASE images' = images
    BY <1>1, <1>5, <2>1 DEF RecoveryShape
  <2>2. CASE images' = FALSE
    BY <1>1, <1>5, <2>2, ZenonT(30) DEF RecoveryShape
  <2> QED BY <1>5, <2>1, <2>2, ZenonT(30)
<1> QED BY <1>1, <1>3, <1>4, <1>5, <1>6, <1>7, <1>8, MethodStep
        DEF RecoverImages, At

\* RecoverFilesystem: what its helper leaves when it fails is before the marker.
LEMMA RecoverFilesystemKeeps ==
    ASSUME RecoveryInv, NEW h \in Hosts, RecoverFilesystem(h) PROVE RecoveryInv'
<1> DEFINE c == claim[h]
           begun == [c EXCEPT !.recovering = TRUE, !.pending = TRUE, !.recovered = FALSE]
<1>1. c \in Claims /\ RecoveryShape /\ ClaimMeans(h) /\ c.pc # "idle"
  BY HostFacts DEF RecoverFilesystem, At
<1>2. CASE ~FilesystemAdmitted(c)
  <2>1. [c EXCEPT !.pc = "handle"] \in Claims
    BY <1>1 DEF Claims
  <2> QED BY <1>1, <1>2, <2>1, MethodStep
          DEF RecoverFilesystem, Errs, RecoveryShape, Claims, NoRecoveryFault
<1>3. CASE FilesystemAdmitted(c)
  <2>1. /\ Original /\ ~ready /\ ~c.releaseStarted /\ ~c.closed /\ lock = h
        /\ UNCHANGED <<launcher, record, ready, lock, journalled>>
    BY <1>1, <1>3, ZenonT(30) DEF FilesystemAdmitted, ClaimMeans, RecoverFilesystem
  <2>2. CASE NoRecoveryFault /\ group' = Pruned /\ images' = FALSE /\ staging' = FALSE
             /\ Put(h, FilesystemRecovered(c))
    <3> DEFINE d == FilesystemRecovered(c)
    <3>1. /\ d \in Claims /\ d.pc = c.pc /\ d.closed = c.closed
          /\ d.phase = "release" /\ d.pinned = c.pinned
          /\ d.releaseStarted = c.releaseStarted
      BY <1>1, ZenonT(30) DEF Claims, Phases, FilesystemRecovered
    <3>2. \E f \in {"empty", "nested", "busy"} : group' = [group EXCEPT !.fill = f]
      BY <2>2 DEF Pruned
    <3> HIDE DEF d
    <3> QED BY <1>1, <2>1, <2>2, <3>1, <3>2, MethodStep, ZenonT(30) DEF NoRecoveryFault, d
  <2>3. CASE RecoveryFault /\ FilesystemFault(h, c)
    <3>1. /\ begun \in Claims /\ begun.pc = c.pc /\ begun.closed = c.closed
          /\ begun.phase = c.phase /\ begun.pinned = c.pinned /\ ~begun.recovered
          /\ begun.releaseStarted = c.releaseStarted
      BY <1>1, ZenonT(40) DEF Claims
    <3> HIDE DEF begun
    <3>2. PICK d : /\ \/ d = [begun EXCEPT !.pc = "handle"]
                      \/ \E b \in BOOLEAN : d = [[begun EXCEPT !.process = b, !.quiesced = FALSE]
                                                     EXCEPT !.pc = "handle"]
                   /\ Put(h, d)
      BY <2>3, ZenonT(30) DEF FilesystemFault, Errs, begun
    <3>3. /\ d \in Claims /\ d.pc = "handle" /\ d.closed = c.closed
          /\ d.phase = c.phase /\ d.pinned = c.pinned /\ ~d.recovered
          /\ d.releaseStarted = c.releaseStarted
      BY <3>1, <3>2, ZenonT(30) DEF Claims
    <3>4. group' = group \/ \E f \in {"empty", "nested", "busy"} : group' = [group EXCEPT !.fill = f]
      BY <2>3, ZenonT(30) DEF FilesystemFault, Pruned
    <3>5. images' \in BOOLEAN /\ staging' \in BOOLEAN /\ (staging' => staging)
      <4>1. images' \in {images, FALSE} \/ images' \in BOOLEAN
        BY <2>3, ZenonT(30) DEF FilesystemFault
      <4>2. staging' \in {staging, FALSE}
        BY <2>3, ZenonT(30) DEF FilesystemFault
      <4>3. images' \in BOOLEAN
        BY <1>1, <4>1, ZenonT(30) DEF RecoveryShape
      <4>4. CASE staging' = staging
        BY <1>1, <4>3, <4>4 DEF RecoveryShape
      <4>5. CASE staging' = FALSE
        BY <4>3, <4>5, ZenonT(30)
      <4> QED BY <4>2, <4>4, <4>5, ZenonT(30)
    <3> QED BY <1>1, <2>1, <2>3, <3>2, <3>3, <3>4, <3>5, MethodStep, ZenonT(30)
  <2> QED BY <1>3, <2>2, <2>3, ZenonT(30) DEF RecoverFilesystem
<1> QED BY <1>2, <1>3
-----------------------------------------------------------------------------
\* release: the marker is written when files and processes are gone, and the
\* locks are given up with the group.
LEMMA TearDownKeeps ==
    ASSUME RecoveryInv, NEW h \in Hosts, NEW c \in Claims, TearDown(h, c),
           c.pc # "idle", c.phase # "complete", ~c.closed, lock = h, Prepared,
           ~images, ~staging, ~Alive, UNCHANGED <<launcher, record, images, staging, journalled>>
    PROVE  RecoveryInv'
<1> DEFINE waiting == [c EXCEPT !.pending = TRUE]
           started == [waiting EXCEPT !.releaseStarted = TRUE]
<1>1. RecoveryShape
  BY HostFacts
<1>2. /\ waiting \in Claims /\ waiting.pc = c.pc /\ waiting.phase = c.phase /\ ~waiting.closed
  BY Zenon DEF Claims
<1>3. /\ started \in Claims /\ started.pc = c.pc /\ started.phase = c.phase /\ ~started.closed
  BY <1>2, ZenonT(30) DEF Claims
<1>4. /\ Released(c) \in Claims /\ Released(c).pc = c.pc /\ Released(c).phase = c.phase
      /\ Released(c).closed /\ ~Released(c).pinned
  BY Zenon DEF Claims, Released
<1> HIDE DEF waiting, started
<1>5. /\ ready' \in BOOLEAN /\ (ready => ready')
      /\ recoveryFaults' \in 0..MaxRecoveryFaults /\ recoveryCrashes' \in 0..MaxRecoveryCrashes
  <2>1. recoveryFaults' \in 0..MaxRecoveryFaults /\ recoveryCrashes' \in 0..MaxRecoveryCrashes
    <3>1. RecoveryFault \/ NoRecoveryFault
      BY Zenon DEF TearDown
    <3> QED BY <1>1, <3>1, RecoveryAssumption
            DEF RecoveryShape, RecoveryFault, NoRecoveryFault, recoveryBounds
  <2>2. ready' \in {ready, TRUE}
    BY Zenon DEF TearDown
  <2>3. CASE ready' = ready
    BY <1>1, <2>1, <2>3 DEF RecoveryShape
  <2>4. CASE ready' = TRUE
    BY <2>1, <2>4
  <2> QED BY <2>2, <2>3, <2>4, ZenonT(30)
<1>6. CASE /\ group' = NoGroup /\ ready' = TRUE /\ lock' = NoHost
           /\ \/ Put(h, [Released(c) EXCEPT !.phase = "complete"])
              \/ Errs(h, [Released(c) EXCEPT !.spoilt = TRUE])
  <2>1. PICK d : /\ \/ d = [Released(c) EXCEPT !.phase = "complete"]
                    \/ d = [[Released(c) EXCEPT !.spoilt = TRUE] EXCEPT !.pc = "handle"]
                 /\ Put(h, d)
    BY <1>6 DEF Errs
  <2>2. d \in Claims /\ d.pc # "idle" /\ d.closed /\ ~d.pinned
    BY <1>4, <2>1, ZenonT(30) DEF Claims, Phases
  <2>3. ~Original' /\ group' \in [owner : {"none", "original", "later"},
                                  fill : {"empty", "nested", "busy"}]
    BY <1>6 DEF NoGroup, Original
  <2>4. Fits(h, d)
    BY <1>6, <2>2, <2>3, RecoveryAssumption DEF Fits, NoHost
  <2>5. HostMay(h)
    BY <1>1, <1>5, <1>6, <2>3 DEF HostMay, RecoveryShape
  <2> QED BY <2>1, <2>4, <2>5, HostStep
<1>7. CASE /\ group' \in {group, Pruned} /\ lock' = lock
           /\ \/ Errs(h, waiting) \/ Errs(h, started)
              \/ Errs(h, [started EXCEPT !.poisoned = @ \/ ~ready])
  <2>1. PICK d : /\ \/ d = [waiting EXCEPT !.pc = "handle"]
                    \/ d = [started EXCEPT !.pc = "handle"]
                    \/ d = [[started EXCEPT !.poisoned = @ \/ ~ready] EXCEPT !.pc = "handle"]
                 /\ Put(h, d)
    BY <1>7 DEF Errs
  <2>2. d \in Claims /\ d.pc = "handle" /\ ~d.closed /\ d.phase # "complete"
    BY <1>2, <1>3, <2>1, ZenonT(40) DEF Claims, Phases
  <2>3. Original' /\ Original /\ group'.fill # "busy"
        /\ group' \in [owner : {"none", "original", "later"}, fill : {"empty", "nested", "busy"}]
    BY <1>1, <1>7 DEF Prepared, Pruned, Original, RecoveryShape
  <2>4. Fits(h, d)
    BY <1>7, <2>2, <2>3 DEF Fits
  <2>5. HostMay(h)
    BY <1>1, <1>5, <1>7, <2>3 DEF HostMay, RecoveryShape
  <2> QED BY <2>1, <2>4, <2>5, HostStep
<1> QED BY <1>6, <1>7, ZenonT(30) DEF TearDown, waiting, started

\* Release starts only when the claim has recovered everything.
LEMMA ReleaseKeeps ==
    ASSUME RecoveryInv, NEW h \in Hosts, Release(h) PROVE RecoveryInv'
<1> DEFINE c == claim[h]
<1>1. c \in Claims /\ RecoveryShape /\ ClaimMeans(h) /\ c.pc # "idle" /\ ~Alive
  BY HostFacts DEF Release, At
<1>2. CASE Errs(h, c) /\ NoRecoveryFault /\ UNCHANGED <<group, ready, lock>>
  <2>1. [c EXCEPT !.pc = "handle"] \in Claims
    BY <1>1 DEF Claims
  <2> QED BY <1>1, <1>2, <2>1, MethodStep
          DEF Release, Errs, RecoveryShape, Claims, NoRecoveryFault
<1>3. CASE /\ TearDown(h, c) /\ ~c.closed /\ c.recovered /\ Prepared
           /\ c.releaseStarted \/ (c.store /\ ~images)
  <2>1. lock = h /\ ~images /\ ~staging /\ c.phase # "complete"
    BY <1>1, <1>3, ZenonT(30) DEF ClaimMeans, Release, At
  <2> QED BY <1>1, <1>3, <2>1, TearDownKeeps, ZenonT(30) DEF Release
<1> QED BY <1>2, <1>3 DEF Release

\* ResumeRelease starts from the marker.
LEMMA ResumeReleaseKeeps ==
    ASSUME RecoveryInv, NEW h \in Hosts, ResumeRelease(h) PROVE RecoveryInv'
<1> DEFINE c == claim[h]
           resumed == [c EXCEPT !.pinned = TRUE, !.releaseStarted = TRUE, !.recovered = TRUE,
                                !.quiesced = TRUE]
<1>1. /\ c \in Claims /\ RecoveryShape /\ ClaimMeans(h) /\ c.pc # "idle" /\ ~Alive
      /\ c.phase = "resume"
  BY HostFacts DEF ResumeRelease, At
<1>2. CASE Errs(h, c) /\ NoRecoveryFault /\ UNCHANGED <<group, ready, lock>>
  <2>1. [c EXCEPT !.pc = "handle"] \in Claims
    BY <1>1 DEF Claims
  <2> QED BY <1>1, <1>2, <2>1, MethodStep
          DEF ResumeRelease, Errs, RecoveryShape, Claims, NoRecoveryFault
<1>3. CASE ~c.closed /\ ready
  <2>1. lock = h /\ ~images /\ ~staging /\ ~(Original /\ group.fill = "busy")
    BY <1>1, <1>3 DEF ClaimMeans, RecoveryInv, LaunchSide
  <2>2. CASE /\ ~c.pinned /\ ~Original /\ NoRecoveryFault /\ lock' = NoHost
             /\ UNCHANGED <<group, ready>> /\ Put(h, [Released(c) EXCEPT !.phase = "complete"])
    <3> DEFINE d == [Released(c) EXCEPT !.phase = "complete"]
    <3>1. d \in Claims /\ d.pc = c.pc /\ d.closed /\ ~d.pinned
      BY <1>1, ZenonT(30) DEF Claims, Phases, Released
    <3> HIDE DEF d
    <3>2. Fits(h, d)
      BY <1>1, <1>3, <2>1, <2>2, <3>1, RecoveryAssumption
         DEF Fits, NoHost, ResumeRelease, Original
    <3>3. HostMay(h)
      BY <1>1, <1>3, <2>1, <2>2
         DEF HostMay, RecoveryShape, ResumeRelease, NoRecoveryFault, recoveryBounds, Original
    <3> QED BY <1>1, <2>2, <3>2, <3>3, HostStep DEF ResumeRelease, d
  <2>3. CASE Prepared /\ TearDown(h, resumed)
    <3>1. resumed \in Claims /\ resumed.pc = c.pc /\ resumed.phase = c.phase
          /\ resumed.closed = c.closed
      BY <1>1, ZenonT(30) DEF Claims
    <3> HIDE DEF resumed
    <3> QED BY <1>1, <1>3, <2>1, <2>3, <3>1, TearDownKeeps DEF ResumeRelease
  <2>4. CASE /\ NoRecoveryFault /\ UNCHANGED <<group, ready, lock>>
             /\ Errs(h, [c EXCEPT !.releaseStarted = TRUE])
    <3> DEFINE d == [[c EXCEPT !.releaseStarted = TRUE] EXCEPT !.pc = "handle"]
    <3>1. d \in Claims /\ d.pc = "handle" /\ d.closed = c.closed /\ d.pinned = c.pinned
          /\ d.phase = c.phase /\ d.recovered = c.recovered
      BY <1>1, ZenonT(30) DEF Claims
    <3> HIDE DEF d
    <3>2. Fits(h, d)
      BY <1>1, <1>3, <2>1, <2>4, <3>1 DEF Fits, ClaimMeans, ResumeRelease, Original
    <3>3. HostMay(h)
      BY <1>1, <1>3, <2>1, <2>4, SMTT(20)
         DEF HostMay, RecoveryShape, ResumeRelease, NoRecoveryFault, recoveryBounds, Original
    <3> QED BY <1>1, <2>4, <3>2, <3>3, HostStep DEF ResumeRelease, d, Errs
  <2> QED BY <1>3, <2>2, <2>3, <2>4, <1>2, ZenonT(30) DEF ResumeRelease
<1> QED BY <1>2, <1>3 DEF ResumeRelease

\* A handle is dropped, after the record is removed, by Close or by the end of
\* its process.
LEMMA DropKeeps ==
    ASSUME RecoveryInv, NEW h \in Hosts,
           RemoveRecord(h) \/ CloseHandle(h) \/ Exit(h) \/ Crash(h)
    PROVE  RecoveryInv'
<1> DEFINE c == claim[h]
<1>1. c \in Claims /\ RecoveryShape /\ ClaimMeans(h) /\ ~Alive /\ c.pc # "idle"
  BY HostFacts DEF RemoveRecord, At, CloseHandle, Exit, Crash
<1>2. /\ UNCHANGED <<launcher, journalled, group, images, staging, ready>>
      /\ record' \in {"absent", "partial", "sealed"}
      /\ recoveryFaults' \in 0..MaxRecoveryFaults /\ recoveryCrashes' \in 0..MaxRecoveryCrashes
  BY <1>1, RecoveryAssumption, SMTT(20)
     DEF RemoveRecord, CloseHandle, Exit, Crash, Unlinked, RecoveryShape, recoveryDisk, recoveryBounds
<1>3. CASE Put(h, NoClaim)
  <2>1. lock' # h /\ (lock' = lock \/ (lock = h /\ lock' = NoHost))
    BY <1>1, RecoveryAssumption, ZenonT(30) DEF RemoveRecord, At, CloseHandle, Exit, Crash, ClaimMeans, NoHost
  <2>2. Fits(h, NoClaim)
    BY <2>1, NewClaimTypes DEF Fits
  <2>3. HostMay(h)
    BY <1>1, <1>2, <2>1, SMTT(20) DEF HostMay, RecoveryShape, RecoveryInv, LaunchSide, Original
  <2> QED BY <1>1, <1>2, <1>3, <2>2, <2>3, HostStep, ZenonT(30)
<1>4. CASE Put(h, c) /\ lock' = lock
  <2>1. Fits(h, c)
    BY <1>1, <1>2, <1>4, ZenonT(30) DEF Fits, ClaimMeans, Original
  <2>2. HostMay(h)
    BY <1>1, <1>2, <1>4 DEF HostMay, RecoveryShape, RecoveryInv, LaunchSide, Original
  <2> QED BY <1>1, <1>2, <1>4, <2>1, <2>2, HostStep, ZenonT(30)
<1> QED BY <1>3, <1>4, ZenonT(30) DEF RemoveRecord, CloseHandle, Exit, Crash

\* Every step keeps the invariant.
LEMMA RecoveryStep == RecoveryInv /\ [RecoveryNext]_recoveryVars => RecoveryInv'
<1> SUFFICES ASSUME RecoveryInv, [RecoveryNext]_recoveryVars PROVE RecoveryInv'
  OBVIOUS
<1>1. CASE UNCHANGED recoveryVars
  BY <1>1, ZenonT(30) DEF recoveryVars, recoveryDisk, recoveryBounds, RecoveryInv, RecoveryShape,
     LaunchSide, ClaimMeans, Alive, Original
<1>2. ASSUME NEW h \in Hosts, Attempt(h) PROVE RecoveryInv'
  BY <1>2, SelectPhaseKeeps, QuiesceKeeps, PruneKeeps, RecoverImagesKeeps,
     RecoverFilesystemKeeps, ReleaseKeeps, ResumeReleaseKeeps, DropKeeps DEF Attempt
<1> QED BY <1>1, <1>2, LaunchKeeps, ConstructKeeps, RecoverHandleKeeps, DropKeeps, SMTT(20)
        DEF RecoveryNext, Finished

\* The inductive invariant holds throughout.
THEOREM RecoveryInvariance == RecoverySpec => []RecoveryInv
BY InitRecoveryInv, RecoveryStep, PTL DEF RecoverySpec

\* The release-ready marker means that at most an empty group is left, for any
\* number of recovering hosts, faults and crashes (release, ResumeRelease).
THEOREM MarkerIsSound == RecoverySpec => []MarkerSound
<1>1. RecoveryInv => MarkerSound
  <2> SUFFICES ASSUME RecoveryInv PROVE MarkerSound
    OBVIOUS
  <2>1. ASSUME NEW h \in Hosts
        PROVE  /\ claim[h].pc \in {"idle", "handle", "recovering"}
               /\ claim[h].phase \in Phases
               /\ lock = h <=> claim[h].pc # "idle" /\ ~claim[h].closed
    BY HostFacts DEF Claims, ClaimMeans
  <2> QED BY <2>1 DEF MarkerSound, RecoveryTypeOK, RecoveryInv, RecoveryShape, LaunchSide
<1> QED BY <1>1, RecoveryInvariance, PTL

\* Only recovery changes a claim.
LEMMA LaunchLeavesClaims == Launch => claim' = claim
BY DEF Launch, CreateRecord, NewServiceGroup, PersistLaunchCheckpoint, StartProcesses,
   BeginWrite, BeginClose, CleanupProcesses, CleanupFiles, CloseStores, CleanupGroup,
   RemoveOwnRecord, LaunchHostDies, WatchdogKills, LaterLaunch, LaterLaunchEnds

\* A recovering host's step changes the group only while it is the launch's own.
LEMMA HostSparesLater ==
    ASSUME RecoveryInv, NEW h \in Hosts, group.owner = "later",
           Construct(h) \/ RecoverHandle(h) \/ Attempt(h) \/ Interrupted(h)
               \/ CloseHandle(h) \/ Exit(h) \/ Crash(h)
    PROVE  group' = group
<1>1. ~Original /\ ~claim[h].pinned
  BY HostFacts, ZenonT(30) DEF Original, ClaimMeans
<1>2. CASE Attempt(h)
  BY <1>1, <1>2 DEF Attempt, SelectPhase, Quiesce, Prune, RecoverImages, RecoverFilesystem,
     FilesystemAdmitted, Release, ResumeRelease, RemoveRecord, Prepared, recoveryDisk
<1>3. CASE ~Attempt(h)
  BY <1>3 DEF Construct, RecoverHandle, Interrupted, CloseHandle, Exit, Crash, recoveryDisk
<1> QED BY <1>2, <1>3

\* Recovery leaves a living host's launch and a later launch's group alone, and
\* a sealed record is taken apart last, for any number of recovering hosts,
\* faults and crashes (verifyRecoveryHost, matchRecoveryService, recoverRecord).
THEOREM RecoveryIsCareful == RecoverySpec => RecoveryCareful
<1>1. RecoveryInv /\ [RecoveryNext]_recoveryVars
        => [claim' # claim /\ Alive => recoveryDisk' = recoveryDisk]_recoveryVars
  <2> SUFFICES ASSUME RecoveryInv, RecoveryNext, claim' # claim, Alive
               PROVE  FALSE
    OBVIOUS
  <2>1. \A h \in Hosts : claim[h].pc = "idle"
    BY DEF RecoveryInv, LaunchSide
  <2> QED BY <2>1, LaunchLeavesClaims, ZenonT(30)
          DEF RecoveryNext, Construct, RecoverHandle, Attempt, SelectPhase, Quiesce, Prune,
              RecoverImages, RecoverFilesystem, Release, ResumeRelease, RemoveRecord, At,
              Interrupted, CloseHandle, Exit, Crash, Finished, recoveryVars
<1>2. RecoveryInv /\ [RecoveryNext]_recoveryVars
        => [claim' # claim /\ group.owner = "later" => group' = group]_recoveryVars
  BY LaunchLeavesClaims, HostSparesLater DEF RecoveryNext, Finished, recoveryVars
<1>3. RecoveryInv /\ [RecoveryNext]_recoveryVars
        => [record = "sealed" /\ record' # "sealed"
                => group.owner # "original" /\ ~images /\ ~staging]_recoveryVars
  <2> SUFFICES ASSUME RecoveryInv, RecoveryNext, record = "sealed", record' # "sealed"
               PROVE  ~Original /\ ~images /\ ~staging
    BY SMTT(20) DEF Original
  <2>1. CASE Launch
    <3>1. RemoveOwnRecord \/ CreateRecord
      BY <2>1, SMTT(20) DEF Launch, CreateRecord, NewServiceGroup, PersistLaunchCheckpoint, StartProcesses,
         BeginWrite, BeginClose, CleanupProcesses, CleanupFiles, CloseStores, CleanupGroup,
         LaunchHostDies, WatchdogKills, LaterLaunch, LaterLaunchEnds, recoveryDisk
    <3> QED BY <3>1 DEF RemoveOwnRecord, CreateRecord, RecoveryInv, LaunchSide
  <2>2. ASSUME NEW h \in Hosts, RemoveRecord(h)
        PROVE  ~Original /\ ~images /\ ~staging
    BY <2>2, HostFacts, ZenonT(30) DEF RemoveRecord, At, ClaimMeans, RecoveryInv, LaunchSide
  <2>3. CASE ~Launch /\ \A h \in Hosts : ~RemoveRecord(h)
    BY <2>3, ZenonT(30) DEF RecoveryNext, Construct, RecoverHandle, Attempt, SelectPhase, Quiesce, Prune,
       RecoverImages, RecoverFilesystem, Release, ResumeRelease,
       Interrupted, CloseHandle, Exit, Crash, Finished, recoveryVars, recoveryDisk
  <2> QED BY <2>1, <2>2, <2>3
<1> QED BY <1>1, <1>2, <1>3, RecoveryInvariance, PTL
        DEF RecoverySpec, RecoveryCareful, SparesLiveHost, SparesLaterLaunch, RecordRemovedLast
=============================================================================
