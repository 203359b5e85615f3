----------------------------- MODULE StablePool -----------------------------
(***************************************************************************)
(* The object pool of internal/stablepool in its persistent mode: shards   *)
(* with a one-object fast slot and a free stack, stealing between shards   *)
(* and growth under a mutex.  Every atomic access and every critical       *)
(* section is a step, and a goroutine may be on another processor at each  *)
(* call.                                                                   *)
(***************************************************************************)
EXTENDS Naturals, FiniteSets, Sequences, SequencesExt

CONSTANTS Clients,          \* goroutines that use the pool
          NumShards,        \* len(p.shards)
          InitialCapacity,
          MaxCapacity,      \* p.maxCapacity, 0 when growth is off
          MaxObjects        \* objects ever allocated, MustGet's fallbacks included

ASSUME PoolBounds ==
    /\ {NumShards, InitialCapacity, MaxObjects} \subseteq Nat \ {0}
    /\ MaxCapacity \in Nat
    /\ MaxCapacity > 0 => MaxCapacity >= InitialCapacity
    /\ MaxObjects >= InitialCapacity /\ MaxObjects >= MaxCapacity

Shards   == 0..NumShards-1
NoObject == 0

VARIABLES poolSlot,   \* the fast slot of every shard
          freeStack,  \* the free stack of every shard, its head first
          capacity,   \* p.capacity
          slabsMu,    \* the client in grow, or "free"
          allocated,  \* objects allocated so far, numbered in order
          client      \* per client: its step, shard, position of the walk and object

poolVars == <<poolSlot, freeStack, capacity, slabsMu, allocated, client>>

Neighbour(shard, i) == (shard + i) % NumShards

\* appendSlab: objects first..first+size-1 go round-robin from shard prefer.
\* pushFree puts the newest in front.
Distributed(stacks, first, size, prefer) ==
    [s \in Shards |->
        Reverse(SelectSeq([i \in 1..size |-> first + i - 1],
                          LAMBDA o : Neighbour(prefer, o - first) = s)) \o stacks[s]]

Outside(object) == [step |-> "out", shard |-> 0, walk |-> 0, object |-> object]

PoolInit ==
    /\ poolSlot = [s \in Shards |-> NoObject]
    /\ freeStack = Distributed([s \in Shards |-> <<>>], 1, InitialCapacity, 0)
    /\ capacity = InitialCapacity
    /\ slabsMu = "free"
    /\ allocated = InitialCapacity
    /\ client = [c \in Clients |-> Outside(NoObject)]

Goes(c, step, walk) == client' = [client EXCEPT ![c].step = step, ![c].walk = walk]
Gets(c, object)     == client' = [client EXCEPT ![c] = Outside(object)]

\* popFree of shard s by c: it returns the object, or goes on to the next step.
PopFree(c, s, nextStep, nextWalk) ==
    /\ IF freeStack[s] = <<>>
       THEN Goes(c, nextStep, nextWalk) /\ UNCHANGED freeStack
       ELSE /\ Gets(c, Head(freeStack[s]))
            /\ freeStack' = [freeStack EXCEPT ![s] = Tail(@)]
    /\ UNCHANGED <<poolSlot, capacity, allocated>>

\* Mutant of Get: tryTake loads the slot and leaves the object in it.
GetLoads(c, s) ==
    /\ client[c] = Outside(NoObject)
    /\ client' = [client EXCEPT ![c] =
                     IF poolSlot[s] # NoObject THEN Outside(poolSlot[s])
                     ELSE [step |-> "own", shard |-> s, walk |-> 1, object |-> NoObject]]
    /\ UNCHANGED <<poolSlot, freeStack, capacity, slabsMu, allocated>>

\* getPersistent on the processor of shard s: tryTake.
Get(c, s) ==
    /\ client[c] = Outside(NoObject)
    /\ poolSlot' = [poolSlot EXCEPT ![s] = NoObject]
    /\ client' = [client EXCEPT ![c] =
                     IF poolSlot[s] # NoObject THEN Outside(poolSlot[s])
                     ELSE [step |-> "own", shard |-> s, walk |-> 1, object |-> NoObject]]
    /\ UNCHANGED <<freeStack, capacity, slabsMu, allocated>>

PopOwn(c) ==
    /\ client[c].step = "own"
    /\ PopFree(c, client[c].shard, "steal", 1)
    /\ UNCHANGED slabsMu

\* One turn of steal; the walk looks at the free stacks alone.
Steal(c) ==
    /\ client[c].step = "steal"
    /\ IF client[c].walk < NumShards
       THEN PopFree(c, Neighbour(client[c].shard, client[c].walk), "steal", client[c].walk + 1)
       ELSE Goes(c, "grow", 1) /\ UNCHANGED <<poolSlot, freeStack, capacity, allocated>>
    /\ UNCHANGED slabsMu

LockSlabs(c) ==
    /\ client[c].step = "grow"
    /\ IF MaxCapacity = 0
       THEN Goes(c, "nil", 1) /\ UNCHANGED slabsMu
       ELSE slabsMu = "free" /\ slabsMu' = c /\ Goes(c, "resteal", 1)
    /\ UNCHANGED <<poolSlot, freeStack, capacity, allocated>>

\* The second look at the other shards, the own one, and the slab.  The
\* deferred unlock runs when an object was found.
Unlocks(c) == slabsMu' = IF client'[c].step \in {"out", "nil"} THEN "free" ELSE slabsMu

StealAgain(c) ==
    /\ client[c].step = "resteal"
    /\ IF client[c].walk < NumShards
       THEN PopFree(c, Neighbour(client[c].shard, client[c].walk), "resteal", client[c].walk + 1)
       ELSE PopFree(c, client[c].shard, "append", 1)
    /\ Unlocks(c)

AppendSlab(c) ==
    LET room  == MaxCapacity - capacity
        chunk == IF capacity < room THEN capacity ELSE room
    IN  /\ client[c].step = "append"
        /\ IF capacity >= MaxCapacity
           THEN Goes(c, "nil", 1) /\ UNCHANGED <<freeStack, capacity, allocated>>
           ELSE /\ allocated + chunk <= MaxObjects
                /\ freeStack' = Distributed(freeStack, allocated + 1, chunk, client[c].shard)
                /\ capacity' = capacity + chunk
                /\ allocated' = allocated + chunk
                /\ Goes(c, "popnew", 0)
        /\ Unlocks(c)
        /\ UNCHANGED poolSlot

\* The objects are on the stacks before the grower pops one, so another
\* client may have taken them.
PopNew(c) ==
    /\ client[c].step = "popnew"
    /\ IF client[c].walk < NumShards
       THEN PopFree(c, Neighbour(client[c].shard, client[c].walk), "popnew", client[c].walk + 1)
       ELSE Goes(c, "nil", 1) /\ UNCHANGED <<poolSlot, freeStack, capacity, allocated>>
    /\ Unlocks(c)

\* Get returns nil; MustGet allocates an object that joins the pool on Put.
GetNil(c) ==
    /\ client[c].step = "nil"
    /\ Gets(c, NoObject)
    /\ UNCHANGED <<poolSlot, freeStack, capacity, slabsMu, allocated>>

MustGetFresh(c) ==
    /\ client[c].step = "nil"
    /\ allocated < MaxObjects
    /\ allocated' = allocated + 1
    /\ Gets(c, allocated + 1)
    /\ UNCHANGED <<poolSlot, freeStack, capacity, slabsMu>>

\* Put on the processor of shard s: tryPut, else pushFree.
Put(c, s) ==
    /\ client[c].step = "out" /\ client[c].object # NoObject
    /\ IF poolSlot[s] = NoObject
       THEN poolSlot' = [poolSlot EXCEPT ![s] = client[c].object] /\ Gets(c, NoObject)
       ELSE /\ client' = [client EXCEPT ![c].step = "push", ![c].shard = s]
            /\ UNCHANGED poolSlot
    /\ UNCHANGED <<freeStack, capacity, slabsMu, allocated>>

PushFree(c) ==
    /\ client[c].step = "push"
    /\ freeStack' = [freeStack EXCEPT ![client[c].shard] = <<client[c].object>> \o @]
    /\ Gets(c, NoObject)
    /\ UNCHANGED <<poolSlot, capacity, slabsMu, allocated>>

PoolNext ==
    \E c \in Clients :
        \/ \E s \in Shards : Get(c, s) \/ Put(c, s)
        \/ PopOwn(c) \/ Steal(c) \/ LockSlabs(c) \/ StealAgain(c) \/ AppendSlab(c) \/ PopNew(c)
        \/ GetNil(c) \/ MustGetFresh(c) \/ PushFree(c)

-----------------------------------------------------------------------------
(* Properties                                                               *)

\* Every object is in exactly one place at any time: in one fast slot, on one
\* free stack once, or with one client.  So two users of a register arena or
\* a mark state never share it, and none is lost, whatever steals, grows or
\* puts at the same time.
EachObjectOnce ==
    \A o \in 1..allocated :
        Cardinality({s \in Shards : poolSlot[s] = o})
        + Cardinality({c \in Clients : client[c].object = o})
        + Cardinality({<<s, i>> \in Shards \X (1..MaxObjects) :
                          i <= Len(freeStack[s]) /\ freeStack[s][i] = o}) = 1
=============================================================================
