---------------------------- MODULE RelayProofs ----------------------------
(***************************************************************************)
(* A filesystem call end to end, for any goroutines, requests, limits and  *)
(* quota.                                                                  *)
(*                                                                         *)
(* While no context has ended the exchange is in lockstep: at most one     *)
(* call is under way, where it is says how far each of the three ledgers   *)
(* has counted (Lockstep), and a response is on its way only when all of   *)
(* them agree (Answered).                                                  *)
(***************************************************************************)
EXTENDS FilesystemRelay, Integers, TLAPS

Ledgers == [closed : BOOLEAN, lastID : Nat, calls : Nat, outstanding : Int,
            remaining : Nat, limit : CallLimits]
Arguments == [valid : BOOLEAN, granted : BOOLEAN, limit : Nat]
Calling == {"called", "checked", "entered", "admitted", "exchanging", "refused", "stopping",
            "replying"}
Ended == {"releasing", "returned"}
RelayPlaces == {"reading", "waiting", "ended", "failed"} \cup Calling \cup Ended
ClosePlaces == {"armed", "closing", "swapped", "shutting", "stopping", "done"}

RelayTypes ==
    /\ proxy \in [ledger : Ledgers, nextID : Nat, failed : BOOLEAN, active : Routines \cup {"none"}]
    /\ routine \in [Routines -> [waits : BOOLEAN, calls : Nat]]
    /\ worker \in {"running", "exited", "killed"}
    /\ workerOut \in Seq([kind : {"call", "success", "failure"}, id : Nat, request : Arguments])
    /\ workerIn \in Seq({"reply"})
    /\ toBroker \in Seq([kind : {"run", "close"}, id : Nat, request : Arguments])
    /\ fromBroker \in Seq({"ok", "error"})
    /\ relay \in [step : RelayPlaces, id : Nat, request : Arguments,
                  result : {"none", "success", "failure"}]
    /\ client \in [ledger : Ledgers, nextID : Nat, active : {"none", "relay", "canceller"},
                   closed : BOOLEAN]
    /\ closer \in [{"relay", "canceller"} -> ClosePlaces]
    /\ broker \in [step : {"serving", "exited", "failed", "killed"}, ledger : Ledgers, served : Nat]
    /\ ending \subseteq {"cancelled", "expired"}
    /\ faulted \in BOOLEAN
    /\ client.ledger.limit = proxy.ledger.limit /\ broker.ledger.limit = proxy.ledger.limit

\* The worker's side: one goroutine waits, for the call the ledger counts last.
Asking ==
    /\ proxy.nextID > 0 /\ proxy.nextID <= proxy.ledger.limit + 1
    /\ \A g \in Routines : routine[g].waits <=> proxy.active = g
    /\ IF proxy.active = "none"
       THEN /\ proxy.ledger.outstanding = 0
            /\ ~proxy.failed => /\ proxy.ledger.lastID = proxy.nextID - 1
                                /\ proxy.ledger.calls = proxy.nextID - 1
                                /\ ~proxy.ledger.closed
       ELSE /\ proxy.ledger.outstanding = 1
            /\ proxy.ledger.lastID = proxy.nextID /\ proxy.ledger.calls = proxy.nextID
            /\ proxy.nextID <= proxy.ledger.limit
            /\ ~proxy.failed => ~proxy.ledger.closed

\* Who may be closing, and who has ended the worker.
Cancelling == "cancelled" \in ending \/ relay.step \in Ended
Closers ==
    /\ closer["relay"] = "armed" <=> relay.step \notin Ended
    /\ relay.step = "returned" => closer["relay"] = "done"
    /\ relay.step \in Ended => closer["canceller"] = "done"
    /\ closer["canceller"] # "armed" => Cancelling
    /\ worker = "killed" => Cancelling
    /\ relay.step \in {"waiting", "ended"} => relay.result # "none"
    /\ relay.step \in {"reading"} \cup Calling => relay.result = "none"

\* A failure has a cause.
Caused ==
    relay.step = "failed" \/ (relay.step \in Ended /\ relay.result = "none")
        => ending # {} \/ faulted

Holds(ledger, count, open, left) ==
    /\ ledger.lastID = count /\ ledger.calls = count
    /\ ledger.outstanding = open /\ ledger.remaining = left

\* count calls were served, and the host and the broker are ready for the
\* next, or closed after the last of the quota.
Ready(count, left) ==
    /\ Holds(client.ledger, count, 0, left) /\ Holds(broker.ledger, count, 0, left)
    /\ client.nextID = count + 1 /\ broker.served = count
    /\ toBroker = <<>> /\ fromBroker = <<>>
    /\ \/ /\ count < proxy.ledger.limit /\ broker.step = "serving" /\ ~broker.ledger.closed
          /\ ~client.closed /\ ~client.ledger.closed
       \/ count = proxy.ledger.limit /\ broker.step = "exited" /\ client.closed

Silent == workerOut = <<>> /\ workerIn = <<>>
InCall == worker = "running" /\ proxy.active # "none" /\ Silent
Left == proxy.ledger.remaining
Verdict == [kind |-> IF proxy.failed THEN "failure" ELSE "success", id |-> 0,
            request |-> NoRequest]

Reading ==
    /\ client.active = "none"
    /\ \/ /\ worker = "running" /\ proxy.active = "none" /\ Silent
          /\ Ready(proxy.nextID - 1, Left)
       \/ /\ worker = "exited" /\ proxy.active = "none" /\ workerIn = <<>>
          /\ workerOut = <<Verdict>> /\ Ready(proxy.nextID - 1, Left)
       \/ /\ worker = "running" /\ proxy.active # "none" /\ workerIn = <<>>
          /\ \E r \in Requests : /\ workerOut = <<[kind |-> "call", id |-> proxy.nextID, request |-> r]>>
                                 /\ r.granted /\ Ready(proxy.nextID - 1, Left + r.limit)
       \/ /\ worker = "running" /\ proxy.active # "none" /\ workerOut = <<>>
          /\ workerIn = <<"reply">> /\ Ready(proxy.nextID, Left)

Called ==
    /\ InCall /\ relay.request.granted
    /\ client.active = IF relay.step = "entered" THEN "relay" ELSE "none"
    /\ Ready(proxy.nextID - 1, Left + relay.request.limit)

\* The host's ledger has counted the call.
Reserved ==
    /\ InCall /\ relay.request.granted /\ client.active = "relay"
    /\ Holds(client.ledger, proxy.nextID, 1, Left) /\ client.nextID = proxy.nextID
    /\ ~client.closed /\ ~client.ledger.closed

\* The broker has not.
Unserved ==
    /\ Holds(broker.ledger, proxy.nextID - 1, 0, Left + relay.request.limit)
    /\ broker.served = proxy.nextID - 1 /\ broker.step = "serving" /\ ~broker.ledger.closed
    /\ fromBroker = <<>>

Served ==
    /\ Holds(broker.ledger, proxy.nextID, 0, Left) /\ broker.served = proxy.nextID
    /\ ~broker.ledger.closed

Exchanging ==
    \/ /\ Unserved
       /\ toBroker = <<[kind |-> "run", id |-> proxy.nextID, request |-> relay.request]>>
    \/ /\ Served /\ toBroker = <<>> /\ fromBroker = <<"ok">>
       /\ broker.step = IF proxy.nextID < DefaultCalls THEN "serving" ELSE "exited"
    \/ faulted /\ fromBroker = <<"error">> /\ broker.step # "serving"

CloseFrame == [kind |-> "close", id |-> 0, request |-> NoRequest]
AskedToClose ==
    \/ broker.step = "serving" /\ toBroker = <<CloseFrame>>
    \/ broker.step = "exited" /\ toBroker = <<>>

Stopping ==
    /\ InCall /\ client.active = "relay" /\ client.closed
    /\ proxy.nextID = proxy.ledger.limit
    /\ Holds(client.ledger, proxy.nextID, 0, Left) /\ client.nextID = proxy.nextID + 1
    /\ Served /\ fromBroker = <<>> /\ AskedToClose

Lockstep ==
    ending = {} =>
        /\ relay.step = "reading" => Reading
        /\ relay.step \in {"called", "checked", "entered"} => Called
        /\ relay.step = "admitted" => Reserved /\ Unserved /\ toBroker = <<>>
        /\ relay.step = "exchanging" => Reserved /\ Exchanging
        /\ relay.step # "refused"
        /\ relay.step = "stopping" => Stopping
        /\ relay.step = "replying" => /\ InCall /\ client.active = "relay"
                                      /\ Ready(proxy.nextID, Left)

\* Every call was answered and the broker is asked to exit, or has.
Settled ==
    /\ worker = "exited" /\ proxy.active = "none" /\ Silent /\ fromBroker = <<>>
    /\ client.nextID = proxy.nextID /\ broker.served = proxy.nextID - 1
    /\ client.ledger.outstanding = 0 /\ broker.ledger.outstanding = 0
    /\ relay.result = "success" => ~proxy.failed
    /\ CASE closer["relay"] \in {"armed", "closing"} ->
                /\ client.active = "none" /\ toBroker = <<>>
                /\ broker.step = IF client.closed THEN "exited" ELSE "serving"
         [] closer["relay"] = "swapped" ->
                client.active = "none" /\ toBroker = <<>> /\ broker.step = "serving"
         [] closer["relay"] = "shutting" ->
                client.active = "relay" /\ toBroker = <<>> /\ broker.step = "serving"
         [] closer["relay"] = "stopping" -> client.active = "relay" /\ AskedToClose
         [] closer["relay"] = "done" ->
                client.active = "none" /\ toBroker = <<>> /\ broker.step = "exited"

Answered ==
    (\/ relay.step \in {"waiting", "ended"} /\ "cancelled" \notin ending
     \/ relay.step \in Ended /\ relay.result # "none")
    => Settled

RelayInv == RelayTypes /\ Asking /\ Closers /\ Caused /\ Lockstep /\ Answered
-----------------------------------------------------------------------------
(* The ledger.                                                              *)

Clients == [ledger : Ledgers, nextID : Nat, active : {"none", "relay", "canceller"},
            closed : BOOLEAN]
Brokers == [step : {"serving", "exited", "failed", "killed"}, ledger : Ledgers, served : Nat]

\* A host chooses at least one call (FilesystemLimits).
LEMMA LimitTypes == CallLimits \subseteq Nat \ {0}
BY RelayBounds

\* Finish and Close.
LEMMA FinishDoes ==
    ASSUME NEW l \in Ledgers
    PROVE  /\ FinishCall(l) \in Ledgers
           /\ FinishCall(l).outstanding = l.outstanding - 1
           /\ FinishCall(l).closed = l.closed /\ FinishCall(l).limit = l.limit
           /\ FinishCall(l).lastID = l.lastID /\ FinishCall(l).calls = l.calls
           /\ FinishCall(l).remaining = l.remaining
           /\ Shut(l) \in Ledgers /\ Shut(l).closed
           /\ Shut(l).outstanding = l.outstanding /\ Shut(l).limit = l.limit
           /\ Shut(l).lastID = l.lastID /\ Shut(l).calls = l.calls
           /\ Shut(l).remaining = l.remaining
<1>1. FinishCall(l) \in Ledgers
  BY DEF FinishCall, Ledgers
<1>2. Shut(l) \in Ledgers
  BY Zenon DEF Shut, Ledgers
<1>3. Shut(l).closed
  BY DEF Shut, Ledgers
<1>4. /\ Shut(l).outstanding = l.outstanding /\ Shut(l).limit = l.limit
      /\ Shut(l).lastID = l.lastID /\ Shut(l).calls = l.calls
      /\ Shut(l).remaining = l.remaining
  BY DEF Shut, Ledgers
<1>5. /\ FinishCall(l).outstanding = l.outstanding - 1
      /\ FinishCall(l).limit = l.limit
      /\ FinishCall(l).lastID = l.lastID /\ FinishCall(l).calls = l.calls
      /\ FinishCall(l).remaining = l.remaining
  BY DEF FinishCall, Ledgers
<1>6. FinishCall(l).closed = l.closed
  BY DEF FinishCall, Ledgers
<1> QED BY <1>1, <1>2, <1>3, <1>4, <1>5, <1>6

\* FilesystemBudget.Admit grants a call when nothing speaks against it, counts
\* it, and takes nothing from the quota when it refuses.
LEMMA AdmittedDoes ==
    ASSUME NEW l \in Ledgers, NEW id \in Nat, NEW r \in Arguments, NEW a,
           a = Admitted(l, id, r)
    PROVE  /\ a.ledger \in Ledgers /\ a.ledger.limit = l.limit /\ a.granted \in BOOLEAN
           /\ a.granted <=> /\ ~l.closed /\ id > l.lastID /\ l.calls # l.limit
                            /\ r.granted /\ l.outstanding # Outstanding /\ r.limit <= l.remaining
           /\ a.granted => /\ ~a.ledger.closed /\ a.ledger.lastID = id
                           /\ a.ledger.calls = l.calls + 1
                           /\ a.ledger.outstanding = l.outstanding + 1
                           /\ a.ledger.remaining = l.remaining - r.limit
           /\ ~a.granted => /\ a.ledger.outstanding = l.outstanding
                            /\ a.ledger.remaining = l.remaining
<1> USE LimitTypes, RelayBounds
<1>1. CASE l.closed
  BY <1>1, Zenon DEF Admitted, Ledgers, Arguments
<1>2. CASE ~l.closed /\ id <= l.lastID
  <2>1. a = [ledger |-> Shut(l), granted |-> FALSE]
    BY <1>2 DEF Admitted, Shut, Ledgers
  <2> QED BY <1>2, <2>1, FinishDoes DEF Ledgers, Arguments
<1> DEFINE seen == [l EXCEPT !.lastID = id]
           counted == [seen EXCEPT !.calls = @ + 1]
           taken == [counted EXCEPT !.outstanding = @ + 1]
           paid == [taken EXCEPT !.remaining = @ - r.limit]
<1>3. /\ seen \in Ledgers /\ seen.calls = l.calls /\ seen.outstanding = l.outstanding
      /\ seen.remaining = l.remaining /\ seen.limit = l.limit /\ seen.closed = l.closed
      /\ seen.lastID = id
  BY DEF Ledgers
<1>4. /\ counted \in Ledgers /\ counted.calls = l.calls + 1 /\ counted.lastID = id
      /\ counted.outstanding = l.outstanding /\ counted.closed = l.closed
      /\ counted.remaining = l.remaining /\ counted.limit = l.limit
  <2> HIDE DEF seen
  <2> QED BY <1>3 DEF Ledgers
<1>5. CASE ~l.closed /\ id > l.lastID /\ l.calls = l.limit
  <2>1. a = [ledger |-> Shut(seen), granted |-> FALSE]
    BY <1>5 DEF Admitted, Shut, Ledgers
  <2> HIDE DEF seen
  <2> QED BY <1>3, <1>5, <2>1, FinishDoes DEF Ledgers
<1>6. CASE ~l.closed /\ id > l.lastID /\ l.calls # l.limit
  <2>1. CASE r.granted /\ l.outstanding # Outstanding /\ ~(r.limit > l.remaining)
    <3>1. a = [ledger |-> [counted EXCEPT !.outstanding = @ + 1, !.remaining = @ - r.limit],
               granted |-> TRUE]
      BY <1>6, <2>1 DEF Admitted, Ledgers
    <3>2. /\ taken \in Ledgers /\ taken.calls = l.calls + 1 /\ taken.lastID = id
          /\ taken.outstanding = l.outstanding + 1 /\ taken.closed = l.closed
          /\ taken.remaining = l.remaining /\ taken.limit = l.limit
      <4> HIDE DEF counted
      <4> QED BY <1>4 DEF Ledgers
    <3>3. /\ paid \in Ledgers /\ paid.calls = l.calls + 1 /\ paid.lastID = id
          /\ paid.outstanding = l.outstanding + 1 /\ paid.closed = l.closed
          /\ paid.remaining = l.remaining - r.limit /\ paid.limit = l.limit
      <4> HIDE DEF taken
      <4> QED BY <2>1, <3>2 DEF Ledgers, Arguments
    <3>4. a = [ledger |-> paid, granted |-> TRUE]
      <4> HIDE DEF counted
      <4> QED BY <3>1, <1>4, Zenon DEF Ledgers
    <3> HIDE DEF paid
    <3> QED BY <1>6, <2>1, <3>3, <3>4 DEF Ledgers, Arguments
  <2>2. CASE ~(r.granted /\ l.outstanding # Outstanding /\ ~(r.limit > l.remaining))
    <3>1. a = [ledger |-> counted, granted |-> FALSE]
      BY <1>6, <2>2 DEF Admitted, Ledgers
    <3> HIDE DEF counted
    <3> QED BY <1>4, <1>6, <2>2, <3>1 DEF Ledgers, Arguments
  <2> QED BY <2>1, <2>2
<1> QED BY <1>1, <1>2, <1>5, <1>6 DEF Ledgers

\* A frame on an empty stream is the next one read, and the last.
LEMMA OneFrame ==
    ASSUME NEW x
    PROVE  /\ <<x>> # <<>> /\ Head(<<x>>) = x /\ Tail(<<x>>) = <<>> /\ Append(<<>>, x) = <<x>>
OBVIOUS

\* The frame a reader takes from a stream, and what stays on it.
LEMMA NextFrame ==
    ASSUME NEW S, NEW s \in Seq(S), s # <<>>
    PROVE  Head(s) \in S /\ Tail(s) \in Seq(S)
OBVIOUS

-----------------------------------------------------------------------------
(* The worker.                                                              *)

\* Invoke, for a call that is written: the host is between two calls.
LEMMA AskKeeps ==
    ASSUME RelayInv, NEW g \in Routines, NEW request \in Requests, Invoke(g, request),
           proxy.active = "none", ~proxy.failed,
           Admitted(proxy.ledger, proxy.nextID, request).granted, request.valid
    PROVE  RelayInv'
<1> DEFINE a == Admitted(proxy.ledger, proxy.nextID, request)
<1>1. /\ proxy' = [proxy EXCEPT !.active = g, !.ledger = a.ledger]
      /\ workerOut' = Append(workerOut, [kind |-> "call", id |-> proxy.nextID, request |-> request])
      /\ routine' = [routine EXCEPT ![g] = [waits |-> TRUE, calls |-> @.calls + 1]]
      /\ worker = "running"
      /\ UNCHANGED <<worker, workerIn, toBroker, fromBroker, relay, client, closer, broker,
                     ending, faulted>>
  BY Zenon DEF Invoke
<1>2. request \in Arguments /\ proxy.ledger \in Ledgers /\ proxy.nextID \in Nat /\ g # "none"
  BY RelayBounds DEF RelayInv, RelayTypes, Arguments
<1>3. /\ a.ledger \in Ledgers /\ a.ledger.limit = proxy.ledger.limit
      /\ ~proxy.ledger.closed /\ proxy.nextID > proxy.ledger.lastID
      /\ proxy.ledger.calls # proxy.ledger.limit
      /\ request.granted /\ request.limit <= proxy.ledger.remaining
      /\ ~a.ledger.closed /\ a.ledger.lastID = proxy.nextID
      /\ a.ledger.calls = proxy.ledger.calls + 1
      /\ a.ledger.outstanding = proxy.ledger.outstanding + 1
      /\ a.ledger.remaining = proxy.ledger.remaining - request.limit
  BY <1>2, AdmittedDoes
<1> HIDE DEF a
<1>4. /\ proxy' \in [ledger : Ledgers, nextID : Nat, failed : BOOLEAN, active : Routines \cup {"none"}]
      /\ proxy'.ledger = a.ledger /\ proxy'.active = g
      /\ proxy'.nextID = proxy.nextID /\ proxy'.failed = proxy.failed
  BY <1>1, <1>3, Zenon DEF RelayInv, RelayTypes
<1>5. RelayTypes'
  <2>1. routine' \in [Routines -> [waits : BOOLEAN, calls : Nat]]
    BY <1>1 DEF RelayInv, RelayTypes
  <2>2. workerOut' \in Seq([kind : {"call", "success", "failure"}, id : Nat, request : Arguments])
    BY <1>1, <1>2 DEF RelayInv, RelayTypes
  <2> QED BY <1>1, <1>3, <1>4, <2>1, <2>2, ZenonT(30) DEF RelayInv, RelayTypes
<1>6. Asking'
  <2>1. \A h \in Routines : routine'[h].waits <=> h = g
    <3>1. \A h \in Routines : ~routine[h].waits
      BY RelayBounds DEF RelayInv, Asking
    <3>2. routine \in [Routines -> [waits : BOOLEAN, calls : Nat]]
      BY DEF RelayInv, RelayTypes
    <3>3. routine'[g].waits /\ \A h \in Routines : h # g => routine'[h] = routine[h]
      BY <1>1, <3>2
    <3> QED BY <3>1, <3>3
  <2>2. proxy.ledger.calls = proxy.nextID - 1 /\ proxy.nextID <= proxy.ledger.limit + 1
    BY DEF RelayInv, Asking
  <2>3. proxy.nextID <= proxy.ledger.limit /\ a.ledger.calls = proxy.nextID
    <3>1. proxy.ledger.limit \in Nat /\ proxy.ledger.calls \in Nat
      BY <1>2, LimitTypes, Zenon DEF Ledgers
    <3> QED BY <1>2, <1>3, <2>2, <3>1
  <2>4. proxy.ledger.outstanding = 0 /\ proxy.nextID > 0
    BY DEF RelayInv, Asking
  <2> QED BY <1>2, <1>3, <1>4, <2>1, <2>2, <2>3, <2>4 DEF Asking
<1>7. Closers' /\ Caused'
  BY <1>1 DEF RelayInv, Closers, Caused, Cancelling
<1>8. Lockstep'
  <2>1. SUFFICES ASSUME ending = {} PROVE Lockstep'
    BY <1>1 DEF Lockstep
  <2>2. relay.step \notin Calling
    BY <2>1 DEF RelayInv, Lockstep, Calling, Called, Reserved, Stopping, InCall
  <2>3. CASE relay.step = "reading"
    <3>1. Silent /\ Ready(proxy.nextID - 1, Left) /\ client.active = "none"
      BY <1>1, <2>1, <2>3 DEF RelayInv, Lockstep, Reading
    <3>2. workerOut' = <<[kind |-> "call", id |-> proxy'.nextID, request |-> request]>>
      BY <1>1, <1>4, <3>1 DEF Silent
    <3>3. Left = Left' + request.limit
      BY <1>2, <1>3, <1>4 DEF Left, Ledgers, Arguments
    <3>4. Ready(proxy.nextID - 1, Left + request.limit)'
      BY <1>1, <1>3, <1>4, <3>1, <3>3 DEF Ready, Holds
    <3> QED BY <1>1, <1>2, <1>3, <1>4, <2>3, <3>1, <3>2, <3>3, <3>4, ZenonT(30) DEF Lockstep, Reading, Silent
  <2> QED BY <1>1, <2>2, <2>3 DEF Lockstep, Calling
<1>9. Answered'
  BY <1>1 DEF RelayInv, Answered, Settled
<1> QED BY <1>5, <1>6, <1>7, <1>8, <1>9 DEF RelayInv

\* Invoke, for a call that is refused in the worker: nobody else learns of it.
LEMMA RefuseKeeps ==
    ASSUME RelayInv, NEW g \in Routines, NEW request \in Requests, Invoke(g, request),
           ~(/\ proxy.active = "none" /\ ~proxy.failed /\ request.valid
             /\ Admitted(proxy.ledger, proxy.nextID, request).granted)
    PROVE  RelayInv'
<1> DEFINE a == Admitted(proxy.ledger, proxy.nextID, request)
           asks == proxy.active = "none" /\ ~proxy.failed /\ request.valid
           l == IF asks THEN a.ledger ELSE proxy.ledger
<1>1. /\ proxy' = [proxy EXCEPT !.failed = TRUE, !.ledger = Shut(l)]
      /\ workerOut' = workerOut
      /\ routine' = [routine EXCEPT ![g] = [waits |-> FALSE, calls |-> @.calls + 1]]
      /\ worker = "running" /\ ~routine[g].waits
      /\ UNCHANGED <<worker, workerIn, toBroker, fromBroker, relay, client, closer, broker,
                     ending, faulted>>
  BY Zenon DEF Invoke, Latched
<1>2. request \in Arguments /\ proxy.ledger \in Ledgers /\ proxy.nextID \in Nat
  BY RelayBounds DEF RelayInv, RelayTypes, Arguments
<1>3. /\ l \in Ledgers /\ l.limit = proxy.ledger.limit
      /\ l.outstanding = proxy.ledger.outstanding /\ l.remaining = proxy.ledger.remaining
      /\ ~asks => l = proxy.ledger
  <2>1. CASE asks
    BY <1>2, <2>1, AdmittedDoes
  <2>2. CASE ~asks
    BY <1>2, <2>2
  <2> QED BY <2>1, <2>2
<1>4. proxy.active # "none" => l = proxy.ledger
  BY <1>3
<1> HIDE DEF l
<1>5. /\ Shut(l) \in Ledgers /\ Shut(l).limit = l.limit /\ Shut(l).outstanding = l.outstanding
      /\ Shut(l).remaining = l.remaining /\ Shut(l).lastID = l.lastID /\ Shut(l).calls = l.calls
  BY <1>3, FinishDoes
<1>6. /\ proxy'.ledger = Shut(l) /\ proxy'.active = proxy.active
      /\ proxy'.nextID = proxy.nextID /\ proxy'.failed = TRUE
  BY <1>1 DEF RelayInv, RelayTypes
<1>7. RelayTypes'
  <2>1. routine' \in [Routines -> [waits : BOOLEAN, calls : Nat]]
    BY <1>1 DEF RelayInv, RelayTypes
  <2>2. proxy' \in [ledger : Ledgers, nextID : Nat, failed : BOOLEAN, active : Routines \cup {"none"}]
    BY <1>1, <1>5, Zenon DEF RelayInv, RelayTypes
  <2> QED BY <1>1, <1>3, <1>5, <1>6, <2>1, <2>2, ZenonT(30) DEF RelayInv, RelayTypes
<1>8. Asking'
  <2>1. \A h \in Routines : routine'[h].waits <=> proxy.active = h
    <3>1. routine \in [Routines -> [waits : BOOLEAN, calls : Nat]]
      BY DEF RelayInv, RelayTypes
    <3>2. ~routine'[g].waits /\ \A h \in Routines : h # g => routine'[h] = routine[h]
      BY <1>1, <3>1
    <3> QED BY <1>1, <3>2 DEF RelayInv, Asking
  <2>2. CASE proxy.active = "none"
    BY <1>3, <1>5, <1>6, <2>1, <2>2 DEF RelayInv, Asking
  <2>3. CASE proxy.active # "none"
    BY <1>4, <1>5, <1>6, <2>1, <2>3 DEF RelayInv, Asking
  <2> QED BY <2>2, <2>3
<1>9. Closers' /\ Caused'
  BY <1>1 DEF RelayInv, Closers, Caused, Cancelling
<1>10. Lockstep'
  <2>1. Left' = Left /\ proxy'.ledger.limit = proxy.ledger.limit
    BY <1>3, <1>5, <1>6 DEF Left
  <2>2. SUFFICES ASSUME ending = {} PROVE Lockstep'
    BY <1>1 DEF Lockstep
  <2>3. CASE relay.step = "reading"
    <3>1. Reading
      BY <2>2, <2>3, ZenonT(30) DEF RelayInv, Lockstep
    <3>2. Reading'
      BY <1>1, <1>6, <2>1, <3>1, ZenonT(30) DEF Reading, Ready, Holds, Silent
    <3> QED BY <1>1, <2>3, <3>2 DEF Lockstep
  <2>4. CASE relay.step # "reading"
    BY <1>1, <1>6, <2>1, <2>2, <2>4 DEF RelayInv, Lockstep, Called, Reserved, Unserved, Served,
       Exchanging, Stopping, AskedToClose, InCall, Silent, Ready, Holds
  <2> QED BY <2>3, <2>4
<1>11. Answered'
  BY <1>1 DEF RelayInv, Answered, Settled
<1> QED BY <1>7, <1>8, <1>9, <1>10, <1>11 DEF RelayInv

\* The reply reaches the goroutine that waits.
LEMMA ReceiveReplyKeeps ==
    ASSUME RelayInv, NEW g \in Routines, ReceiveReply(g)
    PROVE  RelayInv'
<1>1. /\ proxy' = [proxy EXCEPT !.active = "none", !.nextID = @ + 1, !.ledger = FinishCall(@)]
      /\ workerIn # <<>> /\ workerIn' = Tail(workerIn)
      /\ routine' = [routine EXCEPT ![g].waits = FALSE]
      /\ worker = "running" /\ proxy.active = g /\ g # "none"
      /\ UNCHANGED <<worker, workerOut, toBroker, fromBroker, relay, client, closer, broker,
                     ending, faulted>>
  BY RelayBounds DEF ReceiveReply
<1> DEFINE l == FinishCall(proxy.ledger)
<1>2. /\ proxy.ledger \in Ledgers /\ proxy.nextID \in Nat /\ proxy.ledger.limit \in Nat
      /\ proxy.ledger.outstanding \in Int
  BY LimitTypes, Zenon DEF RelayInv, RelayTypes, Ledgers
<1>3. /\ l \in Ledgers /\ l.limit = proxy.ledger.limit /\ l.lastID = proxy.ledger.lastID
      /\ l.calls = proxy.ledger.calls /\ l.outstanding = proxy.ledger.outstanding - 1
      /\ l.remaining = proxy.ledger.remaining /\ l.closed = proxy.ledger.closed
  BY <1>2, FinishDoes
<1>4. proxy' = [proxy EXCEPT !.active = "none", !.nextID = @ + 1, !.ledger = l]
  BY <1>1
<1> HIDE DEF l
<1>5. /\ proxy'.ledger = l /\ proxy'.active = "none"
      /\ proxy'.nextID = proxy.nextID + 1 /\ proxy'.failed = proxy.failed
  BY <1>4 DEF RelayInv, RelayTypes
<1>6. RelayTypes'
  <2>1. routine' \in [Routines -> [waits : BOOLEAN, calls : Nat]]
    <3> DEFINE no == FALSE
               r == [routine[g] EXCEPT !.waits = no]
    <3>1. no \in BOOLEAN /\ routine' = [routine EXCEPT ![g] = r]
      BY <1>1
    <3> HIDE DEF no
    <3>2. r \in [waits : BOOLEAN, calls : Nat]
      <4>1. routine[g] \in [waits : BOOLEAN, calls : Nat]
        BY DEF RelayInv, RelayTypes
      <4> QED BY <3>1, <4>1
    <3> HIDE DEF r
    <3> QED BY <3>1, <3>2 DEF RelayInv, RelayTypes
  <2>2. proxy' \in [ledger : Ledgers, nextID : Nat, failed : BOOLEAN, active : Routines \cup {"none"}]
    <3>1. proxy' = [ledger |-> l, nextID |-> proxy.nextID + 1, failed |-> proxy.failed,
                    active |-> "none"]
      BY <1>4, Zenon DEF RelayInv, RelayTypes
    <3>2. proxy.failed \in BOOLEAN
      BY DEF RelayInv, RelayTypes
    <3> QED BY <1>2, <1>3, <3>1, <3>2
  <2>3. workerIn' \in Seq({"reply"})
    BY <1>1 DEF RelayInv, RelayTypes
  <2> QED BY <1>1, <1>3, <1>5, <2>1, <2>2, <2>3, ZenonT(30) DEF RelayInv, RelayTypes
<1>7. Asking'
  <2>1. \A h \in Routines : ~routine'[h].waits
    <3>1. routine \in [Routines -> [waits : BOOLEAN, calls : Nat]]
      BY DEF RelayInv, RelayTypes
    <3>2. ~routine'[g].waits /\ \A h \in Routines : h # g => routine'[h] = routine[h]
      BY <1>1, <3>1
    <3> QED BY <1>1, <3>2 DEF RelayInv, Asking
  <2>2. /\ proxy.ledger.outstanding = 1 /\ proxy.ledger.lastID = proxy.nextID
        /\ proxy.ledger.calls = proxy.nextID /\ proxy.nextID <= proxy.ledger.limit
        /\ ~proxy.failed => ~proxy.ledger.closed
    BY <1>1 DEF RelayInv, Asking
  <2> QED BY <1>2, <1>3, <1>5, <2>1, <2>2, RelayBounds DEF Asking
<1>8. Closers' /\ Caused'
  BY <1>1 DEF RelayInv, Closers, Caused, Cancelling
<1>9. Lockstep'
  <2>1. Left' = Left /\ proxy'.ledger.limit = proxy.ledger.limit
    BY <1>3, <1>5 DEF Left
  <2>2. SUFFICES ASSUME ending = {} PROVE Lockstep'
    BY <1>1 DEF Lockstep
  <2>3. relay.step \notin Calling
    BY <1>1, <2>2 DEF RelayInv, Lockstep, Calling, Called, Reserved, Stopping, InCall, Silent
  <2>4. CASE relay.step = "reading"
    <3>1. /\ workerIn = <<"reply">> /\ workerOut = <<>> /\ client.active = "none"
          /\ Ready(proxy.nextID, Left)
      BY <1>1, <2>2, <2>4 DEF RelayInv, Lockstep, Reading, Silent
    <3>2. proxy'.nextID - 1 = proxy.nextID
      BY <1>2, <1>5
    <3>3. Ready(proxy.nextID - 1, Left)'
      BY <1>1, <2>1, <3>1, <3>2 DEF Ready, Holds
    <3>4. Silent'
      BY <1>1, <3>1 DEF Silent
    <3> QED BY <1>1, <1>5, <2>4, <3>1, <3>3, <3>4 DEF Lockstep, Reading
  <2> QED BY <1>1, <2>3, <2>4 DEF Lockstep, Calling
<1>10. Answered'
  BY <1>1 DEF RelayInv, Answered, Settled
<1> QED BY <1>6, <1>7, <1>8, <1>9, <1>10 DEF RelayInv

\* The program ends when nobody waits, and the result is the last frame.
LEMMA EndProgramKeeps ==
    ASSUME RelayInv, EndProgram
    PROVE  RelayInv'
<1>1. /\ worker = "running" /\ worker' = "exited"
      /\ workerOut' = Append(workerOut, Verdict)
      /\ UNCHANGED <<proxy, routine, workerIn, toBroker, fromBroker, relay, client, closer,
                     broker, ending, faulted>>
  BY DEF EndProgram, Verdict
<1>2. proxy.active = "none"
  BY DEF RelayInv, RelayTypes, Asking, EndProgram
<1>3. RelayTypes'
  <2>1. Verdict \in [kind : {"call", "success", "failure"}, id : Nat, request : Arguments]
    BY DEF Verdict, NoRequest, Arguments
  <2> QED BY <1>1, <2>1 DEF RelayInv, RelayTypes
<1>4. Asking' /\ Closers' /\ Caused'
  BY <1>1 DEF RelayInv, Asking, Closers, Caused, Cancelling
<1>5. Lockstep'
  <2>1. SUFFICES ASSUME ending = {} PROVE Lockstep'
    BY <1>1 DEF Lockstep
  <2>2. relay.step \notin Calling
    BY <1>2, <2>1 DEF RelayInv, Lockstep, Calling, Called, Reserved, Stopping, InCall
  <2>3. CASE relay.step = "reading"
    <3>1. Silent /\ Ready(proxy.nextID - 1, Left) /\ client.active = "none"
      BY <1>1, <1>2, <2>1, <2>3 DEF RelayInv, Lockstep, Reading
    <3>2. workerOut' = <<Verdict>>
      BY <1>1, <3>1 DEF Silent
    <3>3. Verdict' = Verdict /\ Ready(proxy.nextID - 1, Left)'
      BY <1>1, <3>1 DEF Verdict, Ready, Holds, Left
    <3> HIDE DEF Verdict
    <3> QED BY <1>1, <1>2, <2>3, <3>1, <3>2, <3>3 DEF Lockstep, Reading, Silent
  <2> QED BY <1>1, <2>2, <2>3 DEF Lockstep, Calling
<1>6. Answered'
  BY <1>1 DEF RelayInv, Answered, Settled
<1> QED BY <1>3, <1>4, <1>5, <1>6 DEF RelayInv

-----------------------------------------------------------------------------
(* The broker.                                                              *)

\* The ledger of the broker admits what the two before it did.
LEMMA ServeOperationKeeps ==
    ASSUME RelayInv, NEW fails \in BOOLEAN, ServeOperation(fails)
    PROVE  RelayInv'
<1> DEFINE message == Head(toBroker)
           a == Admitted(broker.ledger, message.id, message.request)
           ok == a.granted /\ ~fails
           l == IF a.granted THEN FinishCall(a.ledger) ELSE a.ledger
           step == IF ok /\ broker.served + 1 < DefaultCalls THEN "serving" ELSE Exits(ok)
<1>1. /\ broker.step = "serving" /\ toBroker # <<>> /\ message.kind = "run"
      /\ toBroker' = Tail(toBroker)
      /\ fromBroker' = Append(fromBroker, IF ok THEN "ok" ELSE "error")
      /\ broker' = [step |-> step, ledger |-> l, served |-> broker.served + 1]
      /\ faulted' = (faulted \/ fails)
      /\ UNCHANGED <<proxy, routine, worker, workerOut, workerIn, relay, client, closer, ending>>
  BY DEF ServeOperation
<1>2. /\ message.id \in Nat /\ message.request \in Arguments /\ broker.ledger \in Ledgers
      /\ broker.served \in Nat
  <2>1. message \in [kind : {"run", "close"}, id : Nat, request : Arguments]
    BY <1>1, NextFrame, Zenon DEF RelayInv, RelayTypes
  <2> QED BY <2>1, ZenonT(30) DEF RelayInv, RelayTypes
<1>3. /\ a.ledger \in Ledgers /\ a.ledger.limit = broker.ledger.limit /\ a.granted \in BOOLEAN
      /\ a.granted <=> /\ ~broker.ledger.closed /\ message.id > broker.ledger.lastID
                       /\ broker.ledger.calls # broker.ledger.limit /\ message.request.granted
                       /\ broker.ledger.outstanding # Outstanding
                       /\ message.request.limit <= broker.ledger.remaining
      /\ a.granted => /\ ~a.ledger.closed /\ a.ledger.lastID = message.id
                      /\ a.ledger.calls = broker.ledger.calls + 1
                      /\ a.ledger.outstanding = broker.ledger.outstanding + 1
                      /\ a.ledger.remaining = broker.ledger.remaining - message.request.limit
  BY <1>2, AdmittedDoes
<1> HIDE DEF a
<1>4. /\ l \in Ledgers /\ l.limit = broker.ledger.limit
      /\ a.granted => /\ l.closed = a.ledger.closed /\ l.lastID = a.ledger.lastID
                      /\ l.calls = a.ledger.calls /\ l.remaining = a.ledger.remaining
                      /\ l.outstanding = a.ledger.outstanding - 1
  BY <1>3, FinishDoes
<1> HIDE DEF l
<1>5. step \in {"serving", "exited", "failed"} /\ (~ok => step = "failed")
  BY DEF Exits
<1>6. ok => step = IF broker.served + 1 < DefaultCalls THEN "serving" ELSE "exited"
  BY DEF Exits
<1> HIDE DEF step
<1>7. RelayTypes'
  <2>1. broker' \in Brokers
    BY <1>1, <1>2, <1>4, <1>5 DEF Brokers
  <2>2. toBroker' \in Seq([kind : {"run", "close"}, id : Nat, request : Arguments])
    BY <1>1 DEF RelayInv, RelayTypes
  <2>3. fromBroker' \in Seq({"ok", "error"})
    BY <1>1 DEF RelayInv, RelayTypes
  <2>4. faulted' \in BOOLEAN
    BY <1>1, Zenon DEF RelayInv, RelayTypes
  <2>5. broker'.ledger.limit = broker.ledger.limit
    BY <1>1, <1>4
  <2> QED BY <1>1, <2>1, <2>2, <2>3, <2>4, <2>5, ZenonT(30) DEF RelayInv, RelayTypes, Brokers
<1>8. Asking' /\ Closers'
  BY <1>1 DEF RelayInv, Asking, Closers, Cancelling
<1>9. Caused'
  BY <1>1, Zenon DEF RelayInv, Caused
<1>10. Lockstep'
  <2>1. SUFFICES ASSUME ending = {} PROVE Lockstep'
    BY <1>1, ZenonT(30) DEF Lockstep
  <2>2. relay.step \in Calling \cup {"reading"} => relay.step = "exchanging"
    BY <1>1, <2>1 DEF RelayInv, Lockstep, Reading, Calling, Called, Stopping, AskedToClose,
       CloseFrame, Ready
  <2>3. CASE relay.step = "exchanging"
    <3>1. /\ Reserved /\ Unserved /\ message.id = proxy.nextID /\ message.request = relay.request
          /\ Tail(toBroker) = <<>>
      <4>1. /\ Reserved /\ Unserved
            /\ toBroker = <<[kind |-> "run", id |-> proxy.nextID, request |-> relay.request]>>
        BY <1>1, <2>1, <2>3 DEF RelayInv, Lockstep, Exchanging
      <4> QED BY <4>1, OneFrame
    <3>2. Reserved'
      BY <1>1, <3>1 DEF Reserved, Holds, InCall, Silent, Left
    <3>3. /\ Left \in Nat /\ relay.request.limit \in Nat /\ proxy.nextID \in Nat
          /\ proxy.nextID > 0 /\ proxy.nextID <= broker.ledger.limit /\ broker.ledger.limit \in Nat
      BY <3>1, LimitTypes, Zenon DEF RelayInv, RelayTypes, Asking, Reserved, InCall, Left, Ledgers, Arguments
    <3>4. a.granted
      BY <1>3, <3>1, <3>3, RelayBounds DEF Unserved, Holds, Reserved
    <3>5. CASE fails
      <4>1. fromBroker' = <<"error">>
        BY <1>1, <3>1, <3>5, OneFrame DEF Unserved
      <4>2. broker'.step # "serving"
        BY <1>1, <1>5, <3>5
      <4>3. faulted'
        BY <1>1, <3>5, Zenon
      <4> QED BY <1>1, <2>3, <3>2, <4>1, <4>2, <4>3, Zenon DEF Lockstep, Exchanging
    <3>6. CASE ~fails
      <4>1. fromBroker' = <<"ok">> /\ toBroker' = <<>>
        BY <1>1, <3>1, <3>4, <3>6 DEF Unserved
      <4>2. Served'
        BY <1>1, <1>3, <1>4, <3>1, <3>3, <3>4 DEF Served, Unserved, Holds, Left
      <4>3. broker'.step = IF proxy'.nextID < DefaultCalls THEN "serving" ELSE "exited"
        BY <1>1, <1>6, <3>1, <3>3, <3>4, <3>6 DEF Unserved
      <4> QED BY <1>1, <2>3, <3>2, <4>1, <4>2, <4>3, Zenon DEF Lockstep, Exchanging
    <3> QED BY <3>5, <3>6
  <2> QED BY <1>1, <2>2, <2>3 DEF Lockstep, Calling
<1>11. Answered'
  <2>1. SUFFICES ASSUME Settled PROVE FALSE
    BY <1>1 DEF RelayInv, Answered
  <2>2. toBroker = <<>> \/ toBroker = <<CloseFrame>>
    BY <2>1, Zenon DEF RelayInv, RelayTypes, ClosePlaces, Settled, AskedToClose
  <2>3. toBroker # <<CloseFrame>>
    BY <1>1, OneFrame DEF CloseFrame
  <2> QED BY <1>1, <2>2, <2>3
<1> QED BY <1>7, <1>8, <1>9, <1>10, <1>11 DEF RelayInv

\* A Close frame is the last thing the broker reads.
LEMMA ServeCloseKeeps ==
    ASSUME RelayInv, ServeClose
    PROVE  RelayInv'
<1>1. /\ broker.step = "serving" /\ toBroker # <<>> /\ Head(toBroker).kind = "close"
      /\ toBroker' = Tail(toBroker)
      /\ broker' = [broker EXCEPT !.step = "exited"]
      /\ UNCHANGED <<proxy, routine, worker, workerOut, workerIn, fromBroker, relay, client, closer,
                     ending, faulted>>
  BY DEF ServeClose, Exits
<1>2. /\ broker' \in Brokers /\ broker'.ledger = broker.ledger /\ broker'.step = "exited"
      /\ broker'.served = broker.served
  BY <1>1, Zenon DEF RelayInv, RelayTypes, Brokers
<1>3. RelayTypes'
  <2>1. toBroker' \in Seq([kind : {"run", "close"}, id : Nat, request : Arguments])
    BY <1>1 DEF RelayInv, RelayTypes
  <2> QED BY <1>1, <1>2, <2>1, ZenonT(30) DEF RelayInv, RelayTypes, Brokers
<1>4. Asking' /\ Closers' /\ Caused'
  BY <1>1 DEF RelayInv, Asking, Closers, Caused, Cancelling
<1>5. Lockstep'
  <2>1. SUFFICES ASSUME ending = {} PROVE Lockstep'
    BY <1>1 DEF Lockstep
  <2>2. relay.step \in Calling \cup {"reading"} => relay.step = "stopping"
    BY <1>1, <2>1 DEF RelayInv, Lockstep, Reading, Calling, Called, Exchanging, Ready
  <2>3. CASE relay.step = "stopping"
    <3>1. Stopping /\ Tail(toBroker) = <<>>
      <4>1. Stopping /\ toBroker = <<CloseFrame>>
        BY <1>1, <2>1, <2>3 DEF RelayInv, Lockstep, Stopping, AskedToClose
      <4> QED BY <4>1, OneFrame
    <3>2. Stopping'
      BY <1>1, <1>2, <3>1 DEF Stopping, Served, AskedToClose, Holds, InCall, Silent, Left
    <3> QED BY <1>1, <2>3, <3>2 DEF Lockstep
  <2> QED BY <1>1, <2>2, <2>3 DEF Lockstep, Calling
<1>6. Answered'
  <2>1. SUFFICES ASSUME Settled PROVE Settled'
    BY <1>1 DEF RelayInv, Answered
  <2>2. closer["relay"] = "stopping" /\ toBroker = <<CloseFrame>>
    BY <1>1, <2>1, Zenon DEF RelayInv, RelayTypes, ClosePlaces, Settled, AskedToClose
  <2>3. toBroker' = <<>>
    BY <1>1, <2>2, OneFrame
  <2> QED BY <1>1, <1>2, <2>1, <2>2, <2>3 DEF Settled, AskedToClose, Silent
<1> QED BY <1>3, <1>4, <1>5, <1>6 DEF RelayInv

-----------------------------------------------------------------------------
(* The host.                                                                *)

\* A step of the relay alone.
LEMMA ToStepDoes ==
    ASSUME RelayInv, NEW step \in RelayPlaces, ToStep(step)
    PROVE  /\ relay' \in [step : RelayPlaces, id : Nat, request : Arguments,
                           result : {"none", "success", "failure"}]
           /\ relay'.step = step /\ relay'.id = relay.id
           /\ relay'.request = relay.request /\ relay'.result = relay.result
BY Zenon DEF RelayInv, RelayTypes, ToStep

\* abort closes the client and its ledger, and leaves the account alone.
LEMMA AbortedDoes ==
    ASSUME NEW c \in Clients
    PROVE  /\ Aborted(c) \in Clients /\ Aborted(c).closed /\ Aborted(c).ledger = Shut(c.ledger)
           /\ Aborted(c).nextID = c.nextID /\ Aborted(c).active = c.active
           /\ Shut(c.ledger) \in Ledgers /\ Shut(c.ledger).limit = c.ledger.limit
           /\ Shut(c.ledger).lastID = c.ledger.lastID /\ Shut(c.ledger).calls = c.ledger.calls
           /\ Shut(c.ledger).outstanding = c.ledger.outstanding
           /\ Shut(c.ledger).remaining = c.ledger.remaining
<1> DEFINE l == Shut(c.ledger)
           yes == TRUE
<1>1. c.ledger \in Ledgers
  BY DEF Clients
<1>2. /\ l \in Ledgers /\ l.limit = c.ledger.limit /\ l.lastID = c.ledger.lastID
      /\ l.calls = c.ledger.calls /\ l.outstanding = c.ledger.outstanding
      /\ l.remaining = c.ledger.remaining
  BY <1>1, FinishDoes
<1>3. Aborted(c) = [c EXCEPT !.closed = yes, !.ledger = l] /\ yes \in BOOLEAN /\ yes
  BY DEF Aborted
<1> HIDE DEF l, yes
<1>4. /\ [c EXCEPT !.closed = yes, !.ledger = l] \in Clients
      /\ [c EXCEPT !.closed = yes, !.ledger = l].closed = yes
      /\ [c EXCEPT !.closed = yes, !.ledger = l].ledger = l
      /\ [c EXCEPT !.closed = yes, !.ledger = l].nextID = c.nextID
      /\ [c EXCEPT !.closed = yes, !.ledger = l].active = c.active
  BY <1>2, <1>3, Zenon DEF Clients
<1> QED BY <1>2, <1>3, <1>4 DEF l

\* The same of the client, and the kill of the broker's process.
LEMMA AbortDoes ==
    ASSUME RelayInv
    PROVE  /\ Aborted(client) \in Clients /\ Aborted(client).closed
           /\ Aborted(client).ledger = Shut(client.ledger)
           /\ Aborted(client).nextID = client.nextID /\ Aborted(client).active = client.active
           /\ Killed \in Brokers /\ Killed.ledger = broker.ledger /\ Killed.served = broker.served
           /\ broker.step # "serving" => Killed = broker
           /\ Shut(client.ledger) \in Ledgers
           /\ Shut(client.ledger).limit = client.ledger.limit
           /\ Shut(client.ledger).lastID = client.ledger.lastID
           /\ Shut(client.ledger).calls = client.ledger.calls
           /\ Shut(client.ledger).outstanding = client.ledger.outstanding
           /\ Shut(client.ledger).remaining = client.ledger.remaining
<1>1. client \in Clients /\ broker \in Brokers
  BY DEF RelayInv, RelayTypes, Clients, Brokers
<1>2. /\ Killed \in Brokers /\ Killed.ledger = broker.ledger /\ Killed.served = broker.served
      /\ broker.step # "serving" => Killed = broker
  BY <1>1 DEF Killed, Brokers
<1> QED BY <1>1, <1>2, AbortedDoes

\* Execute fails for a reason: the relay is on its way out.
LEMMA ExecuteFailsKeeps ==
    ASSUME RelayInv, NEW reserved \in BOOLEAN, ExecuteFails(reserved),
           relay.step \in Calling, ending # {} \/ faulted,
           UNCHANGED <<proxy, routine, worker, workerOut, workerIn, toBroker, closer, ending, faulted>>,
           fromBroker' \in {fromBroker, <<>>}
    PROVE  RelayInv'
<1> DEFINE s == Shut(client.ledger)
           l == IF reserved THEN FinishCall(s) ELSE s
<1>1. /\ client' = [Aborted(client) EXCEPT !.active = "none", !.ledger = IF reserved THEN FinishCall(@) ELSE @]
      /\ broker' = Killed /\ ToStep("failed")
  BY DEF ExecuteFails
<1>2. /\ relay' \in [step : RelayPlaces, id : Nat, request : Arguments,
                      result : {"none", "success", "failure"}]
      /\ relay'.step = "failed" /\ relay'.result = relay.result
  BY <1>1, ToStepDoes DEF RelayPlaces
<1>3. s \in Ledgers /\ s.limit = client.ledger.limit
  BY AbortDoes
<1>4. l \in Ledgers /\ l.limit = client.ledger.limit
  BY <1>3, FinishDoes
<1>5. client' = [Aborted(client) EXCEPT !.active = "none", !.ledger = l]
  BY <1>1, AbortDoes, Zenon DEF Clients
<1> HIDE DEF l
<1>6. client' \in Clients /\ client'.ledger = l
  BY <1>4, <1>5, AbortDoes, Zenon DEF Clients
<1>7. RelayTypes'
  <2>1. fromBroker' \in Seq({"ok", "error"})
    <3>1. fromBroker \in Seq({"ok", "error"})
      BY DEF RelayInv, RelayTypes
    <3>2. <<>> \in Seq({"ok", "error"})
      OBVIOUS
    <3> QED BY <3>1, <3>2, Zenon
  <2>2. broker' \in Brokers /\ broker'.ledger = broker.ledger
    BY <1>1, AbortDoes
  <2> QED BY <1>2, <1>4, <1>6, <2>1, <2>2, ZenonT(30) DEF RelayInv, RelayTypes, Clients, Brokers
<1>8. Asking' /\ Caused'
  BY DEF RelayInv, Asking, Caused
<1>9. Closers'
  BY <1>2 DEF RelayInv, Closers, Cancelling, Calling, Ended
<1>10. Lockstep' /\ Answered'
  BY <1>2 DEF Lockstep, Answered, Ended
<1> QED BY <1>7, <1>8, <1>9, <1>10 DEF RelayInv

\* A relay that fails without Execute.
LEMMA FailKeeps ==
    ASSUME RelayInv, ToStep("failed"), relay.step \notin Ended, ending # {} \/ faulted,
           UNCHANGED <<proxy, routine, worker, workerOut, workerIn, toBroker, fromBroker, client,
                       closer, broker, ending, faulted>>
    PROVE  RelayInv'
<1>1. /\ relay' \in [step : RelayPlaces, id : Nat, request : Arguments,
                      result : {"none", "success", "failure"}]
      /\ relay'.step = "failed" /\ relay'.result = relay.result
  BY ToStepDoes, ZenonT(30) DEF RelayPlaces
<1>2. RelayTypes' /\ Asking' /\ Caused'
  BY <1>1, ZenonT(30) DEF RelayInv, RelayTypes, Asking, Caused
<1>3. Closers'
  BY <1>1 DEF RelayInv, Closers, Cancelling, Calling, Ended
<1>4. Lockstep' /\ Answered'
  BY <1>1 DEF Lockstep, Answered, Ended
<1> QED BY <1>2, <1>3, <1>4 DEF RelayInv

\* relayFilesystem takes a frame.
LEMMA ReadWorkerKeeps ==
    ASSUME RelayInv, ReadWorker
    PROVE  RelayInv'
<1> DEFINE message == Head(workerOut)
<1>1. /\ relay.step = "reading" /\ workerOut # <<>> /\ workerOut' = Tail(workerOut)
      /\ relay' = IF message.kind = "call"
                  THEN [relay EXCEPT !.step = "called", !.id = message.id, !.request = message.request]
                  ELSE [relay EXCEPT !.step = IF ending = {} THEN "waiting" ELSE "failed",
                                     !.result = message.kind]
      /\ UNCHANGED <<proxy, routine, worker, workerIn, toBroker, fromBroker, client, closer,
                     broker, ending, faulted>>
  BY DEF ReadWorker
<1>2. message \in [kind : {"call", "success", "failure"}, id : Nat, request : Arguments]
  BY <1>1, NextFrame, Zenon DEF RelayInv, RelayTypes
<1>3. workerOut' \in Seq([kind : {"call", "success", "failure"}, id : Nat, request : Arguments])
  BY <1>1, NextFrame DEF RelayInv, RelayTypes
<1> HIDE DEF message
<1>4. CASE message.kind = "call"
  <2>1. /\ relay' \in [step : RelayPlaces, id : Nat, request : Arguments,
                        result : {"none", "success", "failure"}]
        /\ relay'.step = "called" /\ relay'.request = message.request /\ relay'.result = relay.result
    BY <1>1, <1>2, <1>4, Zenon DEF RelayInv, RelayTypes, RelayPlaces, Calling
  <2>2. RelayTypes' /\ Asking'
    BY <1>1, <1>3, <2>1, ZenonT(30) DEF RelayInv, RelayTypes, Asking
  <2>3. Closers' /\ Caused' /\ Answered'
    BY <1>1, <2>1 DEF RelayInv, Closers, Caused, Answered, Cancelling, Calling, Ended
  <2>4. Lockstep'
    <3>1. SUFFICES ASSUME ending = {} PROVE Called'
      BY <1>1, <2>1 DEF Lockstep
    <3>2. /\ worker = "running" /\ proxy.active # "none" /\ workerIn = <<>> /\ client.active = "none"
          /\ \E r \in Requests : /\ workerOut = <<[kind |-> "call", id |-> proxy.nextID, request |-> r]>>
                                 /\ r.granted /\ Ready(proxy.nextID - 1, Left + r.limit)
      <4>1. workerOut # <<Verdict>>
        BY <1>4, OneFrame DEF Verdict, message
      <4> QED BY <1>1, <3>1, <4>1 DEF RelayInv, Lockstep, Reading, Silent
    <3>3. PICK r \in Requests : /\ workerOut = <<[kind |-> "call", id |-> proxy.nextID, request |-> r]>>
                               /\ r.granted /\ Ready(proxy.nextID - 1, Left + r.limit)
      BY <3>2
    <3>4. message.request = r /\ workerOut' = <<>>
      BY <1>1, <3>3, OneFrame DEF message
    <3> QED BY <1>1, <2>1, <3>2, <3>3, <3>4 DEF Called, InCall, Silent, Ready, Holds, Left
  <2> QED BY <2>2, <2>3, <2>4 DEF RelayInv
<1>5. CASE message.kind # "call"
  <2>1. /\ relay' \in [step : RelayPlaces, id : Nat, request : Arguments,
                        result : {"none", "success", "failure"}]
        /\ relay'.step = IF ending = {} THEN "waiting" ELSE "failed"
        /\ relay'.result = message.kind /\ relay'.result # "none"
    BY <1>1, <1>2, <1>5, Zenon DEF RelayInv, RelayTypes, RelayPlaces
  <2>2. RelayTypes' /\ Asking'
    BY <1>1, <1>3, <2>1, ZenonT(30) DEF RelayInv, RelayTypes, Asking
  <2>3. Closers' /\ Caused' /\ Lockstep'
    BY <1>1, <2>1 DEF RelayInv, Closers, Caused, Lockstep, Cancelling, Calling, Ended
  <2>4. Answered'
    <3>1. SUFFICES ASSUME ending = {} PROVE Settled'
      BY <1>1, <2>1 DEF Answered, Ended
    <3>2. /\ worker = "exited" /\ proxy.active = "none" /\ workerIn = <<>> /\ client.active = "none"
          /\ workerOut = <<Verdict>> /\ Ready(proxy.nextID - 1, Left)
      <4>1. \A r \in Requests :
               workerOut # <<[kind |-> "call", id |-> proxy.nextID, request |-> r]>>
        BY <1>5, OneFrame DEF message
      <4> QED BY <1>1, <3>1, <4>1 DEF RelayInv, Lockstep, Reading, Silent
    <3>3. workerOut' = <<>> /\ (message.kind = "success" => ~proxy.failed)
      BY <1>1, <3>2, OneFrame DEF message, Verdict
    <3>4. closer["relay"] = "armed" /\ proxy.nextID \in Nat
      BY <1>1 DEF RelayInv, RelayTypes, Closers, Ended
    <3>5. broker.step = IF client.closed THEN "exited" ELSE "serving"
      BY <3>2 DEF Ready
    <3> QED BY <1>1, <2>1, <3>2, <3>3, <3>4, <3>5 DEF Settled, Silent, Ready, Holds
  <2> QED BY <2>2, <2>3, <2>4 DEF RelayInv
<1> QED BY <1>4, <1>5

\* A read fails when the worker was killed or the deadline has passed.
LEMMA ReadWorkerFailsKeeps ==
    ASSUME RelayInv, ReadWorkerFails
    PROVE  RelayInv'
<1>1. relay.step = "reading" /\ (worker = "killed" \/ "expired" \in ending)
  BY DEF ReadWorkerFails
<1>2. relay.step \notin Ended /\ ending # {}
  BY <1>1 DEF RelayInv, Closers, Cancelling, Ended
<1> QED BY <1>2, FailKeeps DEF ReadWorkerFails

\* While a call is under way that the host has not counted, the client is open.
LEMMA CalledIsOpen ==
    ASSUME RelayInv, Called
    PROVE  /\ ~client.closed /\ ~client.ledger.closed
           /\ broker.step = "serving" /\ ~broker.ledger.closed
           /\ proxy.nextID \in Nat /\ proxy.nextID > 0 /\ proxy.nextID <= client.ledger.limit
           /\ Left \in Nat /\ relay.request.limit \in Nat
<1>1. /\ proxy.nextID \in Nat /\ proxy.nextID > 0 /\ proxy.nextID <= proxy.ledger.limit
      /\ proxy.ledger.limit \in Nat /\ client.ledger.limit = proxy.ledger.limit
  BY LimitTypes, Zenon DEF RelayInv, RelayTypes, Asking, Called, InCall, Ledgers
<1>2. Left \in Nat /\ relay.request.limit \in Nat
  BY Zenon DEF RelayInv, RelayTypes, Left, Ledgers, Arguments
<1> QED BY <1>1, <1>2 DEF Called, Ready

\* Execute finds the client open, or closed because a context has ended.
LEMMA ExecuteChecksKeeps ==
    ASSUME RelayInv, ExecuteChecks
    PROVE  RelayInv'
<1>1. /\ relay.step = "called" /\ ToStep(IF client.closed THEN "failed" ELSE "checked")
      /\ UNCHANGED <<proxy, routine, worker, workerOut, workerIn, toBroker, fromBroker, client,
                     closer, broker, ending, faulted>>
  BY DEF ExecuteChecks
<1>2. ending = {} => Called
  BY <1>1 DEF RelayInv, Lockstep
<1>3. CASE client.closed
  <2>1. ending # {} /\ relay.step \notin Ended
    BY <1>1, <1>2, <1>3, CalledIsOpen DEF Ended
  <2> QED BY <1>1, <1>3, <2>1, FailKeeps
<1>4. CASE ~client.closed
  <2>1. /\ relay' \in [step : RelayPlaces, id : Nat, request : Arguments,
                        result : {"none", "success", "failure"}]
        /\ relay'.step = "checked" /\ relay'.request = relay.request /\ relay'.result = relay.result
    BY <1>1, <1>4, ToStepDoes, ZenonT(30) DEF RelayPlaces, Calling
  <2>2. RelayTypes' /\ Asking' /\ Caused' /\ Answered'
    BY <1>1, <2>1, SMTT(20) DEF RelayInv, RelayTypes, Asking, Caused, Answered, Ended
  <2>3. Closers'
    BY <1>1, <2>1, ZenonT(30) DEF RelayInv, Closers, Cancelling, Calling, Ended
  <2>4. Lockstep'
    BY <1>1, <1>2, <2>1 DEF Lockstep, Called, InCall, Silent, Ready, Holds, Left
  <2> QED BY <2>2, <2>3, <2>4 DEF RelayInv
<1> QED BY <1>3, <1>4

\* Execute becomes the one caller of the client, or fails as busy.
LEMMA ExecuteEntersKeeps ==
    ASSUME RelayInv, ExecuteEnters
    PROVE  RelayInv'
<1>1. /\ relay.step = "checked"
      /\ UNCHANGED <<proxy, routine, worker, workerOut, workerIn, toBroker, fromBroker, closer,
                     broker, ending, faulted>>
  BY DEF ExecuteEnters
<1>2. ending = {} => Called
  BY <1>1 DEF RelayInv, Lockstep
<1>3. CASE client.active # "none"
  <2>1. ToStep("failed") /\ UNCHANGED client
    BY <1>3 DEF ExecuteEnters
  <2>2. ending # {} /\ relay.step \notin Ended
    BY <1>1, <1>2, <1>3 DEF Called, Ended
  <2> QED BY <1>1, <2>1, <2>2, FailKeeps
<1>4. CASE client.active = "none"
  <2>1. client' = [client EXCEPT !.active = "relay"] /\ ToStep("entered")
    BY <1>4 DEF ExecuteEnters
  <2>2. /\ relay' \in [step : RelayPlaces, id : Nat, request : Arguments,
                        result : {"none", "success", "failure"}]
        /\ relay'.step = "entered" /\ relay'.request = relay.request /\ relay'.result = relay.result
    BY <2>1, ToStepDoes DEF RelayPlaces, Calling
  <2>3. /\ client' \in Clients /\ client'.active = "relay" /\ client'.ledger = client.ledger
        /\ client'.nextID = client.nextID /\ client'.closed = client.closed
    BY <2>1, Zenon DEF RelayInv, RelayTypes, Clients
  <2>4. RelayTypes' /\ Asking' /\ Caused' /\ Answered'
    BY <1>1, <2>2, <2>3 DEF RelayInv, RelayTypes, Asking, Caused, Answered, Ended, Clients
  <2>5. Closers'
    BY <1>1, <2>2, ZenonT(30) DEF RelayInv, Closers, Cancelling, Calling, Ended
  <2>6. Lockstep'
    BY <1>1, <1>2, <2>2, <2>3 DEF Lockstep, Called, InCall, Silent, Ready, Holds, Left
  <2> QED BY <2>4, <2>5, <2>6 DEF RelayInv
<1> QED BY <1>3, <1>4

\* The host's ledger admits what the proxy's did.
LEMMA ExecuteAdmitsKeeps ==
    ASSUME RelayInv, ExecuteAdmits
    PROVE  RelayInv'
<1> DEFINE a == Admitted(client.ledger, client.nextID, relay.request)
           goes == ending = {} /\ ~client.closed /\ a.granted
<1>1. /\ relay.step = "entered"
      /\ UNCHANGED <<proxy, routine, worker, workerOut, workerIn, toBroker, fromBroker, closer,
                     ending, faulted>>
  BY DEF ExecuteAdmits
<1>2. client.ledger \in Ledgers /\ client.nextID \in Nat /\ relay.request \in Arguments
  BY ZenonT(30) DEF RelayInv, RelayTypes
<1>3. /\ a.ledger \in Ledgers /\ a.ledger.limit = client.ledger.limit
      /\ a.granted <=> /\ ~client.ledger.closed /\ client.nextID > client.ledger.lastID
                       /\ client.ledger.calls # client.ledger.limit /\ relay.request.granted
                       /\ client.ledger.outstanding # Outstanding
                       /\ relay.request.limit <= client.ledger.remaining
      /\ a.granted => /\ ~a.ledger.closed /\ a.ledger.lastID = client.nextID
                      /\ a.ledger.calls = client.ledger.calls + 1
                      /\ a.ledger.outstanding = client.ledger.outstanding + 1
                      /\ a.ledger.remaining = client.ledger.remaining - relay.request.limit
  BY <1>2, AdmittedDoes
<1>4. CASE goes
  <2>1. client' = [client EXCEPT !.ledger = a.ledger] /\ ToStep("admitted") /\ UNCHANGED broker
    BY <1>4 DEF ExecuteAdmits
  <2> HIDE DEF a
  <2>2. /\ relay' \in [step : RelayPlaces, id : Nat, request : Arguments,
                        result : {"none", "success", "failure"}]
        /\ relay'.step = "admitted" /\ relay'.request = relay.request /\ relay'.result = relay.result
    BY <2>1, ToStepDoes DEF RelayPlaces, Calling
  <2>3. /\ client' \in Clients /\ client'.active = client.active /\ client'.ledger = a.ledger
        /\ client'.nextID = client.nextID /\ client'.closed = client.closed
    BY <1>3, <2>1, Zenon DEF RelayInv, RelayTypes, Clients
  <2>4. RelayTypes' /\ Asking' /\ Caused' /\ Answered'
    BY <1>1, <1>3, <2>1, <2>2, <2>3, ZenonT(30) DEF RelayInv, RelayTypes, Asking, Caused, Answered, Ended, Clients
  <2>5. Closers'
    BY <1>1, <2>2 DEF RelayInv, Closers, Cancelling, Calling, Ended
  <2>6. Lockstep'
    <3>1. Called
      BY <1>1, <1>4 DEF RelayInv, Lockstep
    <3>2. /\ Ready(proxy.nextID - 1, Left + relay.request.limit) /\ broker.step = "serving"
          /\ ~broker.ledger.closed /\ proxy.nextID \in Nat /\ proxy.nextID > 0
          /\ Left \in Nat /\ relay.request.limit \in Nat
      BY <3>1, CalledIsOpen, ZenonT(30) DEF Called
    <3>3. /\ client.nextID = proxy.nextID /\ a.ledger.calls = proxy.nextID
          /\ a.ledger.outstanding = 1 /\ a.ledger.remaining = Left /\ a.ledger.lastID = proxy.nextID
          /\ ~a.ledger.closed
      BY <1>3, <1>4, <3>2, SMTT(20) DEF Ready, Holds
    <3>4. Reserved'
      BY <1>1, <1>4, <2>2, <2>3, <3>1, <3>3 DEF Reserved, Called, InCall, Silent, Holds, Left
    <3>5. Unserved' /\ toBroker' = <<>>
      BY <1>1, <2>1, <2>2, <3>2 DEF Unserved, Ready, Holds, Left
    <3> QED BY <2>2, <3>4, <3>5 DEF Lockstep
  <2> QED BY <2>4, <2>5, <2>6 DEF RelayInv
<1>5. CASE ~goes
  <2>1. ExecuteFails(FALSE)
    BY <1>5, Zenon DEF ExecuteAdmits
  <2>2. ending # {}
    <3>1. SUFFICES ASSUME ending = {} PROVE goes
      BY <1>5
    <3>2. Called
      BY <1>1, <3>1 DEF RelayInv, Lockstep
    <3>3. /\ ~client.closed /\ ~client.ledger.closed
          /\ proxy.nextID \in Nat /\ proxy.nextID > 0 /\ proxy.nextID <= client.ledger.limit
          /\ Left \in Nat /\ relay.request.limit \in Nat /\ client.ledger.limit \in Nat
      BY <1>2, <3>2, CalledIsOpen, LimitTypes, Zenon DEF Ledgers
    <3>4. /\ client.nextID = proxy.nextID /\ client.ledger.calls = proxy.nextID - 1
          /\ client.ledger.outstanding = 0 /\ client.ledger.remaining = Left + relay.request.limit
          /\ client.ledger.lastID = proxy.nextID - 1 /\ relay.request.granted
      BY <3>2, <3>3 DEF Called, Ready, Holds
    <3> HIDE DEF a
    <3> QED BY <1>3, <3>1, <3>3, <3>4, RelayBounds
  <2> QED BY <1>1, <2>1, <2>2, ExecuteFailsKeeps, Zenon DEF Calling
<1> QED BY <1>4, <1>5

\* Execute writes the call to the broker, or fails and releases it.
LEMMA ExecuteSendsKeeps ==
    ASSUME RelayInv, ExecuteSends
    PROVE  RelayInv'
<1> DEFINE frame == [kind |-> "run", id |-> client.nextID, request |-> relay.request]
<1>1. /\ relay.step = "admitted"
      /\ UNCHANGED <<proxy, routine, worker, workerOut, workerIn, fromBroker, closer, ending, faulted>>
  BY DEF ExecuteSends
<1>2. ending = {} => Reserved /\ Unserved /\ toBroker = <<>>
  BY <1>1 DEF RelayInv, Lockstep
<1>3. CASE broker.step # "serving"
  <2>1. ExecuteFails(TRUE) /\ UNCHANGED toBroker
    BY <1>3, Zenon DEF ExecuteSends
  <2>2. ending # {}
    BY <1>2, <1>3 DEF Unserved
  <2> QED BY <1>1, <2>1, <2>2, ExecuteFailsKeeps, Zenon DEF Calling
<1>4. CASE broker.step = "serving"
  <2>1. toBroker' = Append(toBroker, frame) /\ ToStep("exchanging") /\ UNCHANGED <<client, broker>>
    BY <1>4 DEF ExecuteSends
  <2>2. /\ relay' \in [step : RelayPlaces, id : Nat, request : Arguments,
                        result : {"none", "success", "failure"}]
        /\ relay'.step = "exchanging" /\ relay'.request = relay.request /\ relay'.result = relay.result
    BY <2>1, ToStepDoes DEF RelayPlaces, Calling
  <2>3. toBroker' \in Seq([kind : {"run", "close"}, id : Nat, request : Arguments])
    <3>1. frame \in [kind : {"run", "close"}, id : Nat, request : Arguments]
      BY ZenonT(30) DEF RelayInv, RelayTypes
    <3> HIDE DEF frame
    <3> QED BY <2>1, <3>1 DEF RelayInv, RelayTypes
  <2>4. RelayTypes' /\ Asking' /\ Caused' /\ Answered'
    BY <1>1, <2>1, <2>2, <2>3 DEF RelayInv, RelayTypes, Asking, Caused, Answered, Ended
  <2>5. Closers'
    BY <1>1, <2>2 DEF RelayInv, Closers, Cancelling, Calling, Ended
  <2>6. Lockstep'
    <3>1. SUFFICES ASSUME ending = {} PROVE Reserved' /\ Unserved' /\ toBroker' = <<frame>>'
                                           /\ client'.nextID = proxy'.nextID
      BY <1>1, <2>2, ZenonT(30) DEF Lockstep, Exchanging
    <3>2. Reserved' /\ client'.nextID = proxy'.nextID
      BY <1>1, <1>2, <2>1, <2>2, <3>1, ZenonT(30) DEF Reserved, Holds, InCall, Silent, Left
    <3>3. Unserved'
      BY <1>1, <1>2, <2>1, <2>2, <3>1 DEF Unserved, Holds, Left
    <3>4. toBroker' = <<frame>>
      BY <1>2, <2>1, <3>1, OneFrame
    <3> QED BY <2>1, <2>2, <3>2, <3>3, <3>4, ZenonT(30)
  <2> QED BY <2>4, <2>5, <2>6 DEF RelayInv
<1> QED BY <1>3, <1>4

\* The reservation is released, and the next call gets a new number.
LEMMA SettleDoes ==
    ASSUME RelayInv, NEW settled,
           settled = [client EXCEPT !.ledger = FinishCall(@), !.nextID = @ + 1]
    PROVE  /\ settled \in Clients /\ settled.ledger \in Ledgers
           /\ settled.nextID = client.nextID + 1 /\ settled.active = client.active
           /\ settled.closed = client.closed
           /\ settled.ledger.outstanding = client.ledger.outstanding - 1
           /\ settled.ledger.closed = client.ledger.closed
           /\ settled.ledger.limit = client.ledger.limit
           /\ settled.ledger.lastID = client.ledger.lastID
           /\ settled.ledger.calls = client.ledger.calls
           /\ settled.ledger.remaining = client.ledger.remaining
<1> DEFINE l == FinishCall(client.ledger)
<1>1. client \in Clients /\ client.ledger \in Ledgers
  BY DEF RelayInv, RelayTypes, Clients
<1>2. /\ l \in Ledgers /\ l.outstanding = client.ledger.outstanding - 1
      /\ l.closed = client.ledger.closed /\ l.limit = client.ledger.limit
      /\ l.lastID = client.ledger.lastID /\ l.calls = client.ledger.calls
      /\ l.remaining = client.ledger.remaining
  BY <1>1, FinishDoes
<1>3. settled = [client EXCEPT !.ledger = l, !.nextID = @ + 1]
  OBVIOUS
<1> HIDE DEF l
<1>4. /\ settled.ledger = l /\ settled.nextID = client.nextID + 1
      /\ settled.active = client.active /\ settled.closed = client.closed
  BY <1>1, <1>3, Zenon DEF Clients
<1>5. settled = [ledger |-> l, nextID |-> client.nextID + 1, active |-> client.active,
                 closed |-> client.closed]
  BY <1>1, <1>3, Zenon DEF Clients
<1>6. settled \in Clients
  BY <1>1, <1>2, <1>5 DEF Clients
<1> QED BY <1>2, <1>4, <1>6

\* Execute takes the answer of the broker, and closes it after the last call.
LEMMA ExecuteReceivesKeeps ==
    ASSUME RelayInv, ExecuteReceives
    PROVE  RelayInv'
<1> DEFINE settled == [client EXCEPT !.ledger = FinishCall(@), !.nextID = @ + 1]
           last == client.ledger.calls = client.ledger.limit
           bad == fromBroker = <<>> \/ Head(fromBroker) = "error"
<1>1. /\ relay.step = "exchanging" /\ fromBroker' = <<>>
      /\ UNCHANGED <<proxy, routine, worker, workerOut, workerIn, closer, ending, faulted>>
  BY DEF ExecuteReceives
<1>2. ending = {} => /\ Reserved /\ Exchanging
                     /\ proxy.nextID \in Nat /\ proxy.nextID <= proxy.ledger.limit
                     /\ proxy.ledger.limit <= DefaultCalls
                     /\ proxy.ledger.limit \in Nat /\ DefaultCalls \in Nat
  <2>1. proxy.ledger.limit \in CallLimits
    BY DEF RelayInv, RelayTypes, Ledgers
  <2>2. /\ proxy.ledger.limit <= DefaultCalls /\ proxy.ledger.limit \in Nat
        /\ DefaultCalls \in Nat
    <3>1. /\ DefaultCalls \in Nat /\ Outstanding \in Nat
          /\ proxy.ledger.limit \in Outstanding..DefaultCalls
      BY <2>1, RelayBounds, Zenon
    <3> QED BY <3>1
  <2>5. proxy.nextID \in Nat
    BY DEF RelayInv, RelayTypes
  <2>3. ending = {} => Reserved /\ Exchanging
    BY <1>1, ZenonT(30) DEF RelayInv, Lockstep
  <2>4. Reserved => proxy.nextID <= proxy.ledger.limit
    BY ZenonT(30) DEF RelayInv, Asking, Reserved, InCall
  <2> QED BY <2>2, <2>3, <2>4, <2>5
<1>3. ASSUME ending = {}, ~bad
      PROVE  /\ Served /\ toBroker = <<>>
             /\ broker.step = IF proxy.nextID < DefaultCalls THEN "serving" ELSE "exited"
  BY <1>2, <1>3, OneFrame DEF Exchanging, Unserved
<1>4. CASE bad
  <2>1. /\ fromBroker # <<>> \/ broker.step # "serving"
        /\ ExecuteFails(TRUE) /\ UNCHANGED toBroker
    BY <1>4, Zenon DEF ExecuteReceives
  <2>2. ending # {} \/ faulted
    BY <1>2, <1>4, <2>1, OneFrame DEF Exchanging, Unserved
  <2> QED BY <1>1, <2>1, <2>2, ExecuteFailsKeeps, Zenon DEF Calling
<1>5. CASE ~bad /\ ~last /\ client.closed
  <2>1. ExecuteFails(TRUE) /\ UNCHANGED toBroker
    BY <1>5, Zenon DEF ExecuteReceives
  <2>2. ending # {}
    BY <1>2, <1>5 DEF Reserved
  <2> QED BY <1>1, <2>1, <2>2, ExecuteFailsKeeps, Zenon DEF Calling
<1>6. /\ settled \in Clients /\ settled.ledger \in Ledgers
      /\ settled.nextID = client.nextID + 1 /\ settled.active = client.active
      /\ settled.closed = client.closed
      /\ settled.ledger.outstanding = client.ledger.outstanding - 1
      /\ settled.ledger.closed = client.ledger.closed
      /\ settled.ledger.limit = client.ledger.limit
      /\ settled.ledger.lastID = client.ledger.lastID
      /\ settled.ledger.calls = client.ledger.calls
      /\ settled.ledger.remaining = client.ledger.remaining
  BY SettleDoes, Zenon
<1>7. ending = {} => /\ Holds(settled.ledger, proxy.nextID, 0, Left)
                     /\ settled.nextID = proxy.nextID + 1 /\ settled.active = "relay"
  BY <1>2, <1>6 DEF Reserved, Holds
<1>8. <<>> \in Seq({"ok", "error"})
  OBVIOUS
<1>9. CASE ~bad /\ ~last /\ ~client.closed
  <2>1. client' = settled /\ ToStep("replying") /\ UNCHANGED <<toBroker, broker>>
    BY <1>9 DEF ExecuteReceives
  <2> HIDE DEF settled
  <2>2. /\ relay' \in [step : RelayPlaces, id : Nat, request : Arguments,
                        result : {"none", "success", "failure"}]
        /\ relay'.step = "replying" /\ relay'.request = relay.request /\ relay'.result = relay.result
    BY <2>1, ToStepDoes, ZenonT(30) DEF RelayPlaces, Calling
  <2>3. RelayTypes' /\ Asking' /\ Caused' /\ Answered'
    BY <1>1, <1>6, <1>8, <2>1, <2>2, ZenonT(30) DEF RelayInv, RelayTypes, Asking, Caused, Answered, Ended, Clients
  <2>4. Closers'
    BY <1>1, <2>2 DEF RelayInv, Closers, Cancelling, Calling, Ended
  <2>5. Lockstep'
    <3>1. SUFFICES ASSUME ending = {}
                   PROVE  InCall' /\ client'.active = "relay" /\ Ready(proxy.nextID, Left)'
      BY <1>1, <2>2 DEF Lockstep
    <3>2. InCall' /\ client'.active = "relay"
      BY <1>1, <1>2, <1>7, <2>1, <3>1 DEF Reserved, InCall, Silent
    <3>3. proxy.nextID < proxy.ledger.limit /\ broker.step = "serving"
      BY <1>2, <1>3, <1>9, <3>1, SMTT(20) DEF Reserved, Holds, RelayInv, RelayTypes
    <3>4. Ready(proxy.nextID, Left)'
      BY <1>1, <1>2, <1>3, <1>6, <1>7, <1>9, <2>1, <3>1, <3>3 DEF Ready, Served, Holds, Left, Reserved
    <3> QED BY <3>2, <3>4
  <2> QED BY <2>3, <2>4, <2>5 DEF RelayInv
<1>10. CASE ~bad /\ last
  <2>1. client' = Aborted(settled)
    BY <1>10, ZenonT(30) DEF ExecuteReceives
  <2> HIDE DEF settled
  <2>2. /\ client' \in Clients /\ client'.closed /\ client'.nextID = settled.nextID
        /\ client'.active = settled.active
        /\ client'.ledger.limit = settled.ledger.limit /\ client'.ledger.calls = settled.ledger.calls
        /\ client'.ledger.lastID = settled.ledger.lastID
        /\ client'.ledger.outstanding = settled.ledger.outstanding
        /\ client'.ledger.remaining = settled.ledger.remaining
    BY <1>6, <2>1, AbortedDoes
  <2>3. CASE Graceful /\ broker.step # "serving"
    <3>1. ToStep("refused") /\ broker' = Killed /\ UNCHANGED toBroker
      BY <1>10, <2>3 DEF ExecuteReceives
    <3>2. /\ relay' \in [step : RelayPlaces, id : Nat, request : Arguments,
                          result : {"none", "success", "failure"}]
          /\ relay'.step = "refused" /\ relay'.result = relay.result
      BY <3>1, ToStepDoes DEF RelayPlaces, Calling
    <3>3. broker' = broker
      BY <2>3, <3>1, AbortDoes
    <3>4. ending # {}
      <4>1. SUFFICES ASSUME ending = {} PROVE FALSE
        OBVIOUS
      <4>2. proxy.nextID = proxy.ledger.limit /\ proxy.ledger.limit < DefaultCalls
        BY <1>2, <1>10, <2>3, <4>1, ZenonT(30) DEF Reserved, Holds, RelayInv, RelayTypes, Graceful
      <4> QED BY <1>2, <1>3, <1>10, <2>3, <4>1, <4>2
    <3>5. RelayTypes' /\ Asking' /\ Caused' /\ Answered'
      BY <1>1, <1>6, <1>8, <2>2, <3>1, <3>2, <3>3, ZenonT(30)
         DEF RelayInv, RelayTypes, Asking, Caused, Answered, Ended, Clients
    <3>6. Closers' /\ Lockstep'
      BY <1>1, <3>2, <3>4 DEF RelayInv, Closers, Cancelling, Calling, Ended, Lockstep
    <3> QED BY <3>5, <3>6 DEF RelayInv
  <2>4. CASE ~(Graceful /\ broker.step # "serving")
    <3>1. /\ ToStep("stopping") /\ UNCHANGED broker
          /\ toBroker' = IF Graceful THEN Append(toBroker, CloseFrame) ELSE toBroker
      BY <1>10, <2>4 DEF ExecuteReceives, SendsClose, CloseFrame
    <3>2. /\ relay' \in [step : RelayPlaces, id : Nat, request : Arguments,
                          result : {"none", "success", "failure"}]
          /\ relay'.step = "stopping" /\ relay'.result = relay.result
      BY <3>1, ToStepDoes DEF RelayPlaces, Calling
    <3>3. toBroker' \in Seq([kind : {"run", "close"}, id : Nat, request : Arguments])
      <4>1. CloseFrame \in [kind : {"run", "close"}, id : Nat, request : Arguments]
        BY DEF CloseFrame, NoRequest, Arguments
      <4>2. toBroker \in Seq([kind : {"run", "close"}, id : Nat, request : Arguments])
        BY DEF RelayInv, RelayTypes
      <4>3. Append(toBroker, CloseFrame) \in Seq([kind : {"run", "close"}, id : Nat, request : Arguments])
        BY <4>1, <4>2, SMTT(20)
      <4> QED BY <3>1, <4>2, <4>3, Zenon
    <3>4. RelayTypes' /\ Asking' /\ Caused' /\ Answered'
      BY <1>1, <1>6, <1>8, <2>2, <3>1, <3>2, <3>3, ZenonT(30)
         DEF RelayInv, RelayTypes, Asking, Caused, Answered, Ended, Clients
    <3>5. Closers'
      BY <1>1, <3>2, ZenonT(30) DEF RelayInv, Closers, Cancelling, Calling, Ended
    <3>6. Lockstep'
      <4>1. SUFFICES ASSUME ending = {} PROVE Stopping'
        BY <1>1, <3>2 DEF Lockstep
      <4>2. proxy.nextID = proxy.ledger.limit /\ client.ledger.limit = proxy.ledger.limit
        BY <1>2, <1>10, <4>1, ZenonT(30) DEF Reserved, Holds, RelayInv, RelayTypes
      <4>3. AskedToClose'
        <5>1. CASE Graceful
          BY <1>2, <1>3, <1>10, <2>4, <3>1, <4>1, <5>1, OneFrame DEF AskedToClose, CloseFrame
        <5>2. CASE ~Graceful
          BY <1>2, <1>3, <1>10, <3>1, <4>1, <4>2, <5>2, ZenonT(30) DEF AskedToClose, Graceful
        <5> QED BY <5>1, <5>2, SMTT(20)
      <4>4. Served'
        BY <1>1, <1>3, <1>10, <3>1, <4>1, ZenonT(30) DEF Served, Holds, Left
      <4>5. Holds(client.ledger, proxy.nextID, 0, Left)' /\ client'.nextID = proxy'.nextID + 1
        BY <1>1, <1>7, <2>2, <4>1 DEF Holds, Left
      <4> QED BY <1>1, <1>2, <1>7, <2>2, <4>1, <4>2, <4>3, <4>4, <4>5
              DEF Stopping, Reserved, InCall, Silent
    <3> QED BY <3>4, <3>5, <3>6 DEF RelayInv
  <2> QED BY <2>3, <2>4
<1> QED BY <1>4, <1>5, <1>9, <1>10

\* Execute has waited for the broker after the last call of the quota.
LEMMA ExecuteStopsKeeps ==
    ASSUME RelayInv, ExecuteStops
    PROVE  RelayInv'
<1>1. /\ relay.step \in {"refused", "stopping"}
      /\ relay.step = "stopping" => broker.step # "serving"
      /\ UNCHANGED <<proxy, routine, worker, workerOut, workerIn, toBroker, fromBroker, closer,
                     ending, faulted>>
  BY ZenonT(30) DEF ExecuteStops
<1>2. ending = {} => relay.step = "stopping" /\ Stopping /\ broker.step = "exited" /\ toBroker = <<>>
  BY <1>1 DEF RelayInv, Lockstep, Stopping, AskedToClose
<1>3. CASE relay.step = "stopping" /\ broker.step = "exited"
  <2>1. ToStep("replying") /\ UNCHANGED <<client, broker>>
    BY <1>3 DEF ExecuteStops
  <2>2. /\ relay' \in [step : RelayPlaces, id : Nat, request : Arguments,
                        result : {"none", "success", "failure"}]
        /\ relay'.step = "replying" /\ relay'.result = relay.result
    BY <2>1, ToStepDoes, ZenonT(30) DEF RelayPlaces, Calling
  <2>3. RelayTypes' /\ Asking' /\ Caused' /\ Answered'
    BY <1>1, <2>1, <2>2 DEF RelayInv, RelayTypes, Asking, Caused, Answered, Ended
  <2>4. Closers'
    BY <1>1, <1>3, <2>2, ZenonT(30) DEF RelayInv, Closers, Cancelling, Calling, Ended
  <2>5. Lockstep'
    <3>1. SUFFICES ASSUME ending = {}
                   PROVE  InCall' /\ client'.active = "relay" /\ Ready(proxy.nextID, Left)'
      BY <1>1, <2>2 DEF Lockstep
    <3> QED BY <1>1, <1>2, <2>1, <3>1 DEF Stopping, Served, InCall, Silent, Ready, Holds, Left
  <2> QED BY <2>3, <2>4, <2>5 DEF RelayInv
<1>4. CASE ~(relay.step = "stopping" /\ broker.step = "exited")
  <2>1. ExecuteFails(FALSE) /\ ending # {}
    BY <1>2, <1>4, Zenon DEF ExecuteStops
  <2> QED BY <1>1, <2>1, ExecuteFailsKeeps, Zenon DEF Calling
<1> QED BY <1>3, <1>4

\* The answer goes back to the worker, or the exchange fails.
LEMMA ExecuteReturnsKeeps ==
    ASSUME RelayInv, ExecuteReturns
    PROVE  RelayInv'
<1>1. /\ relay.step = "replying"
      /\ UNCHANGED <<proxy, routine, worker, workerOut, toBroker, fromBroker, closer, ending, faulted>>
  BY DEF ExecuteReturns
<1>2. CASE ending = {}
  <2>1. /\ client' = [client EXCEPT !.active = "none"] /\ workerIn' = Append(workerIn, "reply")
        /\ ToStep("reading") /\ UNCHANGED broker
    BY <1>2 DEF ExecuteReturns
  <2>2. /\ relay' \in [step : RelayPlaces, id : Nat, request : Arguments,
                        result : {"none", "success", "failure"}]
        /\ relay'.step = "reading" /\ relay'.result = relay.result
    BY <2>1, ToStepDoes DEF RelayPlaces
  <2>3. /\ client' \in Clients /\ client'.active = "none" /\ client'.ledger = client.ledger
        /\ client'.nextID = client.nextID /\ client'.closed = client.closed
    BY <2>1, Zenon DEF RelayInv, RelayTypes, Clients
  <2>4. workerIn' \in Seq({"reply"})
    BY <2>1 DEF RelayInv, RelayTypes
  <2>5. RelayTypes' /\ Asking' /\ Caused' /\ Answered'
    BY <1>1, <2>1, <2>2, <2>3, <2>4, ZenonT(30) DEF RelayInv, RelayTypes, Asking, Caused, Answered, Ended, Clients
  <2>6. Closers'
    BY <1>1, <2>2, ZenonT(30) DEF RelayInv, Closers, Cancelling, Calling, Ended
  <2>7. Lockstep'
    <3>1. InCall /\ Ready(proxy.nextID, Left)
      BY <1>1, <1>2 DEF RelayInv, Lockstep
    <3>2. workerIn' = <<"reply">>
      BY <2>1, <3>1, OneFrame DEF InCall, Silent
    <3>3. Ready(proxy.nextID, Left)'
      BY <1>1, <2>1, <2>3, <3>1 DEF Ready, Holds, Left
    <3> QED BY <1>1, <2>2, <2>3, <3>1, <3>2, <3>3 DEF Lockstep, Reading, InCall, Silent
  <2> QED BY <2>5, <2>6, <2>7 DEF RelayInv
<1>3. CASE ending # {}
  <2>1. ExecuteFails(FALSE) /\ UNCHANGED workerIn
    BY <1>3, Zenon DEF ExecuteReturns
  <2> QED BY <1>1, <1>3, <2>1, ExecuteFailsKeeps, Zenon DEF Calling
<1> QED BY <1>2, <1>3

\* The callback of a context that has ended: nothing is claimed any more.
LEMMA ExecuteCancelledKeeps ==
    ASSUME RelayInv, ExecuteCancelled
    PROVE  RelayInv'
<1>1. /\ relay.step \in Calling /\ ending # {}
      /\ client' = Aborted(client) /\ broker' = Killed
      /\ UNCHANGED <<proxy, routine, worker, workerOut, workerIn, toBroker, fromBroker, relay, closer,
                     ending, faulted>>
  BY ZenonT(30) DEF ExecuteCancelled, Calling
<1>2. RelayTypes'
  BY <1>1, AbortDoes, SMTT(20) DEF RelayInv, RelayTypes, Clients, Brokers
<1>3. Asking' /\ Closers' /\ Caused' /\ Lockstep'
  BY <1>1 DEF RelayInv, Asking, Closers, Caused, Lockstep, Cancelling
<1>4. Answered'
  BY <1>1 DEF Answered, Calling, Ended
<1> QED BY <1>2, <1>3, <1>4 DEF RelayInv

\* The relay waits for a worker that exited, or was killed by a cancellation.
LEMMA WaitWorkerKeeps ==
    ASSUME RelayInv, WaitWorker
    PROVE  RelayInv'
<1>1. /\ relay.step = "waiting" /\ worker # "running"
      /\ ToStep(IF worker = "exited" THEN "ended" ELSE "failed")
      /\ UNCHANGED <<proxy, routine, worker, workerOut, workerIn, toBroker, fromBroker, client,
                     closer, broker, ending, faulted>>
  BY DEF WaitWorker
<1>2. CASE worker = "exited"
  <2>1. /\ relay' \in [step : RelayPlaces, id : Nat, request : Arguments,
                        result : {"none", "success", "failure"}]
        /\ relay'.step = "ended" /\ relay'.result = relay.result
    BY <1>1, <1>2, ToStepDoes, ZenonT(30) DEF RelayPlaces
  <2>2. RelayTypes' /\ Asking' /\ Caused' /\ Lockstep'
    BY <1>1, <2>1, ZenonT(30) DEF RelayInv, RelayTypes, Asking, Caused, Lockstep, Ended
  <2>3. Closers'
    BY <1>1, <2>1 DEF RelayInv, Closers, Cancelling, Calling, Ended
  <2>4. Answered'
    BY <1>1, <2>1, Zenon DEF RelayInv, Answered, Settled, Silent, AskedToClose, Ended
  <2> QED BY <2>2, <2>3, <2>4 DEF RelayInv
<1>3. CASE worker # "exited"
  <2>1. ending # {} /\ relay.step \notin Ended
    BY <1>1, <1>3 DEF RelayInv, RelayTypes, Closers, Cancelling, Ended
  <2> QED BY <1>1, <1>3, <2>1, FailKeeps, ZenonT(30)
<1> QED BY <1>2, <1>3

\* The end of the exchange: an error leaves no response.
LEMMA EndExchangeKeeps ==
    ASSUME RelayInv, EndExchange
    PROVE  RelayInv'
<1> DEFINE gone == relay.step = "failed" \/ "cancelled" \in ending
<1>1. /\ relay.step \in {"failed", "ended"}
      /\ closer' = [closer EXCEPT !["canceller"] = "done", !["relay"] = "closing"]
      /\ worker' = IF worker = "running" THEN "killed" ELSE worker
      /\ relay' = [relay EXCEPT !.step = "releasing", !.result = IF gone THEN "none" ELSE @]
      /\ UNCHANGED <<proxy, routine, workerOut, workerIn, toBroker, fromBroker, client, broker,
                     ending, faulted>>
  BY DEF EndExchange
<1>2. /\ relay' \in [step : RelayPlaces, id : Nat, request : Arguments,
                      result : {"none", "success", "failure"}]
      /\ relay'.step = "releasing" /\ relay'.result = IF gone THEN "none" ELSE relay.result
  <2> DEFINE result == IF gone THEN "none" ELSE relay.result
  <2>1. /\ result \in {"none", "success", "failure"}
        /\ relay' = [relay EXCEPT !.step = "releasing", !.result = result]
    BY <1>1 DEF RelayInv, RelayTypes
  <2> HIDE DEF result
  <2>2. /\ relay' \in [step : RelayPlaces, id : Nat, request : Arguments,
                        result : {"none", "success", "failure"}]
        /\ relay'.step = "releasing" /\ relay'.result = result
    BY <2>1, Zenon DEF RelayInv, RelayTypes, RelayPlaces, Ended
  <2> QED BY <2>2 DEF result
<1>3. /\ closer' \in [{"relay", "canceller"} -> ClosePlaces]
      /\ closer'["relay"] = "closing" /\ closer'["canceller"] = "done"
  BY <1>1 DEF RelayInv, RelayTypes, ClosePlaces
<1> HIDE DEF gone
<1>4. RelayTypes' /\ Asking'
  BY <1>1, <1>2, <1>3 DEF RelayInv, RelayTypes, Asking
<1>5. Closers'
  BY <1>2, <1>3 DEF Closers, Cancelling, Calling, Ended
<1>6. Caused'
  BY <1>1, <1>2 DEF RelayInv, Closers, Caused, gone, Ended
<1>7. Lockstep'
  BY <1>2 DEF Lockstep
<1>8. Answered'
  <2>1. SUFFICES ASSUME ~gone PROVE Settled'
    BY <1>2 DEF Answered
  <2>2. Settled /\ closer["relay"] = "armed"
    BY <1>1, <2>1 DEF RelayInv, Answered, Closers, Ended, gone
  <2>3. relay'.result = relay.result /\ worker' = worker
    BY <1>1, <1>2, <2>1, <2>2 DEF Settled
  <2> QED BY <1>1, <1>3, <2>2, <2>3 DEF Settled, Silent
<1> QED BY <1>4, <1>5, <1>6, <1>7, <1>8 DEF RelayInv

\* The response is dropped when the broker did not exit by itself.
LEMMA ReturnExchangeKeeps ==
    ASSUME RelayInv, ReturnExchange
    PROVE  RelayInv'
<1>1. /\ relay.step = "releasing" /\ closer["relay"] = "done"
      /\ relay' = [relay EXCEPT !.step = "returned",
                                !.result = IF broker.step = "exited" THEN @ ELSE "none"]
      /\ UNCHANGED <<proxy, routine, worker, workerOut, workerIn, toBroker, fromBroker, client, closer,
                     broker, ending, faulted>>
  BY DEF ReturnExchange
<1>2. relay.result # "none" => Settled /\ broker.step = "exited"
  BY <1>1 DEF RelayInv, Answered, Settled, Ended
<1>3. /\ relay' \in [step : RelayPlaces, id : Nat, request : Arguments,
                      result : {"none", "success", "failure"}]
      /\ relay'.step = "returned" /\ relay'.result = relay.result
  <2>1. relay' = [relay EXCEPT !.step = "returned", !.result = relay.result]
    BY <1>1, <1>2, Zenon DEF RelayInv, RelayTypes
  <2> QED BY <2>1, Zenon DEF RelayInv, RelayTypes, RelayPlaces, Ended
<1>4. RelayTypes' /\ Asking' /\ Lockstep'
  BY <1>1, <1>3 DEF RelayInv, RelayTypes, Asking, Lockstep
<1>5. Closers' /\ Caused'
  BY <1>1, <1>3 DEF RelayInv, Closers, Caused, Cancelling, Calling, Ended
<1>6. Answered'
  BY <1>1, <1>2, <1>3, ZenonT(30) DEF Answered, Settled, Silent
<1> QED BY <1>4, <1>5, <1>6 DEF RelayInv

-----------------------------------------------------------------------------
(* The two closers.                                                         *)

\* Close of the client keeps the invariant, whoever calls it: the callback of
\* a cancellation, when nothing is claimed, or the end of the exchange, when
\* what a response rests on has to be kept.
LEMMA CloserKeeps ==
    ASSUME RelayInv, NEW a \in {"relay", "canceller"}, NEW step \in ClosePlaces \ {"armed"},
           closer[a] \in {"closing", "swapped", "shutting", "stopping"}, Closing(a, step),
           client' \in Clients, client'.ledger.limit = client.ledger.limit,
           broker' \in Brokers, broker'.ledger.limit = broker.ledger.limit,
           toBroker' \in Seq([kind : {"run", "close"}, id : Nat, request : Arguments]),
           a = "relay" /\ Settled => Settled',
           UNCHANGED <<proxy, routine, worker, workerOut, workerIn, fromBroker, relay, ending, faulted>>
    PROVE  RelayInv'
<1>1. /\ closer' \in [{"relay", "canceller"} -> ClosePlaces] /\ closer'[a] = step
      /\ \A b \in {"relay", "canceller"} : b # a => closer'[b] = closer[b]
  BY ZenonT(30) DEF Closing, RelayInv, RelayTypes
<1>2. a = "relay" => relay.step = "releasing"
  BY ZenonT(30) DEF RelayInv, Closers, Ended
<1>3. a = "canceller" => relay.step \notin Ended /\ "cancelled" \in ending
  BY ZenonT(30) DEF RelayInv, Closers, Cancelling
<1>4. RelayTypes'
  BY <1>1, ZenonT(30) DEF RelayInv, RelayTypes, Clients, Brokers
<1>5. Asking' /\ Caused'
  BY ZenonT(30) DEF RelayInv, Asking, Caused
<1>6. Closers'
  BY <1>1, <1>2, <1>3, ZenonT(30) DEF RelayInv, Closers, Cancelling, Ended
<1>7. Lockstep'
  BY <1>2, <1>3, ZenonT(30) DEF Lockstep
<1>8. Answered'
  BY <1>2, <1>3 DEF RelayInv, Answered, Ended
<1> QED BY <1>4, <1>5, <1>6, <1>7, <1>8, ZenonT(30) DEF RelayInv

\* The abort of a close that lost the race for the client.
LEMMA CloseAbortsKeeps ==
    ASSUME RelayInv, NEW a \in {"relay", "canceller"}, CloseAborts(a),
           closer[a] \in {"closing", "swapped"},
           a = "relay" /\ Settled => client.active = "none" /\ broker.step = "exited" /\ toBroker = <<>>,
           UNCHANGED <<proxy, routine, worker, workerOut, workerIn, toBroker, fromBroker, relay,
                       ending, faulted>>
    PROVE  RelayInv'
<1>1. client' = Aborted(client) /\ broker' = Killed /\ Closing(a, "done")
  BY ZenonT(30) DEF CloseAborts
<1>2. client \in Clients /\ broker \in Brokers
  BY ZenonT(30) DEF RelayInv, RelayTypes, Clients, Brokers
<1>3. /\ client' \in Clients /\ client'.ledger.limit = client.ledger.limit
      /\ client'.active = client.active /\ client'.nextID = client.nextID
      /\ client'.ledger.outstanding = client.ledger.outstanding
  BY <1>1, <1>2, AbortedDoes
<1>4. broker' \in Brokers /\ broker'.ledger = broker.ledger
  BY <1>1, <1>2 DEF Killed, Brokers
<1>5. toBroker' \in Seq([kind : {"run", "close"}, id : Nat, request : Arguments])
  BY DEF RelayInv, RelayTypes
<1>6. a = "relay" /\ Settled => Settled'
  <2>1. SUFFICES ASSUME a = "relay", Settled PROVE Settled'
    OBVIOUS
  <2>2. broker' = broker /\ closer'["relay"] = "done"
    BY <1>1, <2>1 DEF Killed, Closing, RelayInv, RelayTypes
  <2> QED BY <1>3, <2>1, <2>2, Zenon DEF Settled, Silent
<1> QED BY <1>1, <1>3, <1>4, <1>5, <1>6, CloserKeeps, Zenon DEF ClosePlaces

\* Close takes the client, or finds it closed.
LEMMA CloseSwapsKeeps ==
    ASSUME RelayInv, NEW a \in {"relay", "canceller"}, CloseSwaps(a)
    PROVE  RelayInv'
<1>1. /\ closer[a] = "closing"
      /\ UNCHANGED <<proxy, routine, worker, workerOut, workerIn, toBroker, fromBroker, relay,
                     ending, faulted>>
  BY DEF CloseSwaps
<1>2. CASE client.closed
  <2>1. CloseAborts(a)
    BY <1>2 DEF CloseSwaps
  <2>2. a = "relay" /\ Settled => client.active = "none" /\ broker.step = "exited" /\ toBroker = <<>>
    BY <1>1, <1>2, Zenon DEF Settled
  <2> QED BY <1>1, <2>1, <2>2, CloseAbortsKeeps
<1>3. CASE ~client.closed
  <2> DEFINE yes == TRUE
  <2>1. yes \in BOOLEAN /\ yes
    OBVIOUS
  <2>2. client' = [client EXCEPT !.closed = yes] /\ Closing(a, "swapped") /\ UNCHANGED broker
    BY <1>3 DEF CloseSwaps
  <2> HIDE DEF yes
  <2>3. client \in Clients /\ broker \in Brokers
    BY DEF RelayInv, RelayTypes, Clients, Brokers
  <2>4. /\ client' \in Clients /\ client'.ledger = client.ledger
        /\ client'.active = client.active /\ client'.nextID = client.nextID
    BY <2>1, <2>2, <2>3, Zenon DEF Clients
  <2>5. toBroker' \in Seq([kind : {"run", "close"}, id : Nat, request : Arguments])
    BY <1>1 DEF RelayInv, RelayTypes
  <2>6. a = "relay" /\ Settled => Settled'
    <3>1. SUFFICES ASSUME a = "relay", Settled PROVE Settled'
      OBVIOUS
    <3>2. closer'["relay"] = "swapped"
      BY <2>2, <3>1 DEF Closing, RelayInv, RelayTypes
    <3>3. client.active = "none" /\ toBroker = <<>> /\ broker.step = "serving"
      BY <1>1, <1>3, <3>1, Zenon DEF Settled
    <3> QED BY <1>1, <2>2, <2>4, <3>1, <3>2, <3>3 DEF Settled, Silent
  <2> QED BY <1>1, <2>2, <2>3, <2>4, <2>5, <2>6, CloserKeeps, Zenon DEF ClosePlaces
<1> QED BY <1>2, <1>3

\* Close enters the client, or finds a call in it.
LEMMA CloseEntersKeeps ==
    ASSUME RelayInv, NEW a \in {"relay", "canceller"}, CloseEnters(a)
    PROVE  RelayInv'
<1>1. /\ closer[a] = "swapped"
      /\ UNCHANGED <<proxy, routine, worker, workerOut, workerIn, toBroker, fromBroker, relay,
                     ending, faulted>>
  BY DEF CloseEnters
<1>2. a = "relay" /\ Settled => client.active = "none" /\ toBroker = <<>> /\ broker.step = "serving"
  BY <1>1, Zenon DEF Settled
<1>3. CASE client.active # "none"
  <2>1. CloseAborts(a)
    BY <1>3 DEF CloseEnters
  <2> QED BY <1>1, <1>2, <1>3, <2>1, CloseAbortsKeeps
<1>4. CASE client.active = "none"
  <2> DEFINE l == Shut(client.ledger)
  <2>1. client' = [client EXCEPT !.active = a, !.ledger = l] /\ Closing(a, "shutting") /\ UNCHANGED broker
    BY <1>4 DEF CloseEnters
  <2>2. client \in Clients /\ broker \in Brokers
    BY DEF RelayInv, RelayTypes, Clients, Brokers
  <2>3. /\ l \in Ledgers /\ l.limit = client.ledger.limit
        /\ l.outstanding = client.ledger.outstanding
    BY <2>2, AbortedDoes
  <2> HIDE DEF l
  <2>4. /\ client' \in Clients /\ client'.ledger = l
        /\ client'.active = a /\ client'.nextID = client.nextID
    BY <2>1, <2>2, <2>3, Zenon DEF Clients
  <2>5. toBroker' \in Seq([kind : {"run", "close"}, id : Nat, request : Arguments])
    BY <1>1 DEF RelayInv, RelayTypes
  <2>6. a = "relay" /\ Settled => Settled'
    <3>1. SUFFICES ASSUME a = "relay", Settled PROVE Settled'
      OBVIOUS
    <3>2. closer'["relay"] = "shutting"
      BY <2>1, <3>1 DEF Closing, RelayInv, RelayTypes
    <3> QED BY <1>1, <1>2, <2>1, <2>3, <2>4, <3>1, <3>2, Zenon DEF Settled, Silent
  <2> QED BY <1>1, <2>1, <2>2, <2>3, <2>4, <2>5, <2>6, CloserKeeps, Zenon DEF ClosePlaces
<1> QED BY <1>3, <1>4

\* Close asks the broker to exit and waits for it.
LEMMA CloseShutsDownKeeps ==
    ASSUME RelayInv, NEW a \in {"relay", "canceller"}, CloseShutsDown(a)
    PROVE  RelayInv'
<1>1. /\ closer[a] \in {"shutting", "stopping"}
      /\ UNCHANGED <<proxy, routine, worker, workerOut, workerIn, fromBroker, relay, broker, ending,
                     faulted>>
  BY ZenonT(30) DEF CloseShutsDown
<1>2. client \in Clients /\ broker \in Brokers /\ broker' \in Brokers
  BY <1>1 DEF RelayInv, RelayTypes, Clients, Brokers
<1>3. CASE closer[a] = "shutting" /\ broker.step = "serving"
  <2>1. SendsClose /\ Closing(a, "stopping") /\ UNCHANGED client
    BY <1>3 DEF CloseShutsDown
  <2>2. CloseFrame \in [kind : {"run", "close"}, id : Nat, request : Arguments]
    BY DEF CloseFrame, NoRequest, Arguments
  <2>3. toBroker' = Append(toBroker, CloseFrame)
    BY <2>1 DEF SendsClose, CloseFrame
  <2>4. toBroker' \in Seq([kind : {"run", "close"}, id : Nat, request : Arguments])
    BY <2>2, <2>3 DEF RelayInv, RelayTypes
  <2>5. a = "relay" /\ Settled => Settled'
    <3>1. SUFFICES ASSUME a = "relay", Settled PROVE Settled'
      OBVIOUS
    <3>2. closer'["relay"] = "stopping"
      BY <2>1, <3>1 DEF Closing, RelayInv, RelayTypes
    <3>3. client.active = "relay" /\ toBroker = <<>>
      BY <1>3, <3>1, Zenon DEF Settled
    <3>4. AskedToClose'
      BY <1>1, <1>3, <2>3, <3>3, OneFrame DEF AskedToClose, CloseFrame
    <3> QED BY <1>1, <2>1, <3>1, <3>2, <3>3, <3>4 DEF Settled, Silent
  <2> QED BY <1>1, <1>2, <2>1, <2>4, <2>5, CloserKeeps, Zenon DEF ClosePlaces
<1>4. CASE broker.step # "serving"
  <2>1. client' = [client EXCEPT !.active = "none"] /\ Closing(a, "done") /\ UNCHANGED toBroker
    BY <1>4 DEF CloseShutsDown
  <2>2. /\ client' \in Clients /\ client'.ledger = client.ledger
        /\ client'.active = "none" /\ client'.nextID = client.nextID
    BY <1>2, <2>1 DEF Clients
  <2>3. toBroker' \in Seq([kind : {"run", "close"}, id : Nat, request : Arguments])
    BY <2>1 DEF RelayInv, RelayTypes
  <2>4. a = "relay" /\ Settled => Settled'
    <3>1. SUFFICES ASSUME a = "relay", Settled PROVE Settled'
      OBVIOUS
    <3>2. closer'["relay"] = "done"
      BY <2>1, <3>1 DEF Closing, RelayInv, RelayTypes
    <3>3. broker.step = "exited" /\ toBroker = <<>>
      BY <1>1, <1>4, <3>1, Zenon DEF Settled, AskedToClose
    <3> QED BY <1>1, <2>1, <2>2, <3>1, <3>2, <3>3 DEF Settled, Silent
  <2> QED BY <1>1, <1>2, <2>1, <2>2, <2>3, <2>4, CloserKeeps, Zenon DEF ClosePlaces
<1> QED BY <1>3, <1>4 DEF CloseShutsDown

\* The callback of the caller's cancellation kills the worker.
LEMMA CancelExchangeKeeps ==
    ASSUME RelayInv, CancelExchange
    PROVE  RelayInv'
<1>1. /\ "cancelled" \in ending /\ closer["canceller"] = "armed"
      /\ worker' = IF worker = "running" THEN "killed" ELSE worker
      /\ closer' = [closer EXCEPT !["canceller"] = "closing"]
      /\ UNCHANGED <<proxy, routine, workerOut, workerIn, toBroker, fromBroker, relay, client, broker,
                     ending, faulted>>
  BY ZenonT(30) DEF CancelExchange, Closing
<1>2. /\ closer' \in [{"relay", "canceller"} -> ClosePlaces]
      /\ closer'["relay"] = closer["relay"] /\ closer'["canceller"] = "closing"
  BY <1>1 DEF RelayInv, RelayTypes, ClosePlaces
<1>3. relay.step \notin Ended
  BY <1>1, ZenonT(30) DEF RelayInv, Closers
<1>4. RelayTypes' /\ Asking' /\ Caused'
  <2>1. RelayTypes'
    BY <1>1, <1>2, ZenonT(30) DEF RelayInv, RelayTypes
  <2>2. Asking'
    BY <1>1, SMTT(20) DEF RelayInv, Asking
  <2>3. Caused'
    BY <1>1, ZenonT(30) DEF RelayInv, Caused
  <2> QED BY <2>1, <2>2, <2>3, ZenonT(30)
<1>5. Closers'
  BY <1>1, <1>2, <1>3, ZenonT(30) DEF RelayInv, Closers, Cancelling, Ended
<1>6. Lockstep' /\ Answered'
  BY <1>1, <1>3 DEF Lockstep, Answered
<1> QED BY <1>4, <1>5, <1>6 DEF RelayInv

\* A context ends: there is less to claim, and a failure has its cause.
LEMMA ContextEndsKeeps ==
    ASSUME RelayInv, NEW cause \in {"cancelled", "expired"}, ContextEnds(cause)
    PROVE  RelayInv'
<1>1. /\ ending' = ending \cup {cause}
      /\ UNCHANGED <<proxy, routine, worker, workerOut, workerIn, toBroker, fromBroker, relay, client,
                     closer, broker, faulted>>
  BY DEF ContextEnds
<1>2. ending' # {} /\ ending \subseteq ending'
  BY <1>1, ZenonT(30)
<1>3. RelayTypes' /\ Asking'
  BY <1>1 DEF RelayInv, RelayTypes, Asking
<1>4. Closers' /\ Caused'
  BY <1>1, <1>2 DEF RelayInv, Closers, Caused, Cancelling
<1>5. Lockstep'
  BY <1>2 DEF Lockstep
<1>6. Answered'
  BY <1>1, <1>2, Zenon DEF RelayInv, Answered, Settled, Silent, AskedToClose
<1> QED BY <1>3, <1>4, <1>5, <1>6 DEF RelayInv

-----------------------------------------------------------------------------
(* The exchange.                                                            *)

\* The three ledgers start alike, nothing is written and nothing has ended.
LEMMA RelayInitHolds ==
    ASSUME RelayInit
    PROVE  RelayInv
<1>1. PICK limit \in CallLimits :
         /\ proxy = [ledger |-> Ledger(limit), nextID |-> 1, failed |-> FALSE, active |-> "none"]
         /\ client = [ledger |-> Ledger(limit), nextID |-> 1, active |-> "none", closed |-> FALSE]
         /\ broker = [step |-> "serving", ledger |-> Ledger(limit), served |-> 0]
  BY Zenon DEF RelayInit
<1>2. limit \in Nat /\ 0 < limit
  BY LimitTypes
<1>3. /\ Ledger(limit) \in Ledgers /\ Ledger(limit).limit = limit /\ ~Ledger(limit).closed
      /\ Holds(Ledger(limit), 0, 0, Quota)
  BY RelayBounds, SMTT(20) DEF Ledger, Ledgers, Holds
<1>4. /\ routine = [g \in Routines |-> [waits |-> FALSE, calls |-> 0]]
      /\ worker = "running" /\ Silent /\ toBroker = <<>> /\ fromBroker = <<>>
      /\ relay = [step |-> "reading", id |-> 0, request |-> NoRequest, result |-> "none"]
      /\ closer = [a \in {"relay", "canceller"} |-> "armed"]
      /\ ending = {} /\ faulted = FALSE
  BY ZenonT(30) DEF RelayInit, Silent
<1>5. /\ proxy.nextID = 1 /\ ~proxy.failed /\ proxy.active = "none"
      /\ proxy.ledger = Ledger(limit)
  BY <1>1, ZenonT(30)
<1>6. RelayTypes
  <2>1. NoRequest \in Arguments
    BY ZenonT(30) DEF NoRequest, Arguments
  <2>2. /\ proxy \in [ledger : Ledgers, nextID : Nat, failed : BOOLEAN, active : Routines \cup {"none"}]
        /\ client \in [ledger : Ledgers, nextID : Nat, active : {"none", "relay", "canceller"},
                        closed : BOOLEAN]
        /\ broker \in [step : {"serving", "exited", "failed", "killed"}, ledger : Ledgers, served : Nat]
    BY <1>1, <1>3, ZenonT(30)
  <2>3. /\ workerOut = <<>> /\ workerIn = <<>>
    BY <1>4, ZenonT(30) DEF Silent
  <2>4. relay \in [step : RelayPlaces, id : Nat, request : Arguments,
                   result : {"none", "success", "failure"}]
    BY <1>4, <2>1, ZenonT(30) DEF RelayPlaces
  <2>5. routine \in [Routines -> [waits : BOOLEAN, calls : Nat]]
    BY <1>4, ZenonT(30)
  <2>6. closer \in [{"relay", "canceller"} -> ClosePlaces]
    BY <1>4, ZenonT(30) DEF ClosePlaces
  <2>7. /\ client.ledger.limit = proxy.ledger.limit /\ broker.ledger.limit = proxy.ledger.limit
        /\ worker \in {"running", "exited", "killed"} /\ ending \subseteq {"cancelled", "expired"}
    BY <1>1, <1>4
  <2>8. /\ workerOut \in Seq([kind : {"call", "success", "failure"}, id : Nat, request : Arguments])
        /\ workerIn \in Seq({"reply"}) /\ fromBroker \in Seq({"ok", "error"})
        /\ toBroker \in Seq([kind : {"run", "close"}, id : Nat, request : Arguments])
    BY <1>4, <2>3
  <2>9. faulted \in BOOLEAN
    BY <1>4, ZenonT(30)
  <2> QED BY <2>2, <2>4, <2>5, <2>6, <2>7, <2>8, <2>9 DEF RelayTypes
<1>7. Asking
  <2>1. \A g \in Routines : routine[g].waits <=> proxy.active = g
    BY <1>4, <1>5, RelayBounds, Zenon
  <2> QED BY <1>2, <1>3, <1>5, <2>1 DEF Asking, Holds
<1>8. Closers /\ Caused
  BY <1>4, ZenonT(30) DEF Closers, Caused, Cancelling, Ended, Calling
<1>9. Lockstep
  <2>1. Left = Quota /\ proxy.nextID - 1 = 0 /\ proxy.ledger.limit = limit
    BY <1>3, <1>5 DEF Left, Holds
  <2>2. /\ client.ledger = Ledger(limit) /\ broker.ledger = Ledger(limit)
        /\ client.nextID = 1 /\ broker.served = 0 /\ broker.step = "serving" /\ ~client.closed
    BY <1>1, ZenonT(30)
  <2>3. Ready(0, Quota)
    <3>1. /\ Holds(client.ledger, 0, 0, Quota) /\ Holds(broker.ledger, 0, 0, Quota)
          /\ ~client.ledger.closed /\ ~broker.ledger.closed
      BY <1>3, <2>2, ZenonT(30)
    <3>2. 0 < proxy.ledger.limit /\ client.nextID = 0 + 1
      BY <1>2, <2>1, <2>2
    <3> QED BY <1>4, <2>2, <3>1, <3>2, ZenonT(30) DEF Ready
  <2>4. Ready(proxy.nextID - 1, Left)
    BY <2>1, <2>3, Zenon
  <2> QED BY <1>1, <1>4, <1>5, <2>4, ZenonT(30) DEF Lockstep, Reading
<1>10. Answered
  BY <1>4 DEF Answered, Ended
<1> QED BY <1>6, <1>7, <1>8, <1>9, <1>10 DEF RelayInv

\* Every step of every party keeps the invariant.
LEMMA RelayStepKeeps ==
    ASSUME RelayInv, [RelayNext]_relayVars
    PROVE  RelayInv'
<1>1. CASE \E g \in Routines, request \in Requests : Invoke(g, request)
  BY <1>1, AskKeeps, RefuseKeeps
<1>2. CASE WorkerSteps
  BY <1>2, EndProgramKeeps, ReceiveReplyKeeps DEF WorkerSteps
<1>3. CASE RelaySteps
  BY <1>3, ReadWorkerKeeps, ReadWorkerFailsKeeps, ExecuteChecksKeeps, ExecuteEntersKeeps,
     ExecuteAdmitsKeeps, ExecuteSendsKeeps, ExecuteReceivesKeeps, ExecuteStopsKeeps,
     ExecuteReturnsKeeps, WaitWorkerKeeps, EndExchangeKeeps, ReturnExchangeKeeps, ZenonT(30) DEF RelaySteps
<1>4. CASE BrokerSteps
  BY <1>4, ServeCloseKeeps, ServeOperationKeeps DEF BrokerSteps
<1>5. CASE \E a \in {"relay", "canceller"} : CloseSteps(a)
  BY <1>5, CloseSwapsKeeps, CloseEntersKeeps, CloseShutsDownKeeps DEF CloseSteps
<1>6. CASE ExecuteCancelled \/ CancelExchange
  BY <1>6, ExecuteCancelledKeeps, CancelExchangeKeeps
<1>7. CASE \E cause \in {"cancelled", "expired"} : ContextEnds(cause)
  BY <1>7, ContextEndsKeeps
<1>8. CASE UNCHANGED relayVars
  <2>1. RelayTypes' /\ Asking' /\ Closers' /\ Caused'
    <3>1. RelayTypes'
      BY <1>8, SMTT(30) DEF relayVars, RelayInv, RelayTypes
    <3>2. Asking'
      BY <1>8, SMTT(30) DEF relayVars, RelayInv, Asking
    <3>3. Closers' /\ Caused'
      BY <1>8, SMTT(30) DEF relayVars, RelayInv, Closers, Caused, Cancelling
    <3> QED BY <3>1, <3>2, <3>3, Zenon
  <2>2. Lockstep'
    BY <1>8, ZenonT(40) DEF relayVars, RelayInv, Lockstep, Reading, Called, Reserved, Unserved, Served,
                Exchanging, Stopping, AskedToClose, InCall, Silent, Ready, Left, Verdict
  <2>3. Answered'
    BY <1>8, Zenon DEF relayVars, RelayInv, Answered, Settled, Silent, AskedToClose
  <2> QED BY <2>1, <2>2, <2>3, ZenonT(30) DEF RelayInv
<1> QED BY <1>1, <1>2, <1>3, <1>4, <1>5, <1>6, <1>7, <1>8, ZenonT(30) DEF RelayNext, ExchangeOver

\* The invariant of the exchange holds in every state.
THEOREM RelayInvariance == RelaySpec => []RelayInv
<1>1. RelayInit => RelayInv
  BY RelayInitHolds
<1>2. RelayInv /\ [RelayNext]_relayVars => RelayInv'
  BY RelayStepKeeps
<1> QED BY <1>1, <1>2, PTL DEF RelaySpec

\* ExchangeFilesystem tells the outcome of the exchange, whatever the limits
\* of the session and however many goroutines call: an error has a cause, a
\* response is whole, and a success is returned only if no call was refused.
THEOREM OutcomeIsTold == RelaySpec => []ExchangeOutcome
<1>1. RelayInv => ExchangeOutcome
  <2>1. SUFFICES ASSUME RelayInv PROVE ExchangeOutcome
    OBVIOUS
  <2>2. FailureHasCause
    BY <2>1 DEF RelayInv, Caused, Ended, FailureHasCause
  <2>3. ASSUME relay.step = "returned", relay.result # "none"
        PROVE  /\ Settled /\ closer["relay"] = "done" /\ proxy.ledger.outstanding = 0
               /\ client.ledger.outstanding = 0 /\ broker.ledger.outstanding = 0
    BY <2>1, <2>3, Zenon DEF RelayInv, Answered, Closers, Asking, Settled, Ended
  <2>4. ResponseIsWhole
    BY <2>1, <2>3 DEF ResponseIsWhole, Settled, Silent, RelayInv, RelayTypes
  <2> QED BY <2>2, <2>4 DEF ExchangeOutcome
<1> QED BY <1>1, RelayInvariance, PTL
=============================================================================
