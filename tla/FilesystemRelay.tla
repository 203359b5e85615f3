--------------------------- MODULE FilesystemRelay ---------------------------
(***************************************************************************)
(* A filesystem call of an isolated program, end to end: the proxy in the  *)
(* worker, the relay and the broker's client in the host, and the broker.  *)
(* Each of the three keeps a ledger of its own; a caller's cancellation    *)
(* and the execution deadline race every step of the exchange.             *)
(***************************************************************************)
EXTENDS Naturals, Sequences

CONSTANTS Routines,       \* goroutines of the program that use pipit/fs
          Requests,       \* arguments of a call: valid, granted, and the limit it reserves
          CallLimits,     \* the Calls a host may choose
          Outstanding, Quota,   \* the rest of FilesystemLimits, one quota for all operations
          DefaultCalls,   \* defaultCalls: what the broker serves at most
          MaxInvokes      \* bound: calls of each goroutine

ASSUME RelayBounds ==
    /\ "none" \notin Routines
    /\ Requests \subseteq [valid : BOOLEAN, granted : BOOLEAN, limit : Nat]
    /\ {Quota, MaxInvokes} \subseteq Nat
    /\ DefaultCalls \in Nat \ {0} /\ Outstanding \in Nat \ {0}
    /\ CallLimits \subseteq Outstanding..DefaultCalls

VARIABLES proxy,      \* FilesystemProxy: its ledger, nextID, latched failure and active
          routine,    \* per goroutine: waiting for a reply or not, and its calls so far
          worker,     \* the worker process: running, exited or killed
          workerOut, workerIn, toBroker, fromBroker,   \* frames written and not yet read
          relay,      \* ExchangeFilesystem: its step, the call it relays, its result
          client,     \* FilesystemClient: its ledger, nextID, active and closed
          closer,     \* per actor: its step in FilesystemClient.Close
          broker,     \* the broker process, its ledger and operations served
          ending,     \* the caller's context is cancelled, the execution's has expired
          faulted     \* an operation failed in the broker

relayVars == <<proxy, routine, worker, workerOut, workerIn, toBroker, fromBroker, relay, client,
               closer, broker, ending, faulted>>

NoRequest == [valid |-> FALSE, granted |-> FALSE, limit |-> 0]

\* NewFilesystemBudget; the three are made from the same limits.
Ledger(limit) == [closed |-> FALSE, lastID |-> 0, calls |-> 0, outstanding |-> 0,
                  remaining |-> Quota, limit |-> limit]

RelayInit ==
    /\ \E limit \in CallLimits :
          /\ proxy = [ledger |-> Ledger(limit), nextID |-> 1, failed |-> FALSE, active |-> "none"]
          /\ client = [ledger |-> Ledger(limit), nextID |-> 1, active |-> "none", closed |-> FALSE]
          /\ broker = [step |-> "serving", ledger |-> Ledger(limit), served |-> 0]
    /\ routine = [g \in Routines |-> [waits |-> FALSE, calls |-> 0]]
    /\ worker = "running"
    /\ workerOut = <<>> /\ workerIn = <<>> /\ toBroker = <<>> /\ fromBroker = <<>>
    /\ relay = [step |-> "reading", id |-> 0, request |-> NoRequest, result |-> "none"]
    /\ closer = [a \in {"relay", "canceller"} |-> "armed"]
    /\ ending = {}
    /\ faulted = FALSE

-----------------------------------------------------------------------------
\* FilesystemBudget.Admit.  All attempts consume the call quota.
Admitted(ledger, id, request) ==
    LET seen    == [ledger EXCEPT !.lastID = id]
        counted == [seen EXCEPT !.calls = @ + 1]
    IN  CASE ledger.closed -> [ledger |-> ledger, granted |-> FALSE]
          [] ~ledger.closed /\ id <= ledger.lastID ->
                [ledger |-> [ledger EXCEPT !.closed = TRUE], granted |-> FALSE]
          [] ~ledger.closed /\ id > ledger.lastID /\ ledger.calls = ledger.limit ->
                [ledger |-> [seen EXCEPT !.closed = TRUE], granted |-> FALSE]
          [] OTHER ->
                IF \/ ~request.granted
                   \/ ledger.outstanding = Outstanding
                   \/ request.limit > ledger.remaining
                THEN [ledger |-> counted, granted |-> FALSE]
                ELSE [ledger |-> [counted EXCEPT !.outstanding = @ + 1,
                                                 !.remaining = @ - request.limit],
                      granted |-> TRUE]

\* FilesystemCall.Finish, with a use within the limit: nothing is refunded.
FinishCall(ledger) == [ledger EXCEPT !.outstanding = @ - 1]

\* FilesystemBudget.Close.
Shut(ledger) == [ledger EXCEPT !.closed = TRUE]

-----------------------------------------------------------------------------
(* The worker: FilesystemProxy and the program around it.                  *)

\* fail: the first failure is latched and the ledger closed.
Latched(ledger) == [proxy EXCEPT !.failed = TRUE, !.ledger = Shut(ledger)]

\* invoke and exchange up to the wait for the reply: a second caller latches
\* errBusy, and so does every refusal before the frame is written.
Invoke(g, request) ==
    LET admission == Admitted(proxy.ledger, proxy.nextID, request)
        asks      == proxy.active = "none" /\ ~proxy.failed /\ request.valid
        sends     == asks /\ admission.granted
    IN  /\ worker = "running"
        /\ ~routine[g].waits /\ routine[g].calls < MaxInvokes
        /\ routine' = [routine EXCEPT ![g] = [waits |-> sends, calls |-> @.calls + 1]]
        /\ IF sends
           THEN /\ proxy' = [proxy EXCEPT !.active = g, !.ledger = admission.ledger]
                /\ workerOut' = Append(workerOut, [kind |-> "call", id |-> proxy.nextID,
                                                   request |-> request])
           ELSE /\ proxy' = Latched(IF asks THEN admission.ledger ELSE proxy.ledger)
                /\ UNCHANGED workerOut
        /\ UNCHANGED <<worker, workerIn, toBroker, fromBroker, relay, client, closer, broker,
                       ending, faulted>>

\* The rest of exchange and invoke's deferred calls.
ReceiveReply(g) ==
    /\ worker = "running"
    /\ proxy.active = g /\ workerIn # <<>>
    /\ workerIn' = Tail(workerIn)
    /\ proxy' = [proxy EXCEPT !.active = "none", !.nextID = @ + 1, !.ledger = FinishCall(@)]
    /\ routine' = [routine EXCEPT ![g].waits = FALSE]
    /\ UNCHANGED <<worker, workerOut, toBroker, fromBroker, relay, client, closer, broker, ending,
                   faulted>>

\* EvaluateRestrictedPhased: the execution ends with its goroutines, a latched
\* failure becomes the result's error, and the worker exits after sending it.
EndProgram ==
    /\ worker = "running"
    /\ \A g \in Routines : ~routine[g].waits
    /\ workerOut' = Append(workerOut, [kind |-> IF proxy.failed THEN "failure" ELSE "success",
                                       id |-> 0, request |-> NoRequest])
    /\ worker' = "exited"
    /\ UNCHANGED <<proxy, routine, workerIn, toBroker, fromBroker, relay, client, closer,
                   broker, ending, faulted>>

-----------------------------------------------------------------------------
(* The broker: serveFilesystemOperations over LinuxFilesystem.execute.     *)

\* stream.Close: the process is killed unless it has exited.
Killed == IF broker.step = "serving" THEN [broker EXCEPT !.step = "killed"] ELSE broker

Exits(clean) == IF clean THEN "exited" ELSE "failed"

\* One iteration for a Run frame: an admission or an operation that fails is
\* reported and ends the broker, and so does the last one it may serve.
ServeOperation(fails) ==
    LET message   == Head(toBroker)
        admission == Admitted(broker.ledger, message.id, message.request)
        ok        == admission.granted /\ ~fails
        served    == broker.served + 1
    IN  /\ broker.step = "serving"
        /\ toBroker # <<>> /\ message.kind = "run"
        /\ toBroker' = Tail(toBroker)
        /\ fromBroker' = Append(fromBroker, IF ok THEN "ok" ELSE "error")
        /\ broker' = [step   |-> IF ok /\ served < DefaultCalls THEN "serving" ELSE Exits(ok),
                      ledger |-> IF admission.granted THEN FinishCall(admission.ledger)
                                 ELSE admission.ledger,
                      served |-> served]
        /\ faulted' = (faulted \/ fails)
        /\ UNCHANGED <<proxy, routine, worker, workerOut, workerIn, relay, client, closer, ending>>

ServeClose ==
    /\ broker.step = "serving"
    /\ toBroker # <<>> /\ Head(toBroker).kind = "close"
    /\ toBroker' = Tail(toBroker)
    /\ broker' = [broker EXCEPT !.step = Exits(TRUE)]
    /\ UNCHANGED <<proxy, routine, worker, workerOut, workerIn, fromBroker, relay, client, closer,
                   ending, faulted>>

-----------------------------------------------------------------------------
(* The host: relayFilesystem, FilesystemClient.Execute and Close.          *)

ToStep(step) == relay' = [relay EXCEPT !.step = step]

\* relayFilesystem takes a frame: a call goes to the client, the result ends
\* the relay unless the execution's context has ended (decodeFilesystemResult).
ReadWorker ==
    LET message == Head(workerOut)
    IN  /\ relay.step = "reading" /\ workerOut # <<>>
        /\ workerOut' = Tail(workerOut)
        /\ relay' = IF message.kind = "call"
                    THEN [relay EXCEPT !.step = "called", !.id = message.id,
                                       !.request = message.request]
                    ELSE [relay EXCEPT !.step = IF ending = {} THEN "waiting" ELSE "failed",
                                       !.result = message.kind]
        /\ UNCHANGED <<proxy, routine, worker, workerIn, toBroker, fromBroker, client, closer,
                       broker, ending, faulted>>

\* The read fails: the worker is gone, or its deadline has passed.
ReadWorkerFails ==
    /\ relay.step = "reading"
    /\ (worker = "killed" /\ workerOut = <<>>) \/ "expired" \in ending
    /\ ToStep("failed")
    /\ UNCHANGED <<proxy, routine, worker, workerOut, workerIn, toBroker, fromBroker, client,
                   closer, broker, ending, faulted>>

\* Execute's first two tests: closed, then the exchange of active.
ExecuteChecks ==
    /\ relay.step = "called"
    /\ ToStep(IF client.closed THEN "failed" ELSE "checked")
    /\ UNCHANGED <<proxy, routine, worker, workerOut, workerIn, toBroker, fromBroker, client,
                   closer, broker, ending, faulted>>

ExecuteEnters ==
    /\ relay.step = "checked"
    /\ IF client.active = "none"
       THEN client' = [client EXCEPT !.active = "relay"] /\ ToStep("entered")
       ELSE ToStep("failed") /\ UNCHANGED client
    /\ UNCHANGED <<proxy, routine, worker, workerOut, workerIn, toBroker, fromBroker, closer,
                   broker, ending, faulted>>

\* abort: authority ends and the process is killed.
Aborted(c) == [c EXCEPT !.closed = TRUE, !.ledger = Shut(@)]

\* Execute's deferred calls after an error, with the reservation if there is one.
ExecuteFails(reserved) ==
    /\ client' = [Aborted(client) EXCEPT !.active = "none",
                      !.ledger = IF reserved THEN FinishCall(@) ELSE @]
    /\ broker' = Killed
    /\ ToStep("failed")

\* exchange up to the frame: closed is tested again now that active is held.
ExecuteAdmits ==
    LET admission == Admitted(client.ledger, client.nextID, relay.request)
    IN  /\ relay.step = "entered"
        /\ IF ending = {} /\ ~client.closed /\ admission.granted
           THEN /\ client' = [client EXCEPT !.ledger = admission.ledger]
                /\ ToStep("admitted")
                /\ UNCHANGED broker
           ELSE ExecuteFails(FALSE)
        /\ UNCHANGED <<proxy, routine, worker, workerOut, workerIn, toBroker, fromBroker, closer,
                       ending, faulted>>

ExecuteSends ==
    /\ relay.step = "admitted"
    /\ IF broker.step = "serving"
       THEN /\ toBroker' = Append(toBroker, [kind |-> "run", id |-> client.nextID,
                                             request |-> relay.request])
            /\ ToStep("exchanging")
            /\ UNCHANGED <<client, broker>>
       ELSE ExecuteFails(TRUE) /\ UNCHANGED toBroker
    /\ UNCHANGED <<proxy, routine, worker, workerOut, workerIn, fromBroker, closer, ending, faulted>>

\* shutdown's Close frame; writing to a process that has exited fails.
SendsClose == toBroker' = Append(toBroker, [kind |-> "close", id |-> 0, request |-> NoRequest])

\* Mutants of Graceful: the bound is off by one, either way.
GracefulTooOften == client.ledger.limit <= DefaultCalls
GracefulTooSeldom == client.ledger.limit + 1 < DefaultCalls

\* shutdown is graceful only while the broker still reads.
Graceful == client.ledger.limit < DefaultCalls

\* The rest of exchange: the last call shuts the broker down before it is answered.
ExecuteReceives ==
    LET settled == [client EXCEPT !.ledger = FinishCall(@), !.nextID = @ + 1]
        last    == client.ledger.calls = client.ledger.limit
    IN  /\ relay.step = "exchanging"
        /\ IF fromBroker = <<>> \/ Head(fromBroker) = "error"
           THEN /\ fromBroker # <<>> \/ broker.step # "serving"
                /\ ExecuteFails(TRUE)
                /\ UNCHANGED toBroker
           ELSE IF last
           THEN /\ client' = Aborted(settled)
                /\ IF Graceful /\ broker.step # "serving"
                   THEN ToStep("refused") /\ broker' = Killed /\ UNCHANGED toBroker
                   ELSE /\ ToStep("stopping")
                        /\ IF Graceful THEN SendsClose ELSE UNCHANGED toBroker
                        /\ UNCHANGED broker
           ELSE IF client.closed
           THEN ExecuteFails(TRUE) /\ UNCHANGED toBroker
           ELSE client' = settled /\ ToStep("replying") /\ UNCHANGED <<toBroker, broker>>
        /\ fromBroker' = <<>>
        /\ UNCHANGED <<proxy, routine, worker, workerOut, workerIn, closer, ending, faulted>>

\* shutdown's wait for the broker, within Execute.
ExecuteStops ==
    /\ \/ relay.step = "refused"
       \/ relay.step = "stopping" /\ broker.step # "serving"
    /\ IF relay.step = "stopping" /\ broker.step = "exited"
       THEN ToStep("replying") /\ UNCHANGED <<client, broker>>
       ELSE ExecuteFails(FALSE)
    /\ UNCHANGED <<proxy, routine, worker, workerOut, workerIn, toBroker, fromBroker, closer,
                   ending, faulted>>

\* Execute returns, unless its context has ended, and the reply is sent.
ExecuteReturns ==
    /\ relay.step = "replying"
    /\ IF ending = {}
       THEN /\ client' = [client EXCEPT !.active = "none"]
            /\ workerIn' = Append(workerIn, "reply")
            /\ ToStep("reading")
            /\ UNCHANGED broker
       ELSE ExecuteFails(FALSE) /\ UNCHANGED workerIn
    /\ UNCHANGED <<proxy, routine, worker, workerOut, toBroker, fromBroker, closer, ending, faulted>>

\* The callback of watchCancellation.
ExecuteCancelled ==
    /\ relay.step \in {"entered", "admitted", "exchanging", "stopping", "replying"}
    /\ ending # {}
    /\ ~client.closed \/ broker.step = "serving"
    /\ client' = Aborted(client)
    /\ broker' = Killed
    /\ UNCHANGED <<proxy, routine, worker, workerOut, workerIn, toBroker, fromBroker, relay, closer,
                   ending, faulted>>

-----------------------------------------------------------------------------
(* FilesystemClient.Close, by the end of the exchange or its cancellation. *)

Closing(a, step) == closer' = [closer EXCEPT ![a] = step]

CloseAborts(a) == client' = Aborted(client) /\ broker' = Killed /\ Closing(a, "done")

\* The exchange of closed and that of active are two steps.
CloseSwaps(a) ==
    /\ closer[a] = "closing"
    /\ IF client.closed
       THEN CloseAborts(a)
       ELSE client' = [client EXCEPT !.closed = TRUE] /\ Closing(a, "swapped") /\ UNCHANGED broker
    /\ UNCHANGED <<proxy, routine, worker, workerOut, workerIn, toBroker, fromBroker, relay,
                   ending, faulted>>

CloseEnters(a) ==
    /\ closer[a] = "swapped"
    /\ IF client.active = "none"
       THEN /\ client' = [client EXCEPT !.active = a, !.ledger = Shut(@)]
            /\ Closing(a, "shutting")
            /\ UNCHANGED broker
       ELSE CloseAborts(a)
    /\ UNCHANGED <<proxy, routine, worker, workerOut, workerIn, toBroker, fromBroker, relay,
                   ending, faulted>>

CloseShutsDown(a) ==
    /\ \/ /\ closer[a] = "shutting" /\ broker.step = "serving"
          /\ SendsClose
          /\ Closing(a, "stopping")
          /\ UNCHANGED client
       \/ /\ closer[a] \in {"shutting", "stopping"} /\ broker.step # "serving"
          /\ client' = [client EXCEPT !.active = "none"]
          /\ Closing(a, "done")
          /\ UNCHANGED toBroker
    /\ UNCHANGED <<proxy, routine, worker, workerOut, workerIn, fromBroker, relay, broker, ending,
                   faulted>>

\* The callback of ExchangeFilesystem: both processes are closed.
CancelExchange ==
    /\ "cancelled" \in ending /\ closer["canceller"] = "armed"
    /\ worker' = IF worker = "running" THEN "killed" ELSE worker
    /\ Closing("canceller", "closing")
    /\ UNCHANGED <<proxy, routine, workerOut, workerIn, toBroker, fromBroker, relay, client, broker,
                   ending, faulted>>

\* worker.Wait after the result.
WaitWorker ==
    /\ relay.step = "waiting" /\ worker # "running"
    /\ ToStep(IF worker = "exited" THEN "ended" ELSE "failed")
    /\ UNCHANGED <<proxy, routine, worker, workerOut, workerIn, toBroker, fromBroker, client,
                   closer, broker, ending, faulted>>

\* ExchangeFilesystem's deferred call: it stops or joins the callback, then
\* closes both processes; an error leaves no response.
EndExchange ==
    /\ relay.step \in {"failed", "ended"}
    /\ closer["canceller"] \in {"armed", "done"}
    /\ closer' = [closer EXCEPT !["canceller"] = "done", !["relay"] = "closing"]
    /\ worker' = IF worker = "running" THEN "killed" ELSE worker
    /\ relay' = [relay EXCEPT !.step = "releasing",
                    !.result = IF relay.step = "failed" \/ "cancelled" \in ending THEN "none" ELSE @]
    /\ UNCHANGED <<proxy, routine, workerOut, workerIn, toBroker, fromBroker, client, broker, ending,
                   faulted>>

ReturnExchange ==
    /\ relay.step = "releasing" /\ closer["relay"] = "done"
    /\ relay' = [relay EXCEPT !.step = "returned",
                              !.result = IF broker.step = "exited" THEN @ ELSE "none"]
    /\ UNCHANGED <<proxy, routine, worker, workerOut, workerIn, toBroker, fromBroker, client, closer,
                   broker, ending, faulted>>

\* The caller cancels, or the execution's deadline passes.
ContextEnds(cause) ==
    /\ relay.step # "returned" /\ cause \notin ending
    /\ ending' = ending \cup {cause}
    /\ UNCHANGED <<proxy, routine, worker, workerOut, workerIn, toBroker, fromBroker, relay, client,
                   closer, broker, faulted>>

RelaySteps ==
    \/ ReadWorker \/ ReadWorkerFails
    \/ ExecuteChecks \/ ExecuteEnters \/ ExecuteAdmits \/ ExecuteSends \/ ExecuteReceives
    \/ ExecuteStops \/ ExecuteReturns
    \/ WaitWorker \/ EndExchange \/ ReturnExchange

CloseSteps(a) == CloseSwaps(a) \/ CloseEnters(a) \/ CloseShutsDown(a)

BrokerSteps == ServeClose \/ \E fails \in BOOLEAN : ServeOperation(fails)

WorkerSteps == EndProgram \/ \E g \in Routines : ReceiveReply(g)

ExchangeOver == relay.step = "returned" /\ UNCHANGED relayVars

RelayNext ==
    \/ \E g \in Routines, request \in Requests : Invoke(g, request)
    \/ WorkerSteps \/ RelaySteps \/ BrokerSteps
    \/ \E a \in {"relay", "canceller"} : CloseSteps(a)
    \/ ExecuteCancelled \/ CancelExchange
    \/ \E cause \in {"cancelled", "expired"} : ContextEnds(cause)
    \/ ExchangeOver

\* Every process and callback runs; neither the caller's cancellation nor the
\* deadline is ever counted on.
RelayFairness ==
    /\ WF_relayVars(RelaySteps) /\ WF_relayVars(BrokerSteps) /\ WF_relayVars(WorkerSteps)
    /\ WF_relayVars(ExecuteCancelled) /\ WF_relayVars(CancelExchange)
    /\ \A a \in {"relay", "canceller"} : WF_relayVars(CloseSteps(a))

RelaySpec == RelayInit /\ [][RelayNext]_relayVars /\ RelayFairness

-----------------------------------------------------------------------------
\* The host reports an error only for a cancellation, a deadline or an
\* operation that failed.  The three ledgers never disagree about a call the
\* proxy let through, and the shutdown after the last call of the quota
\* neither loses its answer nor counts on the deadline: Execute asks the
\* broker to close exactly when the broker still reads.
FailureHasCause ==
    relay.step = "returned" /\ relay.result = "none" => ending # {} \/ faulted

\* A response is returned only after both processes exited by themselves,
\* with every call answered and every reservation released, and it is a
\* success only if no call was refused, whatever the program ignored.
ResponseIsWhole ==
    relay.step = "returned" /\ relay.result # "none" =>
        /\ broker.step = "exited" /\ worker = "exited"
        /\ workerOut = <<>> /\ workerIn = <<>> /\ toBroker = <<>> /\ fromBroker = <<>>
        /\ broker.served = client.nextID - 1 /\ client.nextID = proxy.nextID
        /\ proxy.ledger.outstanding + client.ledger.outstanding + broker.ledger.outstanding = 0
        /\ client.active = "none"
        /\ relay.result = "success" => ~proxy.failed

\* The outcome the host sees is the outcome of the exchange.
ExchangeOutcome == FailureHasCause /\ ResponseIsWhole

\* Once the worker has written a frame the exchange returns: nobody waits for
\* a frame that nobody will write.
ExchangeReturns == (workerOut # <<>> \/ relay.step # "reading") ~> relay.step = "returned"
=============================================================================
