--------------------------- MODULE ProtocolProofs ---------------------------
(***************************************************************************)
(* The inductive invariant of the persistent worker session, for any       *)
(* number of goroutines and submissions, and that every step keeps it: of  *)
(* the goroutines that do not talk to the worker, of the one that does, of *)
(* the opening, the worker and the deadlines.                              *)
(*                                                                         *)
(* The two protocol machines agree because the conversation is half        *)
(* duplex: with a message in flight, its sender's machine is one step      *)
(* ahead of its receiver's, which accepts it (ToHost, ToWorker), and the   *)
(* machine's state follows from the place of the goroutine, or of the      *)
(* worker, that talks (HostPlaces, WorkerPlaces).                          *)
(***************************************************************************)
EXTENDS WorkerSession, TLAPS

\* A machine of a session: no calls are made on it.
Quiet(state, run) == [state |-> state, lastRunID |-> run, lastCallID |-> 0, calls |-> 0,
                      pending |-> {}]

SessionMachines == {Quiet(state, run) : state \in States \ {"failed"}, run \in Nat}

Places == Exchanging \cup {"idle", "claim", "closeClaim", "closeStream", "returned"}

ProtocolTypes ==
    /\ clientClosed \in BOOLEAN /\ clientActive \in BOOLEAN
    /\ hostMachine \in SessionMachines /\ workerMachine \in SessionMachines
    /\ stream \in {"open", "closed"} /\ proc \in {"alive", "clean", "dirty"}
    /\ opening \in {"hello", "configure", "ready", "arm", "open", "failing", "failed"}
    /\ upc \in [Users -> Places]
    /\ outcome \in [Users -> Users \cup Answers]
    /\ executed \in [Users -> 0..1]
    /\ left \in Nat /\ nextID \in Nat /\ identity \in Nat

\* Between exchanges of an open stream the host's machine is idle, below the
\* next identity.
Rested == stream = "open" => hostMachine.state = "idle" /\ hostMachine.lastRunID < nextID

HostAt(state, bound) == hostMachine.state = state /\ hostMachine.lastRunID < bound

\* The places that are only reached after the session was marked closed.
Closing == {"lastWait", "closeClaim", "closeStream", "closeSend", "closeWait", "closeFinish"}

HostFits(place) ==
    /\ place \in {"check", "recheck", "release", "closeSend"} => Rested
    /\ place = "run" => HostAt("idle", nextID)
    /\ place = "awaitCompiled" => HostAt("running", nextID + 1)
    /\ place = "execute" => HostAt("idle", nextID + 1)
    /\ place = "awaitResult" => HostAt("running", nextID + 2)
    /\ place = "settle" => HostAt("idle", nextID + 2)
    /\ place \in Closing => clientClosed

HostPlaces ==
    /\ opening \in {"hello", "configure", "ready", "arm"} =>
          hostMachine = Quiet(CASE opening = "hello" -> "awaitHello"
                                [] opening = "configure" -> "awaitConfigure"
                                [] opening = "ready" -> "awaitReady"
                                [] opening = "arm" -> "idle", 0)
    /\ opening # "open" => /\ upc = [u \in Users |-> "idle"]
                           /\ nextID = 1 /\ left = Submissions /\ ~clientClosed
    /\ opening = "open" /\ (\A u \in Users : upc[u] \notin Exchanging) => Rested
    /\ \A u \in Users : HostFits(upc[u])
    /\ stream = "closed" => /\ proc # "alive" /\ toWorker = <<>> /\ toHost = <<>>
                            /\ opening \in {"open", "failed"}
                            /\ opening = "open" => clientClosed

WorkerPlaces ==
    /\ wpc \in {"hello", "configure", "ready", "serve", "compile", "await", "execute",
                "exit", "fail", "gone"}
    /\ wpc = "hello" => workerMachine = Quiet("awaitHello", 0)
    /\ wpc = "configure" => workerMachine = Quiet("awaitConfigure", 0)
    /\ wpc = "ready" => workerMachine = Quiet("awaitReady", 0)
    /\ wpc \in {"serve", "await"} => workerMachine.state = "idle"
    /\ wpc = "compile" => workerMachine = Quiet("running", identity)
    /\ wpc = "execute" => workerMachine = Quiet("running", identity + 1)
    /\ wpc = "gone" => proc # "alive"

\* What the worker is at work on, while it lives.
WorkerTask ==
    proc = "alive" =>
        /\ wpc = "compile" =>
              work \in Users /\ upc[work] = "awaitCompiled" /\ executed[work] = 0
        /\ wpc = "await" =>
              /\ work \in Users /\ executed[work] = 0
              /\ upc[work] \in {"awaitCompiled", "execute", "failing", "awaitResult"}
        /\ wpc = "execute" =>
              work \in Users /\ upc[work] = "awaitResult" /\ executed[work] = 1
        /\ (\E u \in Users : upc[u] = "execute") => wpc \in {"await", "exit", "fail"}

Hello == Msg("Hello", 0, NoSource, "none")
Ready == Msg("Ready", 0, NoSource, "none")
Configure == Msg("Configure", 0, NoSource, "none")
CloseMsg == Msg("Close", 0, NoSource, "none")

ToHost(m) ==
    /\ toWorker = <<>>
    /\ \/ m = Hello /\ hostMachine = Quiet("awaitHello", 0)
                    /\ workerMachine = Quiet("awaitConfigure", 0)
       \/ m = Ready /\ hostMachine = Quiet("awaitReady", 0) /\ workerMachine = Quiet("idle", 0)
       \/ \E u \in Users, code \in {"compiled", "ok", "evaluation_failed"}, run \in Nat \ {0} :
             /\ m = Msg("Result", run, u, code)
             /\ hostMachine = Quiet("running", run) /\ workerMachine = Quiet("idle", run)
             /\ upc[u] \in {"awaitCompiled", "awaitResult"}
             /\ code = "ok" => executed[u] = 1
             /\ code = "compiled" => upc[u] = "awaitCompiled"
             /\ proc = "alive" => (code = "compiled" <=> wpc = "await")

ToWorker(m) ==
    /\ toHost = <<>>
    /\ \/ m = Configure /\ hostMachine = Quiet("awaitReady", 0)
                        /\ workerMachine = Quiet("awaitConfigure", 0)
       \/ m = CloseMsg /\ \E run \in Nat : /\ hostMachine = Quiet("closed", run)
                                           /\ workerMachine = Quiet("idle", run)
       \/ \E u \in Users, source \in Users \cup {NoSource}, run \in Nat, last \in Nat :
             /\ m = Msg("Run", run, source, "none")
             /\ hostMachine = Quiet("running", run) /\ workerMachine = Quiet("idle", last)
             /\ last < run
             /\ executed[u] = 0
             /\ wpc = "serve" => source = u /\ upc[u] = "awaitCompiled"
             /\ wpc = "await" => work = u /\ upc[u] = "awaitResult"

InFlight ==
    stream = "open" =>
        /\ toHost # <<>> => \E m : toHost = <<m>> /\ ToHost(m)
        /\ proc = "alive" /\ toWorker # <<>> => \E m : toWorker = <<m>> /\ ToWorker(m)
        /\ proc = "alive" /\ toWorker = <<>> /\ toHost = <<>> => hostMachine = workerMachine

\* A goroutine that has taken a submission and not advanced the identity yet.
Spending == {"run", "awaitCompiled", "execute", "awaitResult", "settle"}

\* The identities count the submissions, on both sides.
Counting ==
    /\ \E n \in Nat : /\ nextID = 2 * n + 1 /\ n + left <= Submissions
                      /\ (\E u \in Users : upc[u] \in Spending) => n + left + 1 <= Submissions
    /\ \E n \in Nat : /\ identity = 2 * n + 1 /\ n <= Submissions
                      /\ wpc \notin {"exit", "fail", "gone"} => n < Submissions

\* What a caller has been told so far.
ToldOf(u) ==
    /\ outcome[u] \in {"closed", "error"} => stream = "closed"
    /\ outcome[u] \in Users =>
          /\ outcome[u] = u /\ executed[u] = 1
          /\ upc[u] \in {"settle", "lastWait", "recheck", "failing", "release", "returned"}
    /\ executed[u] = 1 =>
          upc[u] \in {"awaitResult", "settle", "lastWait", "recheck", "failing",
                      "release", "returned"}

Told == \A u \in Users : ToldOf(u)

ProtocolInv ==
    /\ ProtocolTypes /\ SingleExchange /\ HostPlaces /\ WorkerPlaces /\ WorkerTask
    /\ InFlight /\ Counting /\ Told
-----------------------------------------------------------------------------
(* What the machine makes of the messages of a session.                     *)

LEMMA ObserveHandshake ==
    ASSUME NEW run \in Nat
    PROVE  /\ Accepts(Quiet("awaitHello", run), "WorkerToHost", Hello)
           /\ Observe(Quiet("awaitHello", run), "WorkerToHost", Hello)
                 = Quiet("awaitConfigure", run)
           /\ Accepts(Quiet("awaitConfigure", run), "HostToWorker", Configure)
           /\ Observe(Quiet("awaitConfigure", run), "HostToWorker", Configure)
                 = Quiet("awaitReady", run)
           /\ Accepts(Quiet("awaitReady", run), "WorkerToHost", Ready)
           /\ Observe(Quiet("awaitReady", run), "WorkerToHost", Ready) = Quiet("idle", run)
<1> USE DEF Hello, Configure, Ready, Msg, Accepts, ValidMessage, Handshake, ControlKinds, Terminal,
            Quiet
<1>1. Accepts(Quiet("awaitHello", run), "WorkerToHost", Hello)
  OBVIOUS
<1>2. Accepts(Quiet("awaitConfigure", run), "HostToWorker", Configure)
  OBVIOUS
<1>3. Accepts(Quiet("awaitReady", run), "WorkerToHost", Ready)
  OBVIOUS
<1>4. Observe(Quiet("awaitHello", run), "WorkerToHost", Hello) = Quiet("awaitConfigure", run)
  BY <1>1 DEF Observe, Advance, AfterHandshake
<1>5. Observe(Quiet("awaitConfigure", run), "HostToWorker", Configure) = Quiet("awaitReady", run)
  BY <1>2 DEF Observe, Advance, AfterHandshake
<1>6. Observe(Quiet("awaitReady", run), "WorkerToHost", Ready) = Quiet("idle", run)
  BY <1>3 DEF Observe, Advance, AfterHandshake
<1> QED BY <1>1, <1>2, <1>3, <1>4, <1>5, <1>6

LEMMA ObserveRun ==
    ASSUME NEW last \in Nat, NEW run \in Nat, last < run, NEW source, NEW code
    PROVE  /\ Accepts(Quiet("idle", last), "HostToWorker", Msg("Run", run, source, code))
           /\ Observe(Quiet("idle", last), "HostToWorker", Msg("Run", run, source, code))
                 = Quiet("running", run)
<1>1. Accepts(Quiet("idle", last), "HostToWorker", Msg("Run", run, source, code))
  BY DEF Quiet, Msg, Accepts, ValidMessage, AdmitsRun, ControlKinds, Terminal
<1> QED BY <1>1, Zenon DEF Observe, Advance, ControlKinds, Quiet, Msg, Terminal

LEMMA ObserveResult ==
    ASSUME NEW run \in Nat \ {0}, NEW source, NEW code
    PROVE  /\ Accepts(Quiet("running", run), "WorkerToHost", Msg("Result", run, source, code))
           /\ Observe(Quiet("running", run), "WorkerToHost", Msg("Result", run, source, code))
                 = Quiet("idle", run)
<1>1. Accepts(Quiet("running", run), "WorkerToHost", Msg("Result", run, source, code))
  BY DEF Quiet, Msg, Accepts, ValidMessage, AdmitsResult, ControlKinds, Terminal
<1> QED BY <1>1 DEF Observe, Advance, ControlKinds, Quiet, Msg, Terminal

LEMMA ObserveClose ==
    ASSUME NEW state \in States \ {"failed"}, NEW run \in Nat
    PROVE  /\ Observe(Quiet(state, run), "HostToWorker", CloseMsg) = Quiet("closed", run)
           /\ state # "closed" => Accepts(Quiet(state, run), "HostToWorker", CloseMsg)
<1> USE DEF Quiet, CloseMsg, Msg
<1>1. CASE state = "closed"
  BY <1>1 DEF Observe, Terminal
<1>2. CASE state # "closed"
  <2>1. Accepts(Quiet(state, run), "HostToWorker", CloseMsg)
    BY <1>2 DEF Accepts, ValidMessage, AdmitsClose, ControlKinds, Terminal
  <2> QED BY <1>2, <2>1, Zenon DEF Observe, Advance, ControlKinds, Terminal
<1> QED BY <1>1, <1>2

\* A machine of a session is given by its state and last run.
LEMMA MachineShape ==
    ASSUME NEW m \in SessionMachines
    PROVE  /\ m.state \in States \ {"failed"} /\ m.lastRunID \in Nat
           /\ m = Quiet(m.state, m.lastRunID)
  BY DEF SessionMachines, Quiet

LEMMA QuietFields ==
    ASSUME NEW state, NEW run
    PROVE  Quiet(state, run).state = state /\ Quiet(state, run).lastRunID = run
  BY DEF Quiet

LEMMA QuietMachines ==
    ASSUME NEW state \in States \ {"failed"}, NEW run \in Nat
    PROVE  Quiet(state, run) \in SessionMachines
  BY DEF SessionMachines
-----------------------------------------------------------------------------
(* Facts of every state.                                                    *)

\* When it is the host's turn, nothing is in flight.
LEMMA HostTurn ==
    ASSUME ProtocolInv, stream = "open", proc = "alive",
           hostMachine.state \in {"idle", "awaitConfigure"}
    PROVE  toHost = <<>> /\ toWorker = <<>> /\ hostMachine = workerMachine
<1>1. ASSUME NEW m PROVE ~ToHost(m) /\ ~ToWorker(m)
  BY QuietFields DEF ToHost, ToWorker
<1> QED BY <1>1 DEF ProtocolInv, InFlight

\* A message is sent on an empty stream.
LEMMA OneMessage ==
    ASSUME NEW m
    PROVE  Append(<<>>, m) = <<m>>
OBVIOUS

\* When it is the worker's turn, nothing is in flight.
LEMMA WorkerTurn ==
    ASSUME ProtocolInv, proc = "alive",
           workerMachine.state \in {"awaitHello", "awaitReady", "running"}
    PROVE  stream = "open" /\ toHost = <<>> /\ toWorker = <<>> /\ hostMachine = workerMachine
<1>1. ASSUME NEW m PROVE ~ToHost(m) /\ ~ToWorker(m)
  BY QuietFields DEF ToHost, ToWorker
<1>2. stream = "open"
  BY DEF ProtocolInv, ProtocolTypes, HostPlaces
<1> QED BY <1>1, <1>2 DEF ProtocolInv, InFlight

\* While a message is in flight to the host, the host waits for it.
LEMMA HostWaits ==
    ASSUME ProtocolInv, HostReads
    PROVE  /\ stream = "open" /\ \E m : toHost = <<m>> /\ ToHost(m)
           /\ hostMachine.state \in {"awaitHello", "awaitReady", "running"}
<1>1. PICK m : toHost = <<m>> /\ ToHost(m)
  BY DEF ProtocolInv, InFlight, HostReads
<1> QED BY <1>1, QuietFields DEF HostReads, ToHost

\* A message in flight to a worker that lives.
LEMMA WorkerWaits ==
    ASSUME ProtocolInv, proc = "alive", toWorker # <<>>
    PROVE  stream = "open" /\ \E m : toWorker = <<m>> /\ ToWorker(m)
<1>1. stream = "open"
  BY DEF ProtocolInv, ProtocolTypes, HostPlaces
<1> QED BY <1>1 DEF ProtocolInv, InFlight

LEMMA InitProtocolInv == SessionInit => ProtocolInv
<1> SUFFICES ASSUME SessionInit PROVE ProtocolInv
  OBVIOUS
<1> USE DEF SessionInit
<1>1. NewMachine = Quiet("awaitHello", 0) /\ NewMachine \in SessionMachines
  <2>1. NewMachine = Quiet("awaitHello", 0)
    BY DEF NewMachine, Quiet
  <2>2. "awaitHello" \in States \ {"failed"}
    BY DEF States
  <2> QED BY <2>1, <2>2, QuietMachines
<1>2. ProtocolTypes
  <2>1. upc \in [Users -> Places] /\ outcome \in [Users -> Users \cup Answers]
    BY DEF Places, Answers
  <2>2. executed \in [Users -> 0..1] /\ left \in Nat /\ nextID \in Nat /\ identity \in Nat
    BY SessionAssumption
  <2> QED BY <1>1, <2>1, <2>2, Zenon DEF ProtocolTypes
<1>3. SingleExchange
  BY DEF SingleExchange, Exchanging
<1>4. HostPlaces
  BY <1>1 DEF HostPlaces, HostFits, Closing
<1>5. WorkerPlaces
  BY <1>1 DEF WorkerPlaces
<1>6. WorkerTask
  BY DEF WorkerTask
<1>7. InFlight
  BY DEF InFlight
<1>8. Counting
  <2>0. \A u \in Users : upc[u] \notin Spending
    BY DEF Spending
  <2>1. Submissions \in Nat /\ Submissions > 0
    BY SessionAssumption
  <2>2. nextID = 2 * 0 + 1 /\ 0 + left <= Submissions /\ identity = 2 * 0 + 1
    BY <2>1
  <2> QED BY <2>0, <2>1, <2>2 DEF Counting
<1>9. Told
  BY SessionAssumption DEF Told, ToldOf, Answers
<1> QED BY <1>2, <1>3, <1>4, <1>5, <1>6, <1>7, <1>8, <1>9 DEF ProtocolInv
-----------------------------------------------------------------------------
(* Steps of the goroutines that leave the stream alone.                     *)

\* A closed session stays closed.
FlagsStep == clientClosed' \in BOOLEAN /\ clientActive' \in BOOLEAN /\ (clientClosed => clientClosed')

AnswerStep(u) ==
    \/ outcome' = outcome
    \/ \E a \in Answers \ {"closed", "error"} : outcome' = [outcome EXCEPT ![u] = a]

\* Only u is answered.
LEMMA AnswerOf ==
    ASSUME outcome \in [Users -> Users \cup Answers], NEW u \in Users, AnswerStep(u)
    PROVE  \A v \in Users : \/ outcome'[v] = outcome[v]
                            \/ v = u /\ outcome'[v] \in Answers \ {"closed", "error"}
<1>1. CASE outcome' = outcome
  BY <1>1
<1>2. ASSUME NEW a \in Answers \ {"closed", "error"}, outcome' = [outcome EXCEPT ![u] = a]
      PROVE  \A v \in Users : outcome'[v] = outcome[v] \/ (v = u /\ outcome'[v] = a)
  BY <1>2
<1> QED BY <1>1, <1>2 DEF AnswerStep

\* How u may enter and leave the exchange.
LEMMA SingleStep ==
    ASSUME ProtocolInv, NEW u \in Users, NEW q \in Places, GoOn(u, q),
           \/ (upc[u] \in Exchanging <=> q \in Exchanging) /\ clientActive' = clientActive
           \/ upc[u] \in Exchanging /\ q \notin Exchanging /\ clientActive' = FALSE
           \/ upc[u] \notin Exchanging /\ q \in Exchanging /\ ~clientActive /\ clientActive' = TRUE
    PROVE  SingleExchange'
<1>1. upc'[u] = q /\ \A v \in Users \ {u} : upc'[v] = upc[v]
  BY DEF ProtocolInv, ProtocolTypes, GoOn
<1>2. clientActive \in BOOLEAN
  BY DEF ProtocolInv, ProtocolTypes
<1>3. CASE (upc[u] \in Exchanging <=> q \in Exchanging) /\ clientActive' = clientActive
  <2>1. \A v \in Users : upc'[v] \in Exchanging <=> upc[v] \in Exchanging
    BY <1>1, <1>3
  <2> QED BY <1>3, <2>1 DEF ProtocolInv, SingleExchange
<1>4. CASE upc[u] \in Exchanging /\ q \notin Exchanging /\ clientActive' = FALSE
  <2>1. \A v \in Users : upc'[v] \notin Exchanging
    BY <1>1, <1>4 DEF ProtocolInv, SingleExchange
  <2> QED BY <1>4, <2>1 DEF SingleExchange
<1>5. CASE upc[u] \notin Exchanging /\ q \in Exchanging /\ ~clientActive /\ clientActive' = TRUE
  <2>1. \A v \in Users \ {u} : upc'[v] \notin Exchanging
    BY <1>1, <1>5 DEF ProtocolInv, SingleExchange
  <2> QED BY <1>1, <1>5, <2>1 DEF SingleExchange
<1> QED BY <1>3, <1>4, <1>5, Zenon

\* How u may spend submissions and identities.
LEMMA CountStep ==
    ASSUME ProtocolInv, NEW u \in Users, NEW q \in Places, GoOn(u, q),
           UNCHANGED <<identity, wpc>>,
           \/ UNCHANGED <<left, nextID>> /\ (q \in Spending => upc[u] \in Spending)
           \/ left > 0 /\ left' = left - 1 /\ UNCHANGED nextID /\ upc[u] = "check"
           \/ nextID' = nextID + 2 /\ UNCHANGED left /\ upc[u] = "settle" /\ q \notin Spending
    PROVE  Counting' /\ left' \in Nat /\ nextID' \in Nat
<1>1. upc'[u] = q /\ \A v \in Users \ {u} : upc'[v] = upc[v]
  BY DEF ProtocolInv, ProtocolTypes, GoOn
<1>2. PICK n \in Nat : /\ nextID = 2 * n + 1 /\ n + left <= Submissions
                       /\ (\E v \in Users : upc[v] \in Spending) => n + left + 1 <= Submissions
  BY DEF ProtocolInv, Counting
<1>3. left \in Nat /\ Submissions \in Nat /\ nextID \in Nat
  BY SessionAssumption DEF ProtocolInv, ProtocolTypes
<1>4. \E k \in Nat : /\ identity' = 2 * k + 1 /\ k <= Submissions
                     /\ wpc' \notin {"exit", "fail", "gone"} => k < Submissions
  BY DEF ProtocolInv, Counting
<1>5. CASE UNCHANGED <<left, nextID>> /\ (q \in Spending => upc[u] \in Spending)
  <2>1. (\E v \in Users : upc'[v] \in Spending) => n + left + 1 <= Submissions
    BY <1>1, <1>2, <1>5
  <2> QED BY <1>2, <1>3, <1>4, <1>5, <2>1 DEF Counting
<1>6. CASE left > 0 /\ left' = left - 1 /\ UNCHANGED nextID /\ upc[u] = "check"
  <2>1. left' \in Nat /\ n + left' + 1 <= Submissions /\ n + left' <= Submissions
    BY <1>2, <1>3, <1>6
  <2> QED BY <1>2, <1>3, <1>4, <1>6, <2>1 DEF Counting
<1>7. CASE nextID' = nextID + 2 /\ UNCHANGED left /\ upc[u] = "settle" /\ q \notin Spending
  <2>1. n + 1 \in Nat /\ nextID' = 2 * (n + 1) + 1 /\ (n + 1) + left' <= Submissions
    BY <1>2, <1>3, <1>7 DEF Spending
  <2>2. \A v \in Users : upc'[v] \notin Spending
    BY <1>1, <1>7 DEF ProtocolInv, SingleExchange, Exchanging, Spending
  <2>3. \E k \in Nat : /\ nextID' = 2 * k + 1 /\ k + left' <= Submissions
                       /\ (\E v \in Users : upc'[v] \in Spending)
                             => k + left' + 1 <= Submissions
    <3>1. WITNESS n + 1 \in Nat
    <3> QED BY <2>1, <2>2
  <2>4. nextID' \in Nat
    BY <1>3, <1>7
  <2> QED BY <1>3, <1>4, <1>7, <2>3, <2>4 DEF Counting
<1> QED BY <1>5, <1>6, <1>7

\* A goroutine is only at work in a session that was opened.
LEMMA InSession ==
    ASSUME ProtocolInv, NEW u \in Users, upc[u] # "idle"
    PROVE  opening = "open"
  BY DEF ProtocolInv, HostPlaces

\* u goes on to place q.
LEMMA LocalStep ==
    ASSUME ProtocolInv, NEW u \in Users, NEW q \in Places, opening = "open", GoOn(u, q),
           UNCHANGED <<opening, workerVars, wireVars>>, FlagsStep, AnswerStep(u),
           left' \in Nat, nextID' \in Nat, nextID' = nextID \/ upc[u] = "settle",
           SingleExchange', Counting',
           HostFits(q)', upc[u] \in Exchanging /\ q \notin Exchanging => Rested',
           upc[u] \notin {"awaitCompiled", "awaitResult", "failing"},
           q \notin {"awaitCompiled", "awaitResult", "execute"},
           upc[u] = "execute" => q = "failing",
           executed[u] = 1 => q \in {"settle", "lastWait", "recheck", "failing", "release",
                                     "returned"}
    PROVE  ProtocolInv'
<1> USE DEF ProtocolInv, workerVars, wireVars
<1>1. /\ upc' \in [Users -> Places] /\ upc'[u] = q
      /\ \A v \in Users \ {u} : upc'[v] = upc[v]
  BY DEF ProtocolTypes, GoOn
<1>2. outcome' \in [Users -> Users \cup Answers]
  BY DEF ProtocolTypes, AnswerStep
<1>3. ProtocolTypes'
  BY <1>1, <1>2 DEF ProtocolTypes, FlagsStep
<1>4. \A v \in Users \ {u} : HostFits(upc[v])'
  <2> SUFFICES ASSUME NEW v \in Users \ {u} PROVE HostFits(upc[v])'
    OBVIOUS
  <2>1. CASE nextID' = nextID
    BY <1>1, <2>1 DEF HostPlaces, HostFits, HostAt, Rested, FlagsStep
  <2>2. CASE upc[u] = "settle"
    <3>1. upc[v] \notin Exchanging
      BY <2>2 DEF SingleExchange, Exchanging
    <3> QED BY <1>1, <3>1 DEF HostPlaces, HostFits, Exchanging, FlagsStep
  <2> QED BY <2>1, <2>2
<1>5. (\A v \in Users : upc'[v] \notin Exchanging) => Rested'
  <2> SUFFICES ASSUME \A v \in Users : upc'[v] \notin Exchanging PROVE Rested'
    OBVIOUS
  <2>1. CASE upc[u] \in Exchanging
    BY <1>1, <2>1
  <2>2. CASE upc[u] \notin Exchanging
    <3>1. Rested /\ nextID' = nextID
      BY <1>1, <2>2 DEF HostPlaces, Exchanging
    <3> QED BY <3>1 DEF Rested
  <2> QED BY <2>1, <2>2
<1>6. HostPlaces'
  <2>1. \A v \in Users : HostFits(upc[v])'
    <3>1. HostFits(upc[u])'
      BY <1>1
    <3> QED BY <1>4, <3>1
  <2> QED BY <1>5, <2>1 DEF HostPlaces, FlagsStep
<1>7. WorkerPlaces'
  BY ZenonT(30) DEF WorkerPlaces
<1>8. WorkerTask'
  BY <1>1 DEF WorkerTask
<1>9. \A m : ToHost(m) => ToHost(m)'
  BY <1>1 DEF ToHost
<1>10. \A m : ToWorker(m) => ToWorker(m)'
  BY <1>1 DEF ToWorker
<1>11. InFlight'
  BY <1>9, <1>10 DEF InFlight
<1>12. Told'
  <2>1. \A v \in Users : \/ outcome'[v] = outcome[v]
                         \/ v = u /\ outcome'[v] \in Answers \ {"closed", "error"}
    BY AnswerOf DEF ProtocolTypes
  <2>2. outcome[u] \in Users => executed[u] = 1
    BY DEF Told, ToldOf
  <2> QED BY <1>1, <2>1, <2>2, SessionAssumption DEF Told, ToldOf
<1> QED BY <1>3, <1>6, <1>7, <1>8, <1>11, <1>12

LEMMA SubmitBeginsKeeps ==
    ASSUME ProtocolInv, NEW u \in Users,
           SubmitStart(u) \/ SubmitClaim(u) \/ SubmitCheck(u)
    PROVE  ProtocolInv'
<1> USE DEF Exchanging, Places, Spending, Closing, Answers
<1>1. executed[u] = 0 /\ clientActive \in BOOLEAN /\ clientClosed \in BOOLEAN
  BY DEF ProtocolInv, ProtocolTypes, Told, ToldOf, SubmitStart, SubmitClaim, SubmitCheck
<1>2. CASE SubmitStart(u)
  <2>1. PICK q \in {"returned", "claim"} : GoOn(u, q)
    BY <1>2 DEF SubmitStart, EndCall
  <2>2. /\ AnswerStep(u)
        /\ UNCHANGED <<clientClosed, clientActive, nextID, left, opening, workerVars, wireVars>>
        /\ opening = "open" /\ upc[u] = "idle"
    BY <1>2 DEF SubmitStart, EndCall, AnswerStep
  <2>3. SingleExchange' /\ Counting' /\ left' \in Nat /\ nextID' \in Nat
    BY <2>1, <2>2, SingleStep, CountStep, Zenon DEF workerVars
  <2>4. HostFits(q)'
    BY <2>1 DEF HostFits
  <2>5. /\ q \in Places /\ q \notin {"awaitCompiled", "awaitResult", "execute"}
        /\ upc[u] \notin {"awaitCompiled", "awaitResult", "failing", "execute"}
        /\ upc[u] \notin Exchanging
    BY <2>1, <2>2
  <2>6. FlagsStep
    BY <1>1, <2>2 DEF FlagsStep
  <2> HIDE DEF Places, Exchanging, Answers
  <2> QED BY <1>1, <2>1, <2>2, <2>3, <2>4, <2>5, <2>6, LocalStep
<1>3. CASE SubmitClaim(u)
  <2>1. opening = "open" /\ upc[u] = "claim"
    BY <1>3, InSession, ZenonT(30) DEF SubmitClaim
  <2>2. PICK q \in {"returned", "check"} :
            /\ GoOn(u, q)
            /\ q = "check" <=> ~clientActive
    BY <1>1, <1>3 DEF SubmitClaim, EndCall
  <2>3. /\ AnswerStep(u)
        /\ UNCHANGED <<clientClosed, nextID, left, opening, workerVars, wireVars>>
        /\ clientActive' = TRUE
    BY <1>3 DEF SubmitClaim, EndCall, AnswerStep
  <2>4. SingleExchange' /\ Counting' /\ left' \in Nat /\ nextID' \in Nat
    <3>1. CASE q = "check"
      BY <2>1, <2>2, <2>3, <3>1, SingleStep, CountStep, ZenonT(30) DEF workerVars
    <3>2. CASE q = "returned"
      <4>1. clientActive' = clientActive
        BY <1>1, <2>2, <2>3, <3>2
      <4> QED BY <2>1, <2>2, <2>3, <3>2, <4>1, SingleStep, CountStep DEF workerVars
    <3> QED BY <3>1, <3>2
  <2>5. HostFits(q)'
    <3>1. q = "check" => Rested'
      BY <2>1, <2>2, <2>3 DEF ProtocolInv, SingleExchange, HostPlaces, Rested, wireVars
    <3> QED BY <2>2, <3>1 DEF HostFits
  <2>6. /\ q \in Places /\ q \notin {"awaitCompiled", "awaitResult", "execute"}
        /\ upc[u] \notin {"awaitCompiled", "awaitResult", "failing", "execute"}
        /\ upc[u] \notin Exchanging
    BY <2>1, <2>2
  <2>7. FlagsStep
    BY <1>1, <2>3, ZenonT(30) DEF FlagsStep
  <2> HIDE DEF Places, Exchanging, Answers
  <2> QED BY <1>1, <2>1, <2>2, <2>3, <2>4, <2>5, <2>6, <2>7, LocalStep
<1>4. CASE SubmitCheck(u)
  <2>1. opening = "open" /\ upc[u] = "check" /\ HostFits("check")
    BY <1>4, InSession DEF SubmitCheck, ProtocolInv, HostPlaces
  <2>2. PICK q \in {"failing", "run"} :
            /\ GoOn(u, q)
            /\ q = "failing" => left' = left
            /\ q = "run" => ~clientClosed /\ left > 0 /\ left' = left - 1
    BY <1>4 DEF SubmitCheck
  <2>3. UNCHANGED <<clientClosed, clientActive, nextID, outcome, opening, workerVars, wireVars>>
    BY <1>4 DEF SubmitCheck
  <2>4. SingleExchange' /\ Counting' /\ left' \in Nat /\ nextID' \in Nat
    BY <2>1, <2>2, <2>3, SingleStep, CountStep, Zenon DEF workerVars
  <2>5. HostFits(q)'
    <3>1. q = "run" => stream = "open"
      BY <2>1, <2>2 DEF ProtocolInv, HostPlaces, ProtocolTypes
    <3>2. q = "run" => HostAt("idle", nextID)'
      BY <2>1, <2>3, <3>1 DEF HostFits, Rested, HostAt, wireVars
    <3> QED BY <2>2, <3>2 DEF HostFits
  <2>6. /\ q \in Places /\ q \notin {"awaitCompiled", "awaitResult", "execute"}
        /\ upc[u] \notin {"awaitCompiled", "awaitResult", "failing", "execute"}
        /\ q \in Exchanging
    BY <2>1, <2>2
  <2>7. FlagsStep /\ AnswerStep(u)
    BY <1>1, <2>3 DEF FlagsStep, AnswerStep
  <2> HIDE DEF Places, Exchanging, Answers
  <2> QED BY <1>1, <2>1, <2>2, <2>3, <2>4, <2>5, <2>6, <2>7, LocalStep
<1> QED BY <1>2, <1>3, <1>4

LEMMA SubmitEndsKeeps ==
    ASSUME ProtocolInv, NEW u \in Users,
           SubmitSettle(u) \/ SubmitRecheck(u) \/ SubmitRelease(u)
    PROVE  ProtocolInv'
<1> USE DEF Exchanging, Places, Spending, Closing
<1>1. /\ clientActive \in BOOLEAN /\ clientClosed \in BOOLEAN /\ nextID \in Nat
      /\ hostMachine.lastRunID \in Nat
  BY MachineShape DEF ProtocolInv, ProtocolTypes
<1>2. AnswerStep(u) /\ UNCHANGED <<opening, workerVars, wireVars>> /\ opening = "open"
  BY InSession DEF AnswerStep, SubmitSettle, SubmitRecheck, SubmitRelease
<1>3. HostFits(upc[u])
  BY ZenonT(30) DEF ProtocolInv, HostPlaces
<1>4. CASE SubmitSettle(u)
  <2>1. PICK q \in {"failing", "lastWait", "recheck"} :
            GoOn(u, q) /\ (q = "lastWait" => clientClosed')
    BY <1>4, Zenon DEF SubmitSettle
  <2>2. upc[u] = "settle" /\ nextID' = nextID + 2 /\ UNCHANGED <<clientActive, left>>
    BY <1>4 DEF SubmitSettle
  <2>3. FlagsStep
    <3>1. CASE clientClosed' = clientClosed
      BY <1>1, <2>2, <3>1 DEF FlagsStep
    <3>2. CASE clientClosed' = (clientClosed \/ left = 0)
      BY <1>1, <2>2, <3>2 DEF FlagsStep
    <3> QED BY <1>4, <3>1, <3>2 DEF SubmitSettle
  <2>4. SingleExchange' /\ Counting' /\ left' \in Nat /\ nextID' \in Nat
    BY <1>2, <2>1, <2>2, SingleStep, CountStep, Zenon DEF workerVars
  <2>5. HostFits(q)'
    <3>1. hostMachine.state = "idle" /\ hostMachine.lastRunID < nextID'
      BY <1>1, <1>3, <2>2 DEF HostFits, HostAt
    <3>2. hostMachine' = hostMachine
      BY <1>2 DEF wireVars
    <3> QED BY <2>1, <3>1, <3>2 DEF HostFits, Rested
  <2>6. q \in Places /\ q \in Exchanging
    BY <2>1, ZenonT(30)
  <2> HIDE DEF Places, Exchanging
  <2> QED BY <1>2, <2>1, <2>2, <2>3, <2>4, <2>5, <2>6, LocalStep
<1>5. CASE SubmitRecheck(u)
  <2>1. PICK q \in {"failing", "release"} : GoOn(u, q)
    BY <1>5 DEF SubmitRecheck
  <2>2. upc[u] = "recheck" /\ UNCHANGED <<clientClosed, clientActive, nextID, left>>
    BY <1>5 DEF SubmitRecheck
  <2>3. FlagsStep
    BY <1>1, <2>2 DEF FlagsStep
  <2>4. SingleExchange' /\ Counting' /\ left' \in Nat /\ nextID' \in Nat
    BY <1>2, <2>1, <2>2, SingleStep, CountStep, Zenon DEF workerVars
  <2>5. HostFits(q)'
    BY <1>2, <1>3, <2>1, <2>2 DEF HostFits, Rested, wireVars
  <2>6. q \in Places /\ q \in Exchanging
    BY <2>1, ZenonT(30)
  <2> HIDE DEF Places, Exchanging
  <2> QED BY <1>2, <2>1, <2>2, <2>3, <2>4, <2>5, <2>6, LocalStep
<1>6. CASE SubmitRelease(u)
  <2>1. GoOn(u, "returned") /\ upc[u] = "release" /\ clientActive' = FALSE
        /\ UNCHANGED <<clientClosed, nextID, left>>
    BY <1>6 DEF SubmitRelease
  <2>2. FlagsStep
    BY <1>1, <2>1, Zenon DEF FlagsStep
  <2>3. SingleExchange' /\ Counting' /\ left' \in Nat /\ nextID' \in Nat
    BY <1>2, <2>1, SingleStep, CountStep, Zenon DEF workerVars
  <2>4. HostFits("returned")' /\ Rested'
    BY <1>2, <1>3, <2>1 DEF HostFits, Rested, wireVars
  <2>5. "returned" \in Places
    OBVIOUS
  <2> HIDE DEF Places, Exchanging
  <2> QED BY <1>2, <2>1, <2>2, <2>3, <2>4, <2>5, LocalStep
<1> QED BY <1>4, <1>5, <1>6

LEMMA CloseBeginsKeeps ==
    ASSUME ProtocolInv, NEW u \in Users,
           \/ CloseSwap(u) \/ CloseClaim(u) \/ CloseWait(u)
           \/ CloseSend(u) /\ UNCHANGED wireVars /\ GoOn(u, "closeFinish")
    PROVE  ProtocolInv'
<1> USE DEF Exchanging, Places, Spending, Closing
<1>1. clientActive \in BOOLEAN /\ clientClosed \in BOOLEAN
  BY DEF ProtocolInv, ProtocolTypes
<1>2. /\ AnswerStep(u) /\ UNCHANGED <<opening, workerVars, wireVars, nextID, left>>
      /\ opening = "open"
  BY InSession, ZenonT(30) DEF AnswerStep, CloseSwap, CloseClaim, CloseWait, CloseSend
<1>3. executed[u] = 0 /\ upc[u] \in {"idle", "closeClaim", "closeWait", "closeSend"}
  BY DEF ProtocolInv, ProtocolTypes, Told, ToldOf, CloseSwap, CloseClaim, CloseWait, CloseSend
<1>4. CASE CloseSwap(u)
  <2>1. PICK q \in {"closeStream", "closeClaim"} : GoOn(u, q)
    BY <1>4 DEF CloseSwap
  <2>2. upc[u] = "idle" /\ clientClosed' = TRUE /\ clientActive' = clientActive
    BY <1>4 DEF CloseSwap
  <2>3. FlagsStep
    BY <1>1, <2>2 DEF FlagsStep
  <2>4. SingleExchange' /\ Counting' /\ left' \in Nat /\ nextID' \in Nat
    BY <1>2, <2>1, <2>2, SingleStep, CountStep, Zenon DEF workerVars
  <2>5. HostFits(q)'
    BY <2>1, <2>2 DEF HostFits
  <2>6. q \in Places /\ upc[u] \notin Exchanging
    BY <2>1, <2>2, ZenonT(30)
  <2> HIDE DEF Places, Exchanging
  <2> QED BY <1>2, <1>3, <2>1, <2>2, <2>3, <2>4, <2>5, <2>6, LocalStep
<1>5. CASE CloseClaim(u)
  <2>1. PICK q \in {"closeStream", "closeSend"} : GoOn(u, q) /\ (q = "closeSend" <=> ~clientActive)
    BY <1>1, <1>5 DEF CloseClaim
  <2>2. upc[u] = "closeClaim" /\ clientActive' = TRUE /\ clientClosed' = clientClosed
    BY <1>5 DEF CloseClaim
  <2>3. FlagsStep
    BY <1>1, <2>2 DEF FlagsStep
  <2>4. SingleExchange' /\ Counting' /\ left' \in Nat /\ nextID' \in Nat
    <3>1. CASE q = "closeSend"
      BY <1>2, <2>1, <2>2, <3>1, SingleStep, CountStep, ZenonT(30) DEF workerVars
    <3>2. CASE q = "closeStream"
      <4>1. clientActive' = clientActive
        BY <1>1, <2>1, <2>2, <3>2
      <4> QED BY <1>2, <2>1, <2>2, <3>2, <4>1, SingleStep, CountStep DEF workerVars
    <3> QED BY <3>1, <3>2
  <2>5. HostFits(q)'
    <3>1. q = "closeSend" => Rested'
      BY <1>2, <2>1, <2>2 DEF ProtocolInv, SingleExchange, HostPlaces, Rested, wireVars
    <3>2. clientClosed'
      BY <2>2 DEF ProtocolInv, HostPlaces, HostFits
    <3> QED BY <2>1, <3>1, <3>2 DEF HostFits
  <2>6. /\ q \in Places /\ upc[u] \notin Exchanging /\ executed[u] # 1
        /\ upc[u] \notin {"awaitCompiled", "awaitResult", "failing"} /\ upc[u] # "execute"
        /\ q \notin {"awaitCompiled", "awaitResult", "execute"} /\ nextID' = nextID
    BY <1>2, <1>3, <2>1, <2>2
  <2> HIDE DEF Places, Exchanging
  <2> QED BY <1>2, <2>1, <2>3, <2>4, <2>5, <2>6, LocalStep, ZenonT(30)
<1>6. CASE \/ CloseWait(u)
           \/ CloseSend(u) /\ UNCHANGED wireVars /\ GoOn(u, "closeFinish")
  <2>1. GoOn(u, "closeFinish") /\ UNCHANGED <<clientActive, clientClosed>>
        /\ upc[u] \in {"closeWait", "closeSend"}
    BY <1>6 DEF CloseWait, CloseSend
  <2>2. FlagsStep
    BY <1>1, <2>1 DEF FlagsStep
  <2>3. SingleExchange' /\ Counting' /\ left' \in Nat /\ nextID' \in Nat
    BY <1>2, <2>1, SingleStep, CountStep, Zenon DEF workerVars
  <2>4. HostFits("closeFinish")'
    BY <2>1 DEF ProtocolInv, HostPlaces, HostFits
  <2>5. /\ "closeFinish" \in Places /\ "closeFinish" \in Exchanging /\ executed[u] # 1
        /\ upc[u] \notin {"awaitCompiled", "awaitResult", "failing"} /\ upc[u] # "execute"
        /\ nextID' = nextID
    BY <1>2, <1>3
  <2> HIDE DEF Places, Exchanging
  <2> QED BY <1>2, <2>1, <2>2, <2>3, <2>4, <2>5, LocalStep, ZenonT(30)
<1> QED BY <1>4, <1>5, <1>6
-----------------------------------------------------------------------------
(* Steps that close the stream.                                             *)

\* Closing the stream ends the process; u goes on to place q.
LEMMA ClosedStep ==
    ASSUME ProtocolInv, NEW u \in Users, NEW q \in {"failing", "release", "returned"},
           opening = "open", GoOn(u, q), StreamClose, FlagsStep, clientClosed' = TRUE,
           UNCHANGED <<opening, workerVars, nextID, left>>,
           outcome' = outcome \/ \E a \in Answers : outcome' = [outcome EXCEPT ![u] = a],
           SingleExchange', Counting'
    PROVE  ProtocolInv'
<1> USE DEF ProtocolInv, workerVars, StreamClose
<1>1. /\ upc' \in [Users -> Places] /\ upc'[u] = q
      /\ \A v \in Users \ {u} : upc'[v] = upc[v]
  BY DEF ProtocolTypes, GoOn, Places, Exchanging
<1>2. /\ outcome' \in [Users -> Users \cup Answers]
      /\ \A v \in Users : outcome'[v] = outcome[v] \/ (v = u /\ outcome'[v] \in Answers)
  <2>1. CASE outcome' = outcome
    BY <2>1 DEF ProtocolTypes
  <2>2. ASSUME NEW a \in Answers, outcome' = [outcome EXCEPT ![u] = a]
        PROVE  /\ outcome' \in [Users -> Users \cup Answers]
               /\ \A v \in Users : outcome'[v] = outcome[v] \/ (v = u /\ outcome'[v] = a)
    BY <2>2 DEF ProtocolTypes
  <2> QED BY <2>1, <2>2
<1>3. proc' \in {"clean", "dirty"}
  BY ZenonT(30) DEF ProtocolTypes
<1>4. ProtocolTypes'
  BY <1>1, <1>2, <1>3 DEF ProtocolTypes, FlagsStep
<1>5. \A v \in Users : HostFits(upc[v])'
  <2>1. HostFits(upc[u])'
    BY <1>1 DEF HostFits, Rested
  <2>2. ASSUME NEW v \in Users \ {u} PROVE HostFits(upc[v])'
    BY <1>1 DEF HostPlaces, HostFits, Rested, HostAt
  <2> QED BY <2>1, <2>2
<1>6. HostPlaces'
  BY <1>3, <1>5 DEF HostPlaces, Rested
<1>7. WorkerPlaces'
  BY <1>3, ZenonT(30) DEF WorkerPlaces
<1>8. WorkerTask' /\ InFlight'
  BY <1>3, ZenonT(30) DEF WorkerTask, InFlight
<1>9. Told'
  BY <1>1, <1>2, SessionAssumption DEF Told, ToldOf
<1> QED BY <1>4, <1>6, <1>7, <1>8, <1>9, ZenonT(30)

LEMMA ClosersKeep ==
    ASSUME ProtocolInv, NEW u \in Users,
           SubmitLastWait(u) \/ SubmitFail(u) \/ CloseStream(u) \/ CloseFinish(u)
    PROVE  ProtocolInv'
<1> USE DEF Exchanging, Places, Spending, Closing
<1>1. clientActive \in BOOLEAN /\ clientClosed \in BOOLEAN /\ HostFits(upc[u])
  BY DEF ProtocolInv, ProtocolTypes, HostPlaces
<1>2. opening = "open" /\ StreamClose /\ UNCHANGED <<opening, workerVars, nextID, left>>
  BY InSession, ZenonT(30) DEF SubmitLastWait, SubmitFail, CloseStream, CloseFinish
<1>3. clientClosed' = TRUE
  BY <1>1 DEF SubmitLastWait, SubmitFail, CloseStream, CloseFinish, HostFits
<1>4. outcome' = outcome \/ \E a \in Answers : outcome' = [outcome EXCEPT ![u] = a]
  BY DEF SubmitLastWait, SubmitFail, CloseStream, CloseFinish, EndCall, Answers
<1>5. CASE SubmitLastWait(u)
  <2>1. PICK q \in {"failing", "release"} : GoOn(u, q)
    BY <1>5 DEF SubmitLastWait
  <2>2. upc[u] = "lastWait" /\ clientActive' = clientActive
    BY <1>5 DEF SubmitLastWait
  <2>3. SingleExchange' /\ Counting'
    BY <1>2, <2>1, <2>2, SingleStep, CountStep, Zenon DEF workerVars
  <2>4. FlagsStep
    BY <1>1, <1>3, <2>2 DEF FlagsStep
  <2> QED BY <1>2, <1>3, <1>4, <2>1, <2>3, <2>4, ClosedStep
<1>6. CASE SubmitFail(u)
  <2>1. GoOn(u, "release") /\ upc[u] = "failing" /\ clientActive' = clientActive
    BY <1>6 DEF SubmitFail
  <2>2. SingleExchange' /\ Counting'
    BY <1>2, <2>1, SingleStep, CountStep, Zenon DEF workerVars
  <2>3. FlagsStep
    BY <1>1, <1>3, <2>1 DEF FlagsStep
  <2> QED BY <1>2, <1>3, <1>4, <2>1, <2>2, <2>3, ClosedStep
<1>7. CASE CloseStream(u)
  <2>1. GoOn(u, "returned") /\ upc[u] = "closeStream" /\ clientActive' = clientActive
    BY <1>7 DEF CloseStream, EndCall
  <2>2. SingleExchange' /\ Counting'
    BY <1>2, <2>1, SingleStep, CountStep, ZenonT(30) DEF workerVars
  <2>3. FlagsStep
    BY <1>1, <1>3, <2>1 DEF FlagsStep
  <2> QED BY <1>2, <1>3, <1>4, <2>1, <2>2, <2>3, ClosedStep
<1>8. CASE CloseFinish(u)
  <2>1. GoOn(u, "returned") /\ upc[u] = "closeFinish" /\ clientActive' = FALSE
    BY <1>8 DEF CloseFinish, EndCall
  <2>2. SingleExchange' /\ Counting'
    BY <1>2, <2>1, SingleStep, CountStep, Zenon DEF workerVars
  <2>3. FlagsStep
    BY <1>1, <1>3, <2>1, Zenon DEF FlagsStep
  <2> QED BY <1>2, <1>3, <1>4, <2>1, <2>2, <2>3, ClosedStep
<1> QED BY <1>5, <1>6, <1>7, <1>8

-----------------------------------------------------------------------------
(* Steps of the goroutine that talks to the worker.                         *)

\* u, whose turn it is, goes on to place q.
LEMMA TalkStep ==
    ASSUME ProtocolInv, NEW u \in Users, NEW q \in Exchanging, upc[u] \in Exchanging, GoOn(u, q),
           UNCHANGED <<clientClosed, clientActive, nextID, left, opening, workerVars,
                       workerMachine, stream, proc>>,
           hostMachine' \in SessionMachines, HostFits(q)',
           outcome' \in [Users -> Users \cup Answers],
           \A v \in Users \ {u} : outcome'[v] = outcome[v], ToldOf(u)',
           q \in Spending => upc[u] \in Spending,
           stream = "closed" => toWorker' = toWorker /\ toHost' = toHost,
           WorkerTask', InFlight'
    PROVE  ProtocolInv'
<1> USE DEF ProtocolInv, workerVars
<1>1. /\ upc' \in [Users -> Places] /\ upc'[u] = q
      /\ \A v \in Users \ {u} : upc'[v] = upc[v]
  BY ZenonT(30) DEF ProtocolTypes, GoOn, Places
<1>2. q \in Places
  BY DEF Places
<1>3. SingleExchange' /\ Counting'
  BY <1>2, SingleStep, CountStep, Zenon
<1>4. ProtocolTypes'
  BY <1>1 DEF ProtocolTypes
<1>5. \A v \in Users \ {u} : HostFits(upc[v])'
  <2> SUFFICES ASSUME NEW v \in Users \ {u} PROVE HostFits(upc[v])'
    BY ZenonT(30)
  <2>1. upc[v] \notin Exchanging
    BY ZenonT(30) DEF SingleExchange
  <2> QED BY <1>1, <2>1, ZenonT(30) DEF HostPlaces, HostFits, Exchanging
<1>6. HostPlaces'
  <2>1. opening = "open"
    BY InSession, ZenonT(30) DEF Exchanging
  <2>2. HostFits(upc[u])'
    BY <1>1, ZenonT(30)
  <2> QED BY <1>1, <1>5, <2>1, <2>2, ZenonT(30) DEF HostPlaces
<1>7. WorkerPlaces'
  BY ZenonT(30) DEF WorkerPlaces
<1>8. Told'
  <2>1. ASSUME NEW v \in Users \ {u} PROVE ToldOf(v)'
    BY <1>1, ZenonT(30) DEF Told, ToldOf
  <2> QED BY <2>1, ZenonT(30) DEF Told
<1> QED BY <1>3, <1>4, <1>6, <1>7, <1>8, ZenonT(30)

\* What the place of the goroutine that talks says of the worker.
LEMMA Talking ==
    ASSUME ProtocolInv, NEW u \in Users, upc[u] \in Exchanging, proc = "alive",
           wpc \in {"compile", "await", "execute"}
    PROVE  /\ work = u
           /\ wpc = "compile" => upc[u] = "awaitCompiled"
           /\ wpc = "await" => upc[u] \in {"awaitCompiled", "execute", "failing", "awaitResult"}
           /\ wpc = "execute" => upc[u] = "awaitResult"
  BY DEF ProtocolInv, WorkerTask, SingleExchange, Exchanging

LEMMA SubmitSendKeeps ==
    ASSUME ProtocolInv, NEW u \in Users,
           NEW place \in {"run", "execute"}, NEW id \in Nat, NEW source \in Users \cup {NoSource},
           NEW next \in {"awaitCompiled", "awaitResult"},
           \/ place = "run" /\ id = nextID /\ source = u /\ next = "awaitCompiled"
           \/ place = "execute" /\ id = nextID + 1 /\ next = "awaitResult",
           SubmitSend(u, place, id, source, next)
    PROVE  ProtocolInv'
<1> DEFINE msg == Msg("Run", id, source, "none")
           last == hostMachine.lastRunID
<1> USE DEF Exchanging, Places, Spending, Closing
<1>1. /\ upc[u] = place /\ opening = "open"
      /\ UNCHANGED <<clientClosed, clientActive, nextID, left, outcome, opening, workerVars>>
  BY InSession, ZenonT(30) DEF SubmitSend
<1>2. nextID \in Nat /\ clientActive \in BOOLEAN /\ clientClosed \in BOOLEAN
      /\ executed[u] = 0
  BY <1>1 DEF ProtocolInv, ProtocolTypes, Told, ToldOf
<1>3. last \in Nat /\ last < id /\ hostMachine = Quiet("idle", last)
  <2>1. HostFits(place)
    BY <1>1, ZenonT(30) DEF ProtocolInv, HostPlaces
  <2> QED BY <1>2, <2>1, MachineShape DEF ProtocolInv, ProtocolTypes, HostFits, HostAt
<1>4. CASE GoOn(u, "failing") /\ UNCHANGED wireVars
  <2>1. FlagsStep /\ AnswerStep(u)
    BY <1>1, <1>2 DEF FlagsStep, AnswerStep
  <2>2. SingleExchange' /\ Counting' /\ left' \in Nat /\ nextID' \in Nat
    BY <1>1, <1>4, SingleStep, CountStep, Zenon DEF workerVars
  <2>3. HostFits("failing")'
    BY DEF HostFits
  <2>4. "failing" \in Places /\ "failing" \in Exchanging
    OBVIOUS
  <2> HIDE DEF Exchanging, Places
  <2> QED BY <1>1, <1>2, <1>4, <2>1, <2>2, <2>3, <2>4, LocalStep, ZenonT(30)
<1>5. CASE HostSend(msg) /\ GoOn(u, IF SendFails(msg) THEN "failing" ELSE next)
  <2> DEFINE q == IF SendFails(msg) THEN "failing" ELSE next
  <2>1. Accepts(hostMachine, "HostToWorker", msg) /\ hostMachine' = Quiet("running", id)
    BY <1>3, <1>5, ObserveRun DEF HostSend
  <2>2. hostMachine' \in SessionMachines
    BY <2>1, QuietMachines, ZenonT(30) DEF States
  <2>3. HostFits("failing")' /\ HostFits(next)'
    BY <1>1, <1>2, <2>1, QuietFields DEF HostFits, HostAt
  <2>4. ToldOf(u)'
    <3>1. stream' = stream /\ outcome' = outcome /\ executed' = executed
      BY <1>1, <1>5 DEF workerVars, HostSend
    <3>2. outcome[u] \notin Users /\ ToldOf(u)
      BY <1>2 DEF ProtocolInv, Told, ToldOf
    <3> QED BY <1>2, <3>1, <3>2 DEF ToldOf
  <2>5. /\ UNCHANGED <<workerMachine, toHost, stream, proc>>
        /\ toWorker' = IF SendFails(msg) THEN toWorker ELSE Append(toWorker, msg)
    BY <1>5, ZenonT(30) DEF HostSend
  <2>6. /\ upc' \in [Users -> Places] /\ upc'[u] = q
        /\ \A v \in Users \ {u} : upc'[v] = upc[v] /\ upc[v] \notin Exchanging
    BY <1>1, <1>5, ZenonT(30) DEF ProtocolInv, ProtocolTypes, SingleExchange, GoOn
  <2>7. CASE SendFails(msg)
    <3>1. proc # "alive" /\ (stream = "open" => toHost = <<>>)
      <4>1. proc # "alive"
        BY <2>1, <2>7, ZenonT(30) DEF SendFails, ProtocolInv, HostPlaces
      <4> QED BY <1>3, <4>1, HostWaits, QuietFields DEF HostReads
    <3>2. WorkerTask' /\ InFlight'
      BY <2>5, <3>1 DEF WorkerTask, InFlight
    <3>3. q = "failing" /\ toWorker' = toWorker /\ toHost' = toHost
      BY <2>5, <2>7, ZenonT(30)
    <3>4. outcome' \in [Users -> Users \cup Answers] /\ \A v \in Users : outcome'[v] = outcome[v]
      BY <1>1, ZenonT(30) DEF ProtocolInv, ProtocolTypes
    <3>5. GoOn(u, "failing") /\ HostFits("failing")' /\ upc[u] \in Exchanging
          /\ "failing" \in Exchanging /\ "failing" \notin Spending
      BY <1>1, <1>5, <2>3, <2>7, ZenonT(30) DEF GoOn
    <3> HIDE DEF Exchanging, Spending, Places, q
    <3> QED BY <1>1, <2>2, <2>4, <2>5, <3>2, <3>3, <3>4, <3>5, TalkStep, ZenonT(30)
  <2>8. CASE ~SendFails(msg)
    <3>1. stream = "open" /\ proc = "alive"
      BY <2>8 DEF SendFails, ProtocolInv, ProtocolTypes
    <3>2. toHost = <<>> /\ toWorker = <<>> /\ workerMachine = Quiet("idle", last)
      BY <1>3, <3>1, HostTurn, QuietFields
    <3>3. toWorker' = <<msg>> /\ toHost' = <<>>
      BY <2>5, <2>8, <3>2
    <3>4. /\ place = "run" => wpc \notin {"compile", "await", "execute"}
          /\ place = "execute" => wpc \in {"await", "exit", "fail"}
          /\ wpc = "await" => work = u
      <4>1. upc[u] = "execute" => wpc \in {"await", "exit", "fail"}
        BY <3>1 DEF ProtocolInv, WorkerTask
      <4> QED BY <1>1, <3>1, <4>1, Talking, ZenonT(30)
    <3>5. q = next
      BY <2>8, ZenonT(30)
    <3>6. WorkerTask'
      BY <1>1, <1>2, <2>5, <2>6, <3>4, <3>5, ZenonT(30) DEF WorkerTask, workerVars
    <3>7. ToWorker(msg)'
      BY <1>1, <1>2, <1>3, <2>1, <2>5, <2>6, <3>2, <3>3, <3>4, <3>5, ZenonT(30) DEF ToWorker, workerVars
    <3>8. InFlight'
      BY <3>3, <3>7 DEF InFlight
    <3>9. /\ outcome' \in [Users -> Users \cup Answers] /\ \A v \in Users : outcome'[v] = outcome[v]
          /\ stream # "closed"
      BY <1>1, <3>1 DEF ProtocolInv, ProtocolTypes
    <3>10. GoOn(u, next) /\ HostFits(next)' /\ upc[u] \in Exchanging
           /\ next \in Exchanging /\ upc[u] \in Spending
      BY <1>1, <1>5, <2>3, <3>5, Zenon DEF GoOn
    <3> HIDE DEF Exchanging, Spending, Places, q
    <3> QED BY <1>1, <2>2, <2>4, <2>5, <3>6, <3>8, <3>9, <3>10, TalkStep, ZenonT(30)
  <2> QED BY <2>7, <2>8, ZenonT(30)
<1> QED BY <1>4, <1>5 DEF SubmitSend

LEMMA CloseSendKeeps ==
    ASSUME ProtocolInv, NEW u \in Users, CloseSend(u)
    PROVE  ProtocolInv'
<1> USE DEF Exchanging, Places, Spending, Closing
<1>1. /\ upc[u] = "closeSend" /\ opening = "open" /\ clientClosed
      /\ UNCHANGED <<clientClosed, clientActive, nextID, left, outcome, opening, workerVars>>
  BY InSession DEF CloseSend, ProtocolInv, HostPlaces, HostFits
<1>2. CASE GoOn(u, "closeFinish") /\ UNCHANGED wireVars
  BY <1>2, CloseBeginsKeeps
<1>3. CASE HostSend(CloseMsg) /\ GoOn(u, IF SendFails(CloseMsg) THEN "closeFinish" ELSE "closeWait")
  <2>1. PICK state \in States \ {"failed"}, run \in Nat :
            /\ hostMachine = Quiet(state, run)
            /\ stream = "open" => state = "idle"
    <3>1. Rested
      BY <1>1 DEF ProtocolInv, HostPlaces, HostFits
    <3> QED BY <3>1, MachineShape DEF ProtocolInv, ProtocolTypes, Rested
  <2>2. hostMachine' = Quiet("closed", run) /\ hostMachine' \in SessionMachines
    <3>1. hostMachine' = Quiet("closed", run)
      BY <1>3, <2>1, ObserveClose, ZenonT(30) DEF HostSend
    <3> QED BY <3>1, QuietMachines, ZenonT(30) DEF States
  <2>3. HostFits("closeFinish")' /\ HostFits("closeWait")'
    BY <1>1 DEF HostFits
  <2>4. /\ UNCHANGED <<workerMachine, toHost, stream, proc>>
        /\ toWorker' = IF SendFails(CloseMsg) THEN toWorker ELSE Append(toWorker, CloseMsg)
    BY <1>3, ZenonT(30) DEF HostSend
  <2>5. /\ upc' \in [Users -> Places]
        /\ upc'[u] = IF SendFails(CloseMsg) THEN "closeFinish" ELSE "closeWait"
        /\ \A v \in Users \ {u} : upc'[v] = upc[v] /\ upc[v] \notin Exchanging
    BY <1>1, <1>3, ZenonT(30) DEF ProtocolInv, ProtocolTypes, SingleExchange, GoOn
  <2>6. /\ ToldOf(u)' /\ outcome' \in [Users -> Users \cup Answers]
        /\ \A v \in Users : outcome'[v] = outcome[v]
    <3>1. outcome[u] \notin Users /\ ToldOf(u) /\ executed[u] # 1
      BY <1>1 DEF ProtocolInv, Told, ToldOf
    <3>2. executed' = executed /\ outcome' = outcome
      BY <1>1, ZenonT(30) DEF workerVars
    <3> QED BY <2>4, <3>1, <3>2, ZenonT(30) DEF ToldOf, ProtocolInv, ProtocolTypes
  <2>7. CASE SendFails(CloseMsg)
    <3>1. proc # "alive" /\ (stream = "open" => toHost = <<>>)
      <4>1. stream = "open" => Accepts(hostMachine, "HostToWorker", CloseMsg)
        BY <2>1, ObserveClose
      <4>2. proc # "alive"
        BY <2>7, <4>1, ZenonT(30) DEF SendFails, ProtocolInv, ProtocolTypes, HostPlaces
      <4> QED BY <2>1, <4>2, HostWaits, QuietFields DEF HostReads
    <3>2. WorkerTask' /\ InFlight'
      BY <2>4, <3>1 DEF WorkerTask, InFlight
    <3>3. toWorker' = toWorker /\ toHost' = toHost
      BY <2>4, <2>7
    <3>4. GoOn(u, "closeFinish") /\ upc[u] \in Exchanging
          /\ "closeFinish" \in Exchanging /\ "closeFinish" \notin Spending
      BY <1>1, <1>3, <2>7, ZenonT(30) DEF GoOn
    <3> HIDE DEF Exchanging, Spending, Places
    <3> QED BY <1>1, <2>2, <2>3, <2>4, <2>6, <3>2, <3>3, <3>4, TalkStep
  <2>8. CASE ~SendFails(CloseMsg)
    <3>1. stream = "open" /\ proc = "alive"
      BY <2>8 DEF SendFails, ProtocolInv, ProtocolTypes
    <3>2. toHost = <<>> /\ toWorker = <<>> /\ workerMachine = Quiet("idle", run)
      BY <2>1, <3>1, HostTurn, QuietFields
    <3>3. toWorker' = <<CloseMsg>> /\ toHost' = <<>>
      BY <2>4, <2>8, <3>2
    <3>4. wpc \notin {"compile", "await", "execute"}
      BY <1>1, <3>1, Talking, ZenonT(30)
    <3>5. WorkerTask'
      BY <1>1, <2>4, <2>5, <2>8, <3>4, ZenonT(30) DEF WorkerTask, workerVars
    <3>6. ToWorker(CloseMsg)'
      BY <2>2, <2>4, <3>2, <3>3 DEF ToWorker
    <3>7. InFlight'
      BY <3>3, <3>6, ZenonT(30) DEF InFlight
    <3>8. GoOn(u, "closeWait") /\ upc[u] \in Exchanging /\ stream # "closed"
          /\ "closeWait" \in Exchanging /\ "closeWait" \notin Spending
      BY <1>1, <1>3, <2>8, <3>1 DEF GoOn
    <3> HIDE DEF Exchanging, Spending, Places
    <3> QED BY <1>1, <2>2, <2>3, <2>4, <2>6, <3>5, <3>7, <3>8, TalkStep, ZenonT(30)
  <2> QED BY <2>7, <2>8
<1> QED BY <1>2, <1>3 DEF CloseSend, CloseMsg

\* The result that u waits for, or the end of the stream.
LEMMA AwaitKeeps ==
    ASSUME ProtocolInv, NEW u \in Users, AwaitCompiled(u) \/ AwaitResult(u)
    PROVE  ProtocolInv'
<1> USE DEF Exchanging, Places, Spending, Closing
<1>1. /\ upc[u] \in {"awaitCompiled", "awaitResult"} /\ HostReceive
      /\ UNCHANGED <<clientClosed, clientActive, nextID, left, opening, workerVars>>
      /\ UNCHANGED <<workerMachine, toWorker, stream, proc>>
  BY DEF AwaitCompiled, AwaitResult, HostReceive
<1>2. /\ HostFits(upc[u]) /\ outcome[u] \notin Users /\ ToldOf(u) /\ nextID \in Nat
      /\ outcome \in [Users -> Users \cup Answers]
  BY <1>1, ZenonT(30) DEF ProtocolInv, ProtocolTypes, HostPlaces, Told, ToldOf
<1>3. hostMachine.state = "running"
  BY <1>1, <1>2, ZenonT(30) DEF HostFits, HostAt
<1>4. CASE ~HostReads
  <2>1. ReceiveFails("Result") /\ UNCHANGED <<hostMachine, toHost>> /\ (stream = "closed" \/ proc # "alive")
    BY <1>1, <1>4 DEF HostReceive, ReceiveFails
  <2>2. GoOn(u, "failing") /\ outcome' = outcome
    BY <2>1 DEF AwaitCompiled, AwaitResult
  <2>3. proc # "alive" /\ (stream = "open" => toHost = <<>>)
    BY <1>4, <2>1, ZenonT(30) DEF HostReads, ProtocolInv, HostPlaces
  <2>4. WorkerTask' /\ InFlight'
    BY <1>1, <2>1, <2>3 DEF WorkerTask, InFlight
  <2>5. upc'[u] = "failing"
    BY <2>2, ZenonT(30) DEF ProtocolInv, ProtocolTypes, GoOn
  <2>6. ToldOf(u)' /\ HostFits("failing")'
    <3>1. executed' = executed /\ stream' = stream
      BY <1>1, ZenonT(30) DEF workerVars
    <3> QED BY <1>2, <2>2, <2>5, <3>1 DEF ToldOf, HostFits
  <2>7. upc[u] \in Exchanging /\ "failing" \in Exchanging /\ "failing" \notin Spending
        /\ hostMachine' \in SessionMachines
        /\ outcome' \in [Users -> Users \cup Answers] /\ \A v \in Users : outcome'[v] = outcome[v]
    BY <1>1, <1>2, <2>1, <2>2, ZenonT(30) DEF ProtocolInv, ProtocolTypes
  <2> HIDE DEF Exchanging, Spending, Places
  <2> QED BY <1>1, <2>1, <2>2, <2>4, <2>6, <2>7, TalkStep, ZenonT(30)
<1>5. CASE HostReads
  <2>1. PICK m : toHost = <<m>> /\ ToHost(m) /\ stream = "open"
    BY <1>5, HostWaits, ZenonT(30)
  <2>2. PICK v \in Users, code \in {"compiled", "ok", "evaluation_failed"}, run \in Nat \ {0} :
             /\ m = Msg("Result", run, v, code)
             /\ hostMachine = Quiet("running", run) /\ workerMachine = Quiet("idle", run)
             /\ upc[v] \in {"awaitCompiled", "awaitResult"}
             /\ code = "ok" => executed[v] = 1
             /\ code = "compiled" => upc[v] = "awaitCompiled"
             /\ proc = "alive" => (code = "compiled" <=> wpc = "await")
    BY <1>3, <2>1, QuietFields DEF ToHost
  <2>3. v = u
    BY <1>1, <2>2, ZenonT(30) DEF ProtocolInv, SingleExchange
  <2>4. /\ Accepts(hostMachine, "WorkerToHost", m) /\ hostMachine' = Quiet("idle", run)
        /\ toHost' = <<>> /\ Head(toHost) = m /\ toWorker = <<>>
    <3>1. /\ Accepts(hostMachine, "WorkerToHost", m)
          /\ Observe(hostMachine, "WorkerToHost", m) = Quiet("idle", run)
      BY <2>2, ObserveResult, Zenon
    <3>2. Head(<<m>>) = m /\ Tail(<<m>>) = <<>>
      OBVIOUS
    <3>3. /\ hostMachine' = Observe(hostMachine, "WorkerToHost", Head(toHost))
          /\ toHost' = Tail(toHost) /\ toWorker = <<>>
      BY <1>1, <1>5, <2>1, Zenon DEF HostReceive, ToHost
    <3> QED BY <2>1, <3>1, <3>2, <3>3, Zenon
  <2>5. ~ReceiveFails("Result") /\ m.code = code /\ m.source = u
    <3>1. m.kind = "Result" /\ m.code = code /\ m.source = v
      BY <2>2 DEF Msg
    <3> QED BY <1>5, <2>3, <2>4, <3>1, ZenonT(30) DEF ReceiveFails
  <2>6. PICK q \in {"execute", "settle"} :
            /\ GoOn(u, q)
            /\ q = "execute" <=> upc[u] = "awaitCompiled" /\ code = "compiled"
            /\ \/ outcome' = outcome
               \/ outcome' = [outcome EXCEPT ![u] = "evaluation_failed"]
               \/ outcome' = [outcome EXCEPT ![u] = u] /\ code = "ok" /\ q = "settle"
    BY <2>4, <2>5 DEF AwaitCompiled, AwaitResult
  <2>7. /\ outcome' \in [Users -> Users \cup Answers]
        /\ \A x \in Users \ {u} : outcome'[x] = outcome[x]
        /\ outcome'[u] \in {outcome[u], "evaluation_failed", u}
        /\ outcome'[u] = u => code = "ok" /\ q = "settle"
    BY <1>2, <2>6, SessionAssumption DEF Answers
  <2>8. /\ upc' \in [Users -> Places] /\ upc'[u] = q
        /\ \A x \in Users \ {u} : upc'[x] = upc[x] /\ upc[x] \notin Exchanging
    BY <1>1, <2>6 DEF ProtocolInv, ProtocolTypes, SingleExchange, GoOn
  <2>9. hostMachine' \in SessionMachines
    BY <2>4, QuietMachines, ZenonT(30) DEF States
  <2>10. HostFits(q)'
    BY <1>1, <1>2, <2>2, <2>4, <2>6, QuietFields DEF HostFits, HostAt
  <2>11. ToldOf(u)'
    <3>1. executed' = executed /\ stream' = stream
      BY <1>1, ZenonT(30) DEF workerVars
    <3>2. outcome'[u] \in Users => outcome'[u] = u
      BY <1>2, <2>7, SessionAssumption, ZenonT(30) DEF Answers
    <3>3. outcome'[u] \notin {"closed", "error"}
      BY <1>2, <2>1, <2>7, SessionAssumption, ZenonT(30) DEF ToldOf, Answers
    <3> QED BY <1>2, <2>2, <2>3, <2>6, <2>7, <2>8, <3>1, <3>2, <3>3, ZenonT(30) DEF ToldOf
  <2>12. proc = "alive" => wpc \notin {"compile", "execute"}
    <3>1. workerMachine.state = "idle"
      BY <2>2, QuietFields, ZenonT(30)
    <3>2. WorkerPlaces
      BY ZenonT(30) DEF ProtocolInv
    <3>3. wpc = "compile" \/ wpc = "execute" => workerMachine.state = "running"
      BY <3>2, QuietFields DEF WorkerPlaces
    <3> QED BY <3>1, <3>3, Zenon
  <2>13. WorkerTask'
    <3>1. executed[u] = 1 => upc[u] # "awaitCompiled"
      BY <1>2, ZenonT(30) DEF ToldOf
    <3>2. proc = "alive" /\ wpc = "await" => work = u /\ executed[u] = 0 /\ q = "execute"
      BY <1>1, <2>2, <2>3, <2>6, Talking, ZenonT(30) DEF ProtocolInv, WorkerTask
    <3> QED BY <1>1, <2>2, <2>3, <2>6, <2>8, <2>12, <3>2, ZenonT(30) DEF WorkerTask, workerVars
  <2>14. InFlight'
    BY <1>1, <2>2, <2>4, ZenonT(30) DEF InFlight
  <2>15. upc[u] \in Exchanging /\ q \in Exchanging /\ upc[u] \in Spending /\ stream # "closed"
    BY <1>1, <2>1
  <2> HIDE DEF Exchanging, Spending, Places
  <2> QED BY <1>1, <2>6, <2>7, <2>9, <2>10, <2>11, <2>13, <2>14, <2>15, TalkStep, ZenonT(30)
<1> QED BY <1>4, <1>5
-----------------------------------------------------------------------------
(* The opening of the session.                                              *)

\* Before the session is open only the opening goroutine moves.
LEMMA OpenStep ==
    ASSUME ProtocolInv, opening # "open",
           opening' \in {"configure", "ready", "arm", "open", "failing", "failed"},
           UNCHANGED <<clientClosed, clientActive, nextID, left, upc, outcome, workerVars,
                       workerMachine>>,
           UNCHANGED <<stream, proc>> \/ StreamClose,
           hostMachine' \in SessionMachines, HostPlaces', InFlight'
    PROVE  ProtocolInv'
<1> USE DEF ProtocolInv, workerVars
<1>1. /\ stream' \in {"open", "closed"} /\ proc' \in {"alive", "clean", "dirty"}
      /\ (proc' = "alive" => proc = "alive") /\ (stream = "closed" => stream' = "closed")
  BY ZenonT(30) DEF ProtocolTypes, StreamClose
<1>2. ProtocolTypes'
  BY <1>1, ZenonT(30) DEF ProtocolTypes
<1>3. SingleExchange'
  BY ZenonT(30) DEF SingleExchange
<1>4. WorkerPlaces'
  BY <1>1, ZenonT(30) DEF WorkerPlaces
<1>5. WorkerTask'
  BY <1>1, ZenonT(30) DEF WorkerTask
<1>6. Counting'
  BY DEF Counting
<1>7. Told'
  BY <1>1 DEF Told, ToldOf
<1> QED BY <1>2, <1>3, <1>4, <1>5, <1>6, <1>7, ZenonT(30)

LEMMA OpenReceiveKeeps ==
    ASSUME ProtocolInv,
           \/ OpenReceive("Hello", "hello", "configure")
           \/ OpenReceive("Ready", "ready", "arm")
    PROVE  ProtocolInv'
<1>1. /\ HostReceive /\ opening \in {"hello", "ready"}
      /\ UNCHANGED <<clientClosed, clientActive, nextID, left, upc, outcome, workerVars>>
      /\ UNCHANGED <<workerMachine, toWorker, stream, proc>>
  BY DEF OpenReceive, HostReceive
<1>2. /\ upc = [u \in Users |-> "idle"] /\ nextID = 1 /\ left = Submissions /\ ~clientClosed
      /\ stream = "open" /\ hostMachine \in SessionMachines
  BY <1>1 DEF ProtocolInv, ProtocolTypes, HostPlaces
<1>3. \A u \in Users : HostFits(upc[u])'
  BY <1>1, <1>2, ZenonT(30) DEF HostFits, Closing
<1>4. CASE ~HostReads
  <2>1. UNCHANGED <<hostMachine, toHost>> /\ opening' = "failing"
    BY <1>1, <1>4 DEF HostReceive, OpenReceive, ReceiveFails
  <2>2. HostPlaces'
    BY <1>1, <1>2, <1>3, <2>1 DEF HostPlaces
  <2>3. toHost = <<>> /\ proc # "alive"
    BY <1>1, <1>2, <1>4, ZenonT(30) DEF HostReads, HostReceive
  <2>4. InFlight'
    BY <1>1, <2>1, <2>3 DEF InFlight
  <2> QED BY <1>1, <1>2, <2>1, <2>2, <2>4, OpenStep, ZenonT(30)
<1>5. CASE HostReads
  <2>1. PICK m : toHost = <<m>> /\ ToHost(m)
    BY <1>5, HostWaits, ZenonT(30)
  <2>2. toWorker = <<>> /\ Head(toHost) = m /\ Tail(toHost) = <<>>
    BY <2>1 DEF ToHost
  <2>3. CASE opening = "hello"
    <3>1. hostMachine = Quiet("awaitHello", 0) /\ m = Hello /\ workerMachine = Quiet("awaitConfigure", 0)
      BY <2>1, <2>3, QuietFields DEF ProtocolInv, HostPlaces, ToHost
    <3>2. /\ hostMachine' = Quiet("awaitConfigure", 0) /\ toHost' = <<>>
          /\ Accepts(hostMachine, "WorkerToHost", m) /\ m.kind = "Hello"
      <4>1. Hello.kind = "Hello"
        BY ZenonT(30) DEF Hello, Msg
      <4> QED BY <1>1, <1>5, <2>2, <3>1, <4>1, ObserveHandshake, Zenon DEF HostReceive
    <3>3. opening' = "configure"
      BY <1>5, <2>2, <2>3, <3>2 DEF OpenReceive, ReceiveFails
    <3>4. HostPlaces'
      BY <1>1, <1>2, <1>3, <3>2, <3>3, ZenonT(30) DEF HostPlaces
    <3>5. InFlight'
      BY <1>1, <2>2, <3>1, <3>2 DEF InFlight
    <3>6. hostMachine' \in SessionMachines
      BY <3>2, QuietMachines, ZenonT(30) DEF States
    <3> QED BY <1>1, <2>3, <3>3, <3>4, <3>5, <3>6, OpenStep
  <2>4. CASE opening = "ready"
    <3>1. hostMachine = Quiet("awaitReady", 0) /\ m = Ready /\ workerMachine = Quiet("idle", 0)
      BY <2>1, <2>4, QuietFields DEF ProtocolInv, HostPlaces, ToHost
    <3>2. /\ hostMachine' = Quiet("idle", 0) /\ toHost' = <<>>
          /\ Accepts(hostMachine, "WorkerToHost", m) /\ m.kind = "Ready"
      <4>1. Ready.kind = "Ready"
        BY ZenonT(30) DEF Ready, Msg
      <4> QED BY <1>1, <1>5, <2>2, <3>1, <4>1, ObserveHandshake, Zenon DEF HostReceive
    <3>3. opening' = "arm"
      BY <1>5, <2>2, <2>4, <3>2 DEF OpenReceive, ReceiveFails
    <3>4. HostPlaces'
      BY <1>1, <1>2, <1>3, <3>2, <3>3, ZenonT(30) DEF HostPlaces
    <3>5. InFlight'
      BY <1>1, <2>2, <3>1, <3>2 DEF InFlight
    <3>6. hostMachine' \in SessionMachines
      BY <3>2, QuietMachines, ZenonT(30) DEF States
    <3> QED BY <1>1, <2>4, <3>3, <3>4, <3>5, <3>6, OpenStep
  <2> QED BY <1>1, <2>3, <2>4
<1> QED BY <1>4, <1>5, ZenonT(30)

LEMMA OpenConfigureKeeps ==
    ASSUME ProtocolInv, OpenConfigure
    PROVE  ProtocolInv'
<1>1. /\ HostSend(Configure) /\ opening = "configure"
      /\ opening' = IF SendFails(Configure) THEN "failing" ELSE "ready"
      /\ UNCHANGED <<clientClosed, clientActive, nextID, left, upc, outcome, workerVars>>
  BY DEF OpenConfigure, Configure
<1>2. /\ upc = [u \in Users |-> "idle"] /\ nextID = 1 /\ left = Submissions /\ ~clientClosed
      /\ stream = "open" /\ hostMachine = Quiet("awaitConfigure", 0)
  BY <1>1, ZenonT(30) DEF ProtocolInv, ProtocolTypes, HostPlaces
<1>3. /\ hostMachine' = Quiet("awaitReady", 0) /\ Accepts(hostMachine, "HostToWorker", Configure)
      /\ UNCHANGED <<workerMachine, toHost, stream, proc>>
  BY <1>1, <1>2, ObserveHandshake, ZenonT(30) DEF HostSend
<1>4. \A u \in Users : HostFits(upc[u])'
  BY <1>1, <1>2 DEF HostFits, Closing
<1>5. HostPlaces'
  BY <1>1, <1>2, <1>3, <1>4 DEF HostPlaces
<1>6. InFlight'
  <2>1. CASE SendFails(Configure)
    <3>1. proc # "alive" /\ toHost = <<>>
      BY <1>2, <1>3, <2>1, HostWaits, QuietFields DEF SendFails, HostReads
    <3> QED BY <1>3, <3>1, ZenonT(30) DEF InFlight
  <2>2. CASE ~SendFails(Configure)
    <3>1. toHost = <<>> /\ toWorker = <<>> /\ workerMachine = Quiet("awaitConfigure", 0)
      BY <1>2, <2>2, HostTurn, QuietFields, ZenonT(30) DEF SendFails
    <3>2. toWorker' = <<Configure>> /\ toHost' = <<>>
      BY <1>1, <1>3, <2>2, <3>1 DEF HostSend
    <3>3. ToWorker(Configure)'
      BY <1>3, <3>1, <3>2 DEF ToWorker
    <3> QED BY <3>2, <3>3, ZenonT(30) DEF InFlight
  <2> QED BY <2>1, <2>2
<1>7. hostMachine' \in SessionMachines
  BY <1>3, QuietMachines DEF States
<1>8. opening' \in {"failing", "ready"}
  BY <1>1
<1> QED BY <1>1, <1>3, <1>5, <1>6, <1>7, <1>8, OpenStep, ZenonT(30)

LEMMA OpenEndsKeeps ==
    ASSUME ProtocolInv, OpenArm \/ OpenFails
    PROVE  ProtocolInv'
<1>1. UNCHANGED <<clientClosed, clientActive, nextID, left, upc, outcome, workerVars,
                  workerMachine, hostMachine>>
  BY DEF OpenArm, OpenFails, wireVars, StreamClose
<1>2. /\ upc = [u \in Users |-> "idle"] /\ nextID = 1 /\ left = Submissions /\ ~clientClosed
      /\ stream = "open" /\ hostMachine \in SessionMachines
  BY ZenonT(30) DEF ProtocolInv, ProtocolTypes, HostPlaces, OpenArm, OpenFails
<1>3. \A u \in Users : HostFits(upc[u])'
  BY <1>1, <1>2, ZenonT(30) DEF HostFits, Closing
<1>4. CASE OpenArm
  <2>1. opening = "arm" /\ opening' \in {"open", "failing"} /\ UNCHANGED wireVars
    BY <1>4 DEF OpenArm
  <2>2. Rested'
    BY <1>1, <1>2, <2>1, QuietFields DEF Rested, ProtocolInv, HostPlaces
  <2>3. HostPlaces'
    BY <1>1, <1>2, <1>3, <2>1, <2>2, ZenonT(30) DEF HostPlaces, wireVars
  <2>4. InFlight'
    <3>1. UNCHANGED <<toHost, toWorker, hostMachine, workerMachine, upc, executed, proc, wpc, work>>
      BY <1>1, <2>1, ZenonT(30) DEF wireVars, workerVars
    <3>2. ASSUME NEW m, ToHost(m) PROVE ToHost(m)'
      BY <3>1, <3>2, ZenonT(30) DEF ToHost
    <3>3. ASSUME NEW m, ToWorker(m) PROVE ToWorker(m)'
      BY <3>1, <3>3, ZenonT(30) DEF ToWorker
    <3> QED BY <2>1, <3>2, <3>3, ZenonT(30) DEF ProtocolInv, InFlight, wireVars
  <2> QED BY <1>1, <1>2, <2>1, <2>3, <2>4, OpenStep, ZenonT(30) DEF wireVars
<1>5. CASE OpenFails
  <2>1. opening = "failing" /\ opening' = "failed" /\ StreamClose
    BY <1>5 DEF OpenFails
  <2>2. HostPlaces'
    BY <1>1, <1>2, <1>3, <2>1 DEF HostPlaces, StreamClose, ProtocolInv, ProtocolTypes
  <2>3. InFlight'
    BY <2>1 DEF InFlight, StreamClose
  <2> QED BY <1>1, <1>2, <2>1, <2>2, <2>3, OpenStep
<1> QED BY <1>4, <1>5, ZenonT(30)
-----------------------------------------------------------------------------
(* The worker.                                                              *)

\* A step of the living worker leaves the host as it is.
LEMMA WorkerMoves ==
    ASSUME ProtocolInv, proc = "alive", UNCHANGED <<hostVars, hostMachine, stream>>,
           workerMachine' \in SessionMachines, proc' \in {"alive", "clean", "dirty"},
           identity' \in Nat, executed' \in [Users -> 0..1],
           WorkerPlaces', WorkerTask', InFlight', Counting', Told'
    PROVE  ProtocolInv'
<1> USE DEF ProtocolInv, hostVars
<1>1. stream = "open"
  BY DEF ProtocolTypes, HostPlaces
<1>2. ProtocolTypes'
  BY DEF ProtocolTypes
<1>3. SingleExchange'
  BY DEF SingleExchange
<1>4. \A u \in Users : HostFits(upc[u])'
  BY DEF HostPlaces, HostFits, HostAt, Rested
<1>5. HostPlaces'
  BY <1>1, <1>4 DEF HostPlaces, Rested
<1> QED BY <1>2, <1>3, <1>5

\* The identity of the worker's loop.
LEMMA WorkerCount ==
    ASSUME ProtocolInv, UNCHANGED hostVars,
           \/ /\ UNCHANGED identity
              /\ wpc' \notin {"exit", "fail", "gone"} => wpc \notin {"exit", "fail", "gone"}
           \/ /\ wpc = "execute" /\ identity' = identity + 2
              /\ wpc' = IF identity + 2 <= 2 * Submissions THEN "serve" ELSE "exit"
    PROVE  Counting' /\ identity' \in Nat /\ identity \in Nat \ {0}
<1> USE DEF hostVars
<1>1. PICK n \in Nat : /\ identity = 2 * n + 1 /\ n <= Submissions
                       /\ wpc \notin {"exit", "fail", "gone"} => n < Submissions
  BY ZenonT(30) DEF ProtocolInv, Counting
<1>2. \E k \in Nat : /\ nextID' = 2 * k + 1 /\ k + left' <= Submissions
                     /\ (\E u \in Users : upc'[u] \in Spending) => k + left' + 1 <= Submissions
  BY DEF ProtocolInv, Counting
<1>3. Submissions \in Nat
  BY SessionAssumption, ZenonT(30)
<1>4. CASE /\ UNCHANGED identity
           /\ wpc' \notin {"exit", "fail", "gone"} => wpc \notin {"exit", "fail", "gone"}
  BY <1>1, <1>2, <1>4 DEF Counting
<1>5. CASE /\ wpc = "execute" /\ identity' = identity + 2
           /\ wpc' = IF identity + 2 <= 2 * Submissions THEN "serve" ELSE "exit"
  <2>1. /\ n + 1 \in Nat /\ identity' = 2 * (n + 1) + 1 /\ n + 1 <= Submissions
        /\ identity + 2 <= 2 * Submissions => n + 1 < Submissions
    BY <1>1, <1>3, <1>5
  <2>2. \E k \in Nat : /\ identity' = 2 * k + 1 /\ k <= Submissions
                       /\ wpc' \notin {"exit", "fail", "gone"} => k < Submissions
    <3>1. WITNESS n + 1 \in Nat
    <3> QED BY <1>5, <2>1
  <2> QED BY <1>1, <1>2, <1>5, <2>1, <2>2 DEF Counting
<1> QED BY <1>4, <1>5, ZenonT(30)

LEMMA WorkerHandshakeKeeps ==
    ASSUME ProtocolInv, proc = "alive", UNCHANGED hostVars,
           WorkerHello \/ WorkerConfigure \/ WorkerReady
    PROVE  ProtocolInv'
<1>1. /\ UNCHANGED <<identity, work, executed, hostMachine, stream, proc>>
      /\ executed \in [Users -> 0..1]
      /\ wpc \in {"hello", "configure", "ready"}
  BY DEF WorkerHello, WorkerConfigure, WorkerReady, WorkerSend, WorkerReceive, ProtocolInv, ProtocolTypes
<1>2. Counting' /\ identity' \in Nat
  BY <1>1, WorkerCount, ZenonT(30)
<1>3. Told'
  BY <1>1, ZenonT(30) DEF ProtocolInv, Told, ToldOf, hostVars
<1>4. \A u \in Users : upc[u] # "execute"
  BY <1>1, ZenonT(30) DEF ProtocolInv, WorkerTask
<1>5. ASSUME NEW state \in {"awaitConfigure", "awaitReady", "idle"},
             workerMachine' = Quiet(state, 0),
             wpc' \in {"configure", "ready", "serve", "fail"},
             /\ wpc' = "configure" => state = "awaitConfigure"
             /\ wpc' = "ready" => state = "awaitReady"
             /\ wpc' = "serve" => state = "idle",
             InFlight'
      PROVE  ProtocolInv'
  <2>1. workerMachine' \in SessionMachines
    BY <1>5, QuietMachines, ZenonT(30) DEF States
  <2>2. WorkerPlaces'
    BY <1>5, QuietFields, ZenonT(30) DEF WorkerPlaces
  <2>3. WorkerTask'
    BY <1>1, <1>4, <1>5 DEF WorkerTask, hostVars
  <2> QED BY <1>1, <1>2, <1>3, <1>5, <2>1, <2>2, <2>3, WorkerMoves, ZenonT(30)
<1>6. CASE WorkerHello
  <2>1. workerMachine = Quiet("awaitHello", 0) /\ WorkerSend(Hello, "configure")
    BY <1>6 DEF WorkerHello, Hello, ProtocolInv, WorkerPlaces
  <2>2. toHost = <<>> /\ toWorker = <<>> /\ hostMachine = Quiet("awaitHello", 0)
    BY <2>1, WorkerTurn, QuietFields, ZenonT(30)
  <2>3. /\ workerMachine' = Quiet("awaitConfigure", 0) /\ wpc' = "configure"
        /\ toHost' = <<Hello>> /\ toWorker' = <<>>
    BY <2>1, <2>2, ObserveHandshake DEF WorkerSend
  <2>4. ToHost(Hello)'
    BY <1>1, <2>2, <2>3 DEF ToHost
  <2>5. InFlight'
    BY <2>3, <2>4 DEF InFlight
  <2> QED BY <1>5, <2>3, <2>5, ZenonT(30)
<1>7. CASE WorkerConfigure
  <2>1. workerMachine = Quiet("awaitConfigure", 0) /\ WorkerReceive
    BY <1>7 DEF WorkerConfigure, ProtocolInv, WorkerPlaces
  <2>2. PICK m : toWorker = <<m>> /\ ToWorker(m)
    BY <2>1, WorkerWaits, ZenonT(30) DEF WorkerReceive
  <2>3. m = Configure /\ hostMachine = Quiet("awaitReady", 0) /\ toHost = <<>>
    BY <2>1, <2>2, QuietFields DEF ToWorker
  <2>4. /\ workerMachine' = Quiet("awaitReady", 0) /\ toWorker' = <<>> /\ toHost' = <<>>
        /\ Accepts(workerMachine, "HostToWorker", Head(toWorker))
    BY <2>1, <2>2, <2>3, ObserveHandshake DEF WorkerReceive
  <2>5. wpc' \in {"ready", "fail"}
    <3>1. Head(toWorker).kind = "Configure"
      BY <2>2, <2>3 DEF Configure, Msg
    <3> QED BY <1>7, <2>4, <3>1 DEF WorkerConfigure
  <2>6. InFlight'
    BY <1>1, <2>3, <2>4 DEF InFlight
  <2> QED BY <1>5, <2>4, <2>5, <2>6
<1>8. CASE WorkerReady
  <2>1. workerMachine = Quiet("awaitReady", 0) /\ WorkerSend(Ready, "serve")
    BY <1>8 DEF WorkerReady, Ready, ProtocolInv, WorkerPlaces
  <2>2. toHost = <<>> /\ toWorker = <<>> /\ hostMachine = Quiet("awaitReady", 0)
    BY <2>1, WorkerTurn, QuietFields, ZenonT(30)
  <2>3. /\ workerMachine' = Quiet("idle", 0) /\ wpc' = "serve"
        /\ toHost' = <<Ready>> /\ toWorker' = <<>>
    BY <2>1, <2>2, ObserveHandshake DEF WorkerSend
  <2>4. ToHost(Ready)'
    BY <1>1, <2>2, <2>3 DEF ToHost
  <2>5. InFlight'
    BY <2>3, <2>4, ZenonT(30) DEF InFlight
  <2> QED BY <1>5, <2>3, <2>5, ZenonT(30)
<1> QED BY <1>6, <1>7, <1>8

\* The worker reads a run or a close.
LEMMA WorkerReads ==
    ASSUME ProtocolInv, proc = "alive", WorkerReceive, workerMachine.state = "idle"
    PROVE  /\ hostMachine = workerMachine' /\ workerMachine' \in SessionMachines
           /\ toWorker' = <<>> /\ toHost' = <<>>
           /\ Accepts(workerMachine, "HostToWorker", Head(toWorker))
           /\ \/ Head(toWorker) = CloseMsg
              \/ \E u \in Users, source \in Users \cup {NoSource}, run \in Nat :
                    /\ Head(toWorker) = Msg("Run", run, source, "none")
                    /\ workerMachine' = Quiet("running", run) /\ executed[u] = 0
                    /\ wpc = "serve" => source = u /\ upc[u] = "awaitCompiled"
                    /\ wpc = "await" => work = u /\ upc[u] = "awaitResult"
<1>1. PICK m : toWorker = <<m>> /\ ToWorker(m)
  BY WorkerWaits DEF WorkerReceive
<1>2. /\ toWorker' = <<>> /\ toHost' = <<>> /\ Head(toWorker) = m
      /\ workerMachine' = Observe(workerMachine, "HostToWorker", m)
  BY <1>1 DEF WorkerReceive, ToWorker
<1>3. CASE m = CloseMsg /\ \E run \in Nat : /\ hostMachine = Quiet("closed", run)
                                            /\ workerMachine = Quiet("idle", run)
  <2>1. PICK run \in Nat : hostMachine = Quiet("closed", run) /\ workerMachine = Quiet("idle", run)
    BY <1>3
  <2>2. /\ workerMachine' = Quiet("closed", run)
        /\ Accepts(workerMachine, "HostToWorker", m)
    BY <1>2, <1>3, <2>1, ObserveClose, ZenonT(30) DEF States
  <2> QED BY <1>2, <1>3, <2>1, <2>2, QuietMachines DEF States
<1>4. ASSUME NEW u \in Users, NEW source \in Users \cup {NoSource}, NEW run \in Nat, NEW last \in Nat,
             /\ m = Msg("Run", run, source, "none")
             /\ hostMachine = Quiet("running", run) /\ workerMachine = Quiet("idle", last)
             /\ last < run
             /\ executed[u] = 0
             /\ wpc = "serve" => source = u /\ upc[u] = "awaitCompiled"
             /\ wpc = "await" => work = u /\ upc[u] = "awaitResult"
      PROVE  /\ hostMachine = workerMachine' /\ workerMachine' \in SessionMachines
             /\ Accepts(workerMachine, "HostToWorker", m)
             /\ workerMachine' = Quiet("running", run)
  <2>1. workerMachine' = Quiet("running", run) /\ Accepts(workerMachine, "HostToWorker", m)
    BY <1>2, <1>4, ObserveRun
  <2> QED BY <1>4, <2>1, QuietMachines, ZenonT(30) DEF States
<1>5. m # Configure \/ workerMachine # Quiet("awaitConfigure", 0)
  BY QuietFields
<1>6. CASE m = CloseMsg
  BY <1>1, <1>2, <1>3, <1>4, <1>5, <1>6, ZenonT(30) DEF ToWorker
<1>7. CASE m # CloseMsg
  <2>1. PICK u \in Users, source \in Users \cup {NoSource}, run \in Nat, last \in Nat :
             /\ m = Msg("Run", run, source, "none")
             /\ hostMachine = Quiet("running", run) /\ workerMachine = Quiet("idle", last)
             /\ last < run
             /\ executed[u] = 0
             /\ wpc = "serve" => source = u /\ upc[u] = "awaitCompiled"
             /\ wpc = "await" => work = u /\ upc[u] = "awaitResult"
    BY <1>1, <1>5, <1>7, ZenonT(30) DEF ToWorker
  <2>2. /\ hostMachine = workerMachine' /\ workerMachine' \in SessionMachines
        /\ Accepts(workerMachine, "HostToWorker", m) /\ workerMachine' = Quiet("running", run)
    BY <1>4, <2>1, ZenonT(30)
  <2> QED BY <1>2, <2>1, <2>2, ZenonT(30)
<1> QED BY <1>6, <1>7

LEMMA WorkerReadKeeps ==
    ASSUME ProtocolInv, proc = "alive", UNCHANGED hostVars, WorkerServe \/ AwaitExecution
    PROVE  ProtocolInv'
<1>1. /\ WorkerReceive /\ workerMachine.state = "idle" /\ wpc \in {"serve", "await"}
      /\ UNCHANGED <<identity, hostMachine, stream, proc>>
  BY ZenonT(30) DEF WorkerServe, AwaitExecution, WorkerReceive, ProtocolInv, WorkerPlaces
<1>2. /\ hostMachine = workerMachine' /\ workerMachine' \in SessionMachines
      /\ toWorker' = <<>> /\ toHost' = <<>>
      /\ Accepts(workerMachine, "HostToWorker", Head(toWorker))
  BY <1>1, WorkerReads, ZenonT(30)
<1>3. InFlight'
  BY <1>1, <1>2, ZenonT(30) DEF InFlight
<1>4. Counting' /\ identity' \in Nat /\ executed \in [Users -> 0..1]
  BY <1>1, WorkerCount, ZenonT(30) DEF ProtocolInv, ProtocolTypes
<1>5. CASE wpc' \in {"exit", "fail"} /\ executed' = executed
  <2>1. WorkerPlaces'
    BY <1>5, ZenonT(30) DEF WorkerPlaces
  <2>2. WorkerTask'
    BY <1>5, ZenonT(30) DEF WorkerTask
  <2>3. Told'
    BY <1>1, <1>5, ZenonT(30) DEF ProtocolInv, Told, ToldOf, hostVars
  <2> QED BY <1>1, <1>2, <1>3, <1>4, <1>5, <2>1, <2>2, <2>3, WorkerMoves, ZenonT(30)
<1>6. CASE WorkerServe /\ wpc' = "compile"
  <2>1. /\ wpc = "serve" /\ work' = Head(toWorker).source /\ executed' = executed
        /\ Head(toWorker).kind = "Run" /\ Head(toWorker).ID = identity
    BY <1>6, ZenonT(30) DEF WorkerServe
  <2>2. PICK u \in Users, run \in Nat :
            /\ Head(toWorker) = Msg("Run", run, u, "none")
            /\ workerMachine' = Quiet("running", run) /\ executed[u] = 0
            /\ upc[u] = "awaitCompiled"
    <3>1. Head(toWorker) # CloseMsg
      BY <2>1 DEF CloseMsg, Msg
    <3> QED BY <1>1, <2>1, <3>1, WorkerReads, ZenonT(30)
  <2>3. work' = u /\ workerMachine' = Quiet("running", identity')
    BY <1>1, <2>1, <2>2 DEF Msg
  <2>4. WorkerPlaces'
    BY <1>6, <2>3, ZenonT(30) DEF WorkerPlaces
  <2>5. \A v \in Users : upc[v] # "execute"
    BY <1>1, <2>1, ZenonT(30) DEF ProtocolInv, WorkerTask
  <2>6. WorkerTask'
    BY <1>6, <2>1, <2>2, <2>3, <2>5, ZenonT(30) DEF WorkerTask, hostVars
  <2>7. Told'
    BY <1>1, <2>1, ZenonT(30) DEF ProtocolInv, Told, ToldOf, hostVars
  <2> QED BY <1>1, <1>2, <1>3, <1>4, <2>1, <2>4, <2>6, <2>7, WorkerMoves, ZenonT(30)
<1>7. CASE AwaitExecution /\ wpc' = "execute"
  <2>1. /\ wpc = "await" /\ work' = work /\ executed' = [executed EXCEPT ![work] = @ + 1]
        /\ Head(toWorker).kind = "Run" /\ Head(toWorker).ID = identity + 1
    BY <1>7, ZenonT(30) DEF AwaitExecution
  <2>2. PICK u \in Users, source \in Users \cup {NoSource}, run \in Nat :
            /\ Head(toWorker) = Msg("Run", run, source, "none")
            /\ workerMachine' = Quiet("running", run) /\ executed[u] = 0
            /\ work = u /\ upc[u] = "awaitResult"
    <3>1. Head(toWorker) # CloseMsg
      BY <2>1 DEF CloseMsg, Msg
    <3> QED BY <1>1, <2>1, <3>1, WorkerReads, ZenonT(30)
  <2>3. workerMachine' = Quiet("running", identity' + 1)
    BY <1>1, <2>1, <2>2 DEF Msg
  <2>4. WorkerPlaces'
    BY <1>7, <2>3, ZenonT(30) DEF WorkerPlaces
  <2>5. /\ executed' \in [Users -> 0..1] /\ executed'[u] = 1
        /\ \A v \in Users \ {u} : executed'[v] = executed[v]
    BY <1>4, <2>1, <2>2
  <2>6. \A v \in Users : upc[v] # "execute"
    BY <2>2, ZenonT(30) DEF ProtocolInv, SingleExchange, Exchanging
  <2>7. WorkerTask'
    BY <1>7, <2>1, <2>2, <2>5, <2>6, ZenonT(30) DEF WorkerTask, hostVars
  <2>8. Told'
    <3>1. ToldOf(u)'
      BY <1>1, <2>2, <2>5, ZenonT(30) DEF ProtocolInv, Told, ToldOf, hostVars
    <3>2. ASSUME NEW v \in Users \ {u} PROVE ToldOf(v)'
      BY <1>1, <2>5, ZenonT(30) DEF ProtocolInv, Told, ToldOf, hostVars
    <3> QED BY <3>1, <3>2, ZenonT(30) DEF Told
  <2> QED BY <1>1, <1>2, <1>3, <1>4, <2>4, <2>5, <2>7, <2>8, WorkerMoves, ZenonT(30)
<1>8. \/ wpc' \in {"exit", "fail"} /\ executed' = executed
      \/ WorkerServe /\ wpc' = "compile"
      \/ AwaitExecution /\ wpc' = "execute"
  BY ZenonT(30) DEF WorkerServe, AwaitExecution
<1> QED BY <1>5, <1>6, <1>7, <1>8, ZenonT(30)

\* The worker sends the result of its task.
LEMMA WorkerResult ==
    ASSUME ProtocolInv, proc = "alive", UNCHANGED <<hostVars, executed, work>>,
           NEW run \in Nat \ {0}, workerMachine = Quiet("running", run),
           work \in Users, upc[work] \in {"awaitCompiled", "awaitResult"},
           NEW code \in {"compiled", "ok", "evaluation_failed"},
           NEW next \in {"await", "serve", "exit"},
           WorkerSend(Msg("Result", run, work, code), next),
           code = "ok" => executed[work] = 1,
           code = "compiled" => upc[work] = "awaitCompiled",
           code = "compiled" <=> next = "await",
           Counting', identity' \in Nat
    PROVE  ProtocolInv'
<1> DEFINE msg == Msg("Result", run, work, code)
<1>1. toHost = <<>> /\ toWorker = <<>> /\ hostMachine = Quiet("running", run)
  <2>1. workerMachine.state = "running"
    BY QuietFields, Zenon
  <2> QED BY <2>1, WorkerTurn, Zenon
<1>2. /\ workerMachine' = Quiet("idle", run) /\ toHost' = <<msg>> /\ toWorker' = <<>> /\ wpc' = next
      /\ UNCHANGED <<hostMachine, stream, proc>>
  <2>1. /\ Accepts(workerMachine, "WorkerToHost", msg)
        /\ Observe(workerMachine, "WorkerToHost", msg) = Quiet("idle", run)
    BY ObserveResult, Zenon
  <2>2. Append(<<>>, msg) = <<msg>>
    BY OneMessage, Zenon
  <2> HIDE DEF msg
  <2>3. WorkerSend(msg, next)
    BY Zenon DEF msg
  <2> QED BY <1>1, <2>1, <2>2, <2>3, Zenon DEF WorkerSend
<1>3. ToHost(msg)'
  BY <1>1, <1>2, ZenonT(30) DEF ToHost, hostVars
<1>4. InFlight'
  BY <1>2, <1>3, ZenonT(30) DEF InFlight
<1>5. WorkerPlaces'
  BY <1>2, QuietFields, ZenonT(30) DEF WorkerPlaces
<1>6. \A v \in Users : upc[v] # "execute"
  BY ZenonT(30) DEF ProtocolInv, SingleExchange, Exchanging
<1>7. WorkerTask'
  <2>1. upc[work] = "awaitCompiled" => executed[work] = 0
    BY DEF ProtocolInv, ProtocolTypes, Told, ToldOf
  <2> QED BY <1>2, <1>6, <2>1, ZenonT(30) DEF WorkerTask, hostVars
<1>8. Told'
  BY <1>2, ZenonT(30) DEF ProtocolInv, Told, ToldOf, hostVars
<1>9. workerMachine' \in SessionMachines /\ executed' \in [Users -> 0..1]
  BY <1>2, QuietMachines DEF States, ProtocolInv, ProtocolTypes
<1> QED BY <1>2, <1>4, <1>5, <1>7, <1>8, <1>9, WorkerMoves, ZenonT(30)

LEMMA WorkerResultKeeps ==
    ASSUME ProtocolInv, proc = "alive", UNCHANGED hostVars, WorkerCompile \/ WorkerExecute
    PROVE  ProtocolInv'
<1>1. CASE WorkerCompile
  <2>1. /\ workerMachine = Quiet("running", identity) /\ work \in Users
        /\ upc[work] = "awaitCompiled" /\ UNCHANGED <<identity, work, executed>>
        /\ wpc = "compile"
    BY <1>1, ZenonT(30) DEF WorkerCompile, ProtocolInv, WorkerPlaces, WorkerTask
  <2>2. Counting' /\ identity' \in Nat /\ identity \in Nat \ {0}
    BY <2>1, WorkerCount, ZenonT(30)
  <2>3. CASE WorkerSend(Msg("Result", identity, work, "evaluation_failed"), "exit")
    BY <2>1, <2>2, <2>3, WorkerResult, ZenonT(30)
  <2>4. CASE WorkerSend(Msg("Result", identity, work, "compiled"), "await")
    BY <2>1, <2>2, <2>4, WorkerResult, ZenonT(30)
  <2> QED BY <1>1, <2>3, <2>4, ZenonT(30) DEF WorkerCompile
<1>2. CASE WorkerExecute
  <2>1. /\ workerMachine = Quiet("running", identity + 1) /\ work \in Users
        /\ upc[work] = "awaitResult" /\ executed[work] = 1 /\ UNCHANGED <<work, executed>>
        /\ wpc = "execute" /\ identity + 1 \in Nat \ {0}
    <3>1. wpc = "execute" /\ UNCHANGED <<work, executed>>
      BY <1>2, ZenonT(30) DEF WorkerExecute
    <3>2. /\ workerMachine = Quiet("running", identity + 1) /\ work \in Users
          /\ upc[work] = "awaitResult" /\ executed[work] = 1
      BY <3>1, ZenonT(30) DEF ProtocolInv, WorkerPlaces, WorkerTask
    <3>3. identity \in Nat
      BY ZenonT(30) DEF ProtocolInv, ProtocolTypes
    <3> QED BY <3>1, <3>2, <3>3
  <2>2. CASE /\ WorkerSend(Msg("Result", identity + 1, work, "evaluation_failed"), "exit")
             /\ UNCHANGED identity
    <3>1. Counting' /\ identity' \in Nat
      BY <2>1, <2>2, WorkerCount, ZenonT(30)
    <3> QED BY <2>1, <2>2, <3>1, WorkerResult, ZenonT(30)
  <2>3. ASSUME NEW next \in {"serve", "exit"},
               next = (IF identity + 2 <= 2 * Submissions THEN "serve" ELSE "exit"),
               WorkerSend(Msg("Result", identity + 1, work, "ok"), next),
               identity' = identity + 2
        PROVE  ProtocolInv'
    <3>1. wpc' = next
      BY <2>1, <2>3, ObserveResult, ZenonT(30) DEF WorkerSend
    <3>2. Counting' /\ identity' \in Nat
      BY <2>1, <2>3, <3>1, WorkerCount, ZenonT(30)
    <3> QED BY <2>1, <2>3, <3>2, WorkerResult, ZenonT(30)
  <2> QED BY <1>2, <2>2, <2>3, ZenonT(30) DEF WorkerExecute
<1> QED BY <1>1, <1>2, ZenonT(30)

\* The process ends: the worker's main returns, or a deadline passes.
LEMMA ProcessEndsKeeps ==
    ASSUME ProtocolInv, proc = "alive", UNCHANGED hostVars, WorkerExit \/ Expire
    PROVE  ProtocolInv'
<1>1. /\ proc' \in {"clean", "dirty"} /\ wpc' \in {wpc, "gone"}
      /\ UNCHANGED <<identity, work, executed, hostMachine, workerMachine, toWorker, toHost, stream>>
      /\ workerMachine \in SessionMachines /\ executed \in [Users -> 0..1]
  BY ZenonT(30) DEF WorkerExit, Expire, workerVars, ProtocolInv, ProtocolTypes
<1>2. Counting' /\ identity' \in Nat
  BY <1>1, WorkerCount, ZenonT(30)
<1>3. WorkerPlaces'
  BY <1>1, ZenonT(30) DEF ProtocolInv, WorkerPlaces
<1>4. WorkerTask'
  BY <1>1, ZenonT(30) DEF WorkerTask
<1>5. \A m : ToHost(m) => ToHost(m)'
  BY <1>1 DEF ToHost, hostVars
<1>6. InFlight'
  BY <1>1, <1>5, ZenonT(30) DEF ProtocolInv, InFlight
<1>7. Told'
  BY <1>1, ZenonT(30) DEF ProtocolInv, Told, ToldOf, hostVars
<1> QED BY <1>1, <1>2, <1>3, <1>4, <1>6, <1>7, WorkerMoves, ZenonT(30)

LEMMA StutterKeeps == ProtocolInv /\ UNCHANGED sessionVars => ProtocolInv'
<1> SUFFICES ASSUME ProtocolInv, UNCHANGED sessionVars PROVE ProtocolInv'
  OBVIOUS
<1>1. UNCHANGED <<hostVars, workerVars, hostMachine, workerMachine, toWorker, toHost, stream, proc>>
  BY ZenonT(30) DEF sessionVars, wireVars
<1> USE <1>1 DEF ProtocolInv, hostVars, workerVars
<1>2. ProtocolTypes' /\ SingleExchange'
  BY ZenonT(30) DEF ProtocolTypes, SingleExchange
<1>3. WorkerPlaces' /\ WorkerTask'
  BY ZenonT(30) DEF WorkerPlaces, WorkerTask
<1>4. Counting'
  BY ZenonT(30) DEF Counting
<1>5. Told'
  BY DEF Told, ToldOf
<1>6. HostPlaces'
  BY ZenonT(30) DEF HostPlaces, HostFits, HostAt, Rested
<1>7. \A m : ToHost(m) => ToHost(m)'
  BY ZenonT(30) DEF ToHost
<1>8. \A m : ToWorker(m) => ToWorker(m)'
  BY ZenonT(30) DEF ToWorker
<1>9. InFlight'
  BY <1>7, <1>8 DEF InFlight
<1> QED BY <1>2, <1>3, <1>4, <1>5, <1>6, <1>9
-----------------------------------------------------------------------------
LEMMA ProtocolStep == ProtocolInv /\ [SessionNext]_sessionVars => ProtocolInv'
<1> SUFFICES ASSUME ProtocolInv, [SessionNext]_sessionVars PROVE ProtocolInv'
  OBVIOUS
<1>1. CASE OpenSession
  BY <1>1, OpenReceiveKeeps, OpenConfigureKeeps, OpenEndsKeeps DEF OpenSession
<1>2. ASSUME NEW u \in Users, Submit(u) PROVE ProtocolInv'
  <2>1. nextID \in Nat /\ nextID + 1 \in Nat
    BY DEF ProtocolInv, ProtocolTypes
  <2>2. CASE SubmitSend(u, "run", nextID, u, "awaitCompiled")
    BY <2>1, <2>2, SubmitSendKeeps, ZenonT(30)
  <2>3. CASE SubmitSend(u, "execute", nextID + 1, NoSource, "awaitResult")
    BY <2>1, <2>3, SubmitSendKeeps, ZenonT(30)
  <2> QED BY <1>2, <2>2, <2>3, SubmitBeginsKeeps, AwaitKeeps, SubmitEndsKeeps, ClosersKeep, ZenonT(30)
          DEF Submit
<1>3. ASSUME NEW u \in Users, Close(u) PROVE ProtocolInv'
  BY <1>3, CloseBeginsKeeps, CloseSendKeeps, ClosersKeep DEF Close
<1>4. CASE Worker
  BY <1>4, WorkerHandshakeKeeps, WorkerReadKeeps, WorkerResultKeeps, ProcessEndsKeeps, ZenonT(30)
     DEF Worker, WorkerStep
<1>5. CASE Expire
  BY <1>5, ProcessEndsKeeps DEF Expire
<1>6. CASE UNCHANGED sessionVars
  BY <1>6, StutterKeeps
<1> QED BY <1>1, <1>2, <1>3, <1>4, <1>5, <1>6 DEF SessionNext, Finished

\* The host's client and the worker's loop keep the protocol's invariant,
\* whatever the goroutines, the worker and the deadlines do.
THEOREM ProtocolInvariance == SessionSpec => []ProtocolInv
<1> QED BY InitProtocolInv, ProtocolStep, PTL DEF SessionSpec

\* Machine.Observe never rejects what the other end of an honest connection
\* sent, the two machines agree whenever nothing is in flight, the active flag
\* admits one exchange at a time, and the counters of SessionClient and
\* serveSession stay within the session's submissions.
THEOREM ProtocolIsHeld == SessionSpec => []ProtocolHeld
<1>1. ProtocolInv => ProtocolHeld
  <2> SUFFICES ASSUME ProtocolInv PROVE ProtocolHeld
    BY ZenonT(30)
  <2> USE DEF ProtocolInv, ProtocolTypes
  <2>1. hostMachine.state \in States \ {"failed"} /\ workerMachine.state \in States \ {"failed"}
    BY MachineShape, ZenonT(30)
  <2>2. /\ left \in 0..Submissions
        /\ nextID \in {2 * n + 1 : n \in 0..Submissions}
        /\ identity \in {2 * n + 1 : n \in 0..Submissions}
    <3>1. Submissions \in Nat
      BY SessionAssumption, ZenonT(30)
    <3>2. PICK n \in Nat : nextID = 2 * n + 1 /\ n + left <= Submissions
      BY ZenonT(30) DEF Counting
    <3>3. PICK k \in Nat : identity = 2 * k + 1 /\ k <= Submissions
      BY ZenonT(30) DEF Counting
    <3>4. n \in 0..Submissions /\ k \in 0..Submissions /\ left \in 0..Submissions
      BY <3>1, <3>2, <3>3
    <3> QED BY <3>2, <3>3, <3>4, ZenonT(30)
  <2>3. {clientClosed, clientActive} \subseteq BOOLEAN
    BY ZenonT(30)
  <2>4. SessionTypeOK
    BY <2>1, <2>2, <2>3, ZenonT(30) DEF SessionTypeOK, Places
  <2>5. stream = "open" /\ proc = "alive" /\ toWorker = <<>> /\ toHost = <<>>
            => hostMachine = workerMachine
    BY DEF InFlight
  <2> QED BY <2>1, <2>4, <2>5 DEF ProtocolHeld
<1> QED BY <1>1, ProtocolInvariance, PTL

\* Submit returns the response to the source it was given, which was executed
\* once, and when Close has returned, or Submit an error, the process is gone.
THEOREM OutcomeIsHonest == SessionSpec => []OutcomeHonest
<1>1. ProtocolInv => OutcomeHonest
  BY SessionAssumption DEF ProtocolInv, Told, ToldOf, HostPlaces, OutcomeHonest, ResponseMatches, EndsProcess
<1> QED BY <1>1, ProtocolInvariance, PTL
=============================================================================
