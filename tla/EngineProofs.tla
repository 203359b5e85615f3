---------------------------- MODULE EngineProofs ----------------------------
(***************************************************************************)
(* What the engine keeps around running machines: the debugger's           *)
(* stop-the-world barrier, for any number of threads, callbacks, stops and *)
(* registrations, and the cache of callback machines.                      *)
(*                                                                         *)
(* The barrier's invariant adds to BarrierSound where a thread's goroutine *)
(* may be in each state (Placed), that no thread was parked by a later     *)
(* stop than the last one (Stamped), and that a thread about to resume was *)
(* released, or is being ended (Excused).                                  *)
(***************************************************************************)
EXTENDS DebugBarrier, CallbackVMs, FiniteSetTheorems, TLAPS

Somebody == Threads \cup {NoThread}
Steps == [mode : {"none", "in", "over", "return"}, vm : Somebody, goroutine : Somebody]
Sessions == [stopped : BOOLEAN, stopGen : Nat, focus : Somebody, step : Steps,
             quiescent : BOOLEAN, running : Int, pauseRequested : BOOLEAN,
             terminated : BOOLEAN, breakpoints : BOOLEAN, active : BOOLEAN]
Stations == {"out", "check", "code", "evaluate", "leaving", "unlocked", "blocked", "native",
             "look", "select", "resume"}
Records == [at : Stations, state : {"none", "running", "blocked", "parked"}, gen : Nat,
            wake : BOOLEAN, stop : BOOLEAN, inBlock : BOOLEAN]

DebugTypes ==
    /\ session \in Sessions
    /\ thread \in [Threads -> Records]
    /\ host \in [Callbacks -> Somebody]
    /\ ctxDone \in BOOLEAN

\* Where a goroutine is says what the session has registered of it.
SeatOf(r) ==
    /\ r.at = "out" => r.state = "none"
    /\ r.at \in {"check", "code", "evaluate", "leaving", "unlocked"} => r.state = "running"
    /\ r.at = "blocked" => r.state = "blocked"
    /\ r.at = "native" => r.state \in {"running", "blocked"}
    /\ r.at \in {"look", "select", "resume"} => r.state = "parked"
Placed == \A t \in Threads : SeatOf(thread[t])
Stamped == \A t \in Threads : thread[t].gen <= session.stopGen
Excused == \A t \in Threads : Stands(t, "resume") => Released(t) \/ session.terminated \/ ctxDone

\* The flag that debugCheck reads first is set while a pause condition exists.
Hot(s) == (s.stopped \/ s.terminated \/ s.pauseRequested \/ s.breakpoints \/ s.step # NoStep)
             => s.active
Runners == {t \in Threads : thread[t].state = "running"}
Counts == session.running = Cardinality(Runners)
StepAttached == session.step.vm \in Attached \cup {NoThread}

BarrierInv == /\ DebugTypes /\ Placed /\ Stamped /\ Excused /\ WakeupPending
              /\ Counts /\ Hot(session) /\ StepAttached
-----------------------------------------------------------------------------
\* recomputeActiveLocked touches the flag alone, and sets it when it must be.
LEMMA RecomputeActiveDoes ==
    ASSUME NEW s \in Sessions
    PROVE  LET r == RecomputeActive(s) IN
           /\ r \in Sessions /\ Hot(r)
           /\ r.stopped = s.stopped /\ r.stopGen = s.stopGen /\ r.running = s.running
           /\ r.step = s.step /\ r.terminated = s.terminated
<1> DEFINE f == \/ s.breakpoints \/ s.step # NoStep \/ s.stopped \/ s.terminated \/ s.pauseRequested
<1>1. f \in BOOLEAN
  BY Zenon
<1>2. RecomputeActive(s) = [s EXCEPT !.active = f]
  BY Zenon DEF RecomputeActive
<1> HIDE DEF f
<1>3. /\ RecomputeActive(s) \in Sessions /\ RecomputeActive(s).active = f
      /\ \A x \in {"stopped", "stopGen", "running", "step", "terminated", "breakpoints", "pauseRequested"} :
             RecomputeActive(s)[x] = s[x]
  BY <1>1, <1>2 DEF Sessions
<1> QED BY <1>3 DEF f, Hot

\* checkQuiescentLocked touches the quiescence alone.
LEMMA CheckQuiescentDoes ==
    ASSUME NEW s \in Sessions
    PROVE  LET r == CheckQuiescent(s) IN
           /\ r \in Sessions /\ (Hot(s) => Hot(r))
           /\ r.stopped = s.stopped /\ r.stopGen = s.stopGen /\ r.running = s.running
           /\ r.step = s.step /\ r.terminated = s.terminated
<1>1. CASE s.stopped /\ s.running = 0
  <2>1. CheckQuiescent(s) = [s EXCEPT !.quiescent = TRUE]
    BY <1>1 DEF CheckQuiescent
  <2> QED BY <2>1, Zenon DEF Sessions, Hot
<1>2. CASE ~(s.stopped /\ s.running = 0)
  BY <1>2 DEF CheckQuiescent
<1> QED BY <1>1, <1>2

\* stopWorldLocked: the first stop counts, and clears the step.
LEMMA StopWorldDoes ==
    ASSUME NEW s \in Sessions, NEW t \in Threads, Hot(s)
    PROVE  LET r == StopWorld(s, t) IN
           /\ r \in Sessions /\ Hot(r) /\ r.stopped
           /\ r.running = s.running /\ r.terminated = s.terminated
           /\ s.stopped => r.stopGen = s.stopGen /\ r.step = s.step
           /\ ~s.stopped => r.stopGen = s.stopGen + 1 /\ r.step = NoStep
<1>1. CASE s.stopped
  BY <1>1 DEF StopWorld
<1>2. CASE ~s.stopped
  <2> DEFINE h == [s EXCEPT !.stopped = TRUE, !.stopGen = @ + 1, !.focus = t,
                            !.step = NoStep, !.quiescent = FALSE]
           g == s.stopGen + 1
  <2>1. NoStep \in Steps /\ g \in Nat /\ t \in Somebody
    BY DEF NoStep, Steps, Somebody, Sessions
  <2>h. h = [s EXCEPT !.stopped = TRUE, !.stopGen = g, !.focus = t, !.step = NoStep, !.quiescent = FALSE]
    OBVIOUS
  <2> HIDE DEF g, h
  <2>2. /\ h \in Sessions /\ h.stopped /\ h.running = s.running /\ h.terminated = s.terminated
        /\ h.stopGen = g /\ h.step = NoStep
    BY <2>1, <2>h, Zenon DEF Sessions
  <2>3. StopWorld(s, t) = CheckQuiescent(RecomputeActive(h))
    BY <1>2 DEF StopWorld, h
  <2> DEFINE r == RecomputeActive(h)
             q == CheckQuiescent(r)
  <2>4. /\ r \in Sessions /\ Hot(r) /\ r.stopped = h.stopped /\ r.stopGen = h.stopGen
        /\ r.running = h.running /\ r.step = h.step /\ r.terminated = h.terminated
    BY <2>2, RecomputeActiveDoes, Zenon
  <2> HIDE DEF r
  <2>5. /\ q \in Sessions /\ Hot(q) /\ q.stopped = r.stopped /\ q.stopGen = r.stopGen
        /\ q.running = r.running /\ q.step = r.step /\ q.terminated = r.terminated
    BY <2>4, CheckQuiescentDoes
  <2> HIDE DEF q
  <2>6. StopWorld(s, t) = q
    BY <2>3 DEF q, r
  <2> QED BY <1>2, <2>2, <2>4, <2>5, <2>6, Zenon DEF g
<1> QED BY <1>1, <1>2

\* The turn of thread t: it moves on and the others wait as they waited.  The
\* session is as it was or has just been stopped, unless t is the only thread.
LEMMA TurnKeeps ==
    ASSUME BarrierInv, NEW t \in Threads,
           thread' \in [Threads -> Records],
           \A u \in Threads \ {t} :
               /\ thread'[u].state = thread[u].state /\ thread'[u].gen = thread[u].gen
               /\ thread'[u].wake = thread[u].wake /\ SeatOf(thread'[u])
               /\ thread'[u].at \in {"select", "resume"} => thread'[u].at = thread[u].at,
           SeatOf(thread'[t]), thread'[t].gen <= session'.stopGen,
           thread'[t].at = "select" => ~Released(t)' \/ thread'[t].wake,
           thread'[t].at = "resume" => Released(t)' \/ session'.terminated \/ ctxDone',
           session' \in Sessions, Hot(session'), StepAttached',
           session'.running = session.running
                              + (IF thread'[t].state = "running" THEN 1 ELSE 0)
                              - (IF thread[t].state = "running" THEN 1 ELSE 0),
           session'.stopGen >= session.stopGen,
           \/ \A u \in Threads \ {t} : thread[u].state = "none"
           \/ /\ session'.terminated = session.terminated /\ ctxDone' = ctxDone
              /\ \/ session'.stopped = session.stopped /\ session'.stopGen = session.stopGen
                 \/ ~session.stopped /\ session'.stopped /\ session'.stopGen = session.stopGen + 1,
           host' \in [Callbacks -> Somebody], ctxDone' \in BOOLEAN
    PROVE  BarrierInv'
<1>0. /\ session \in Sessions /\ thread \in [Threads -> Records] /\ ctxDone \in BOOLEAN
      /\ session.stopGen \in Nat /\ session'.stopGen \in Nat
      /\ \A u \in Threads : thread[u].gen \in Nat /\ thread'[u].gen \in Nat
  BY DEF BarrierInv, DebugTypes, Sessions, Records
<1>1. DebugTypes'
  BY <1>0 DEF DebugTypes
<1>2. Placed'
  BY DEF BarrierInv, Placed
<1>3. Stamped'
  BY <1>0 DEF BarrierInv, Stamped
<1>4. ASSUME NEW u \in Threads \ {t}, thread'[u].at \in {"select", "resume"}
      PROVE  /\ Released(u)' <=> Released(u)
             /\ session'.terminated = session.terminated /\ ctxDone' = ctxDone
  <2>1. thread[u].state = "parked"
    BY <1>4 DEF SeatOf
  <2>2. /\ session'.terminated = session.terminated /\ ctxDone' = ctxDone
        /\ \/ session'.stopped = session.stopped /\ session'.stopGen = session.stopGen
           \/ ~session.stopped /\ session'.stopped /\ session'.stopGen = session.stopGen + 1
    BY <2>1
  <2> QED BY <1>0, <2>2 DEF BarrierInv, Stamped, Released
<1>5. Excused'
  BY <1>4 DEF BarrierInv, Excused, Stands
<1>6. WakeupPending'
  BY <1>4 DEF BarrierInv, WakeupPending, Stands
<1>7. Counts'
  <2>1. IsFiniteSet(Runners) /\ Runners \subseteq Threads /\ Cardinality(Runners) \in Nat
    BY BarrierBounds, FS_Subset, FS_CardinalityType DEF Runners
  <2>c. session.running = Cardinality(Runners)
    BY DEF BarrierInv, Counts
  <2>2. CASE t \in Runners /\ thread'[t].state # "running"
    <3>1. Runners' = Runners \ {t}
      BY <2>2 DEF Runners
    <3>2. Cardinality(Runners') = Cardinality(Runners) - 1
      BY <2>1, <2>2, <3>1, FS_RemoveElement, Zenon
    <3>3. session'.running = session.running - 1
      BY <2>1, <2>2, <2>c DEF Runners
    <3> QED BY <2>c, <3>2, <3>3 DEF Counts
  <2>3. CASE t \notin Runners /\ thread'[t].state = "running"
    <3>1. Runners' = Runners \cup {t}
      BY <2>3 DEF Runners
    <3>2. Cardinality(Runners') = Cardinality(Runners) + 1
      BY <2>1, <2>3, <3>1, FS_AddElement, Zenon
    <3>3. session'.running = session.running + 1
      BY <2>1, <2>3, <2>c DEF Runners
    <3> QED BY <2>c, <3>2, <3>3 DEF Counts
  <2>4. CASE t \in Runners <=> thread'[t].state = "running"
    <3>1. Runners' = Runners
      BY <2>4 DEF Runners
    <3>2. session'.running = session.running
      BY <2>1, <2>4, <2>c DEF Runners
    <3> QED BY <2>c, <3>1, <3>2 DEF Counts
  <2> QED BY <2>2, <2>3, <2>4
<1> QED BY <1>1, <1>2, <1>3, <1>5, <1>6, <1>7 DEF BarrierInv

\* The same for a thread that stays attached while the others do not move.
LEMMA OneTurns ==
    ASSUME BarrierInv, NEW t \in Threads,
           thread' \in [Threads -> Records],
           \A u \in Threads \ {t} : thread'[u] = thread[u],
           thread'[t].state # "none", SeatOf(thread'[t]),
           thread'[t].gen <= session'.stopGen,
           thread'[t].at = "select" => ~Released(t)' \/ thread'[t].wake,
           thread'[t].at = "resume" => Released(t)' \/ session'.terminated \/ ctxDone',
           session' \in Sessions, Hot(session'),
           session'.step \in {session.step, NoStep}, session'.terminated = session.terminated,
           session'.running = session.running
                              + (IF thread'[t].state = "running" THEN 1 ELSE 0)
                              - (IF thread[t].state = "running" THEN 1 ELSE 0),
           \/ session'.stopped = session.stopped /\ session'.stopGen = session.stopGen
           \/ ~session.stopped /\ session'.stopped /\ session'.stopGen = session.stopGen + 1,
           host' \in [Callbacks -> Somebody], UNCHANGED ctxDone
    PROVE  BarrierInv'
<1>1. Attached \subseteq Attached'
  BY DEF Attached
<1>2. StepAttached'
  BY <1>1 DEF BarrierInv, StepAttached, NoStep
<1>3. session'.stopGen >= session.stopGen /\ ctxDone' \in BOOLEAN
  BY DEF BarrierInv, DebugTypes, Sessions
<1>4. \A u \in Threads \ {t} : SeatOf(thread'[u])
  BY DEF BarrierInv, Placed
<1> QED BY <1>2, <1>3, <1>4, TurnKeeps, Zenon

\* A count that changes leaves the rest of the session alone.
LEMMA RecountDoes ==
    ASSUME NEW s \in Sessions, NEW n \in Int
    PROVE  LET r == CheckQuiescent([s EXCEPT !.running = n])
               w == [s EXCEPT !.running = n]
           IN  /\ r \in Sessions /\ r.stopped = s.stopped /\ r.stopGen = s.stopGen /\ r.running = n
               /\ r.step = s.step /\ r.terminated = s.terminated /\ (Hot(s) => Hot(r))
               /\ w \in Sessions /\ w.stopped = s.stopped /\ w.stopGen = s.stopGen /\ w.running = n
               /\ w.step = s.step /\ w.terminated = s.terminated /\ (Hot(s) => Hot(w))
<1> DEFINE w == [s EXCEPT !.running = n]
<1>1. /\ w \in Sessions /\ w.stopped = s.stopped /\ w.stopGen = s.stopGen /\ w.running = n
      /\ w.step = s.step /\ w.terminated = s.terminated
      /\ w.active = s.active /\ w.pauseRequested = s.pauseRequested /\ w.breakpoints = s.breakpoints
  BY DEF Sessions
<1>2. Hot(s) => Hot(w)
  BY <1>1 DEF Hot
<1> HIDE DEF w
<1> DEFINE r == CheckQuiescent(w)
<1>3. /\ r \in Sessions /\ r.stopped = w.stopped /\ r.stopGen = w.stopGen /\ r.running = w.running
      /\ r.step = w.step /\ r.terminated = w.terminated /\ (Hot(w) => Hot(r))
  BY <1>1, CheckQuiescentDoes
<1> HIDE DEF r
<1>4. r = CheckQuiescent([s EXCEPT !.running = n]) /\ w = [s EXCEPT !.running = n]
  BY DEF r, w
<1> QED BY <1>1, <1>2, <1>3, <1>4, Zenon

\* A thread parks (pauseHereLocked): the world is stopped, by this thread or
\* by an earlier one, and the thread is stamped with the stop it waits for.
LEMMA PauseKeeps ==
    ASSUME BarrierInv, NEW t \in Threads, NEW s \in Sessions, Hot(s),
           s.stopped = session.stopped, s.stopGen = session.stopGen, s.running = session.running,
           s.step = session.step, s.terminated = session.terminated,
           PauseHere(t, s), thread[t].state = "running", UNCHANGED <<host, ctxDone>>
    PROVE  BarrierInv'
<1> DEFINE h == StopWorld(s, t)
<1>0. session \in Sessions /\ thread \in [Threads -> Records] /\ host \in [Callbacks -> Somebody]
  BY DEF BarrierInv, DebugTypes
<1>1. /\ h \in Sessions /\ Hot(h) /\ h.stopped
      /\ h.running = s.running /\ h.terminated = s.terminated
      /\ s.stopped => h.stopGen = s.stopGen /\ h.step = s.step
      /\ ~s.stopped => h.stopGen = s.stopGen + 1 /\ h.step = NoStep
  BY StopWorldDoes
<1>2. /\ session' = CheckQuiescent([h EXCEPT !.running = h.running - 1])
      /\ thread' = [thread EXCEPT ![t].state = "parked", ![t].gen = h.stopGen, ![t].at = "look"]
  BY DEF PauseHere
<1> HIDE DEF h
<1>3. h.running - 1 \in Int /\ h.stopGen \in Nat /\ h.stopped \in BOOLEAN
  BY <1>1 DEF Sessions
<1>4. /\ session' \in Sessions /\ Hot(session') /\ session'.stopped = h.stopped
      /\ session'.stopGen = h.stopGen /\ session'.running = h.running - 1
      /\ session'.step = h.step /\ session'.terminated = h.terminated
  BY <1>1, <1>2, <1>3, RecountDoes, ZenonT(40)
<1>5. /\ thread' \in [Threads -> Records] /\ \A u \in Threads \ {t} : thread'[u] = thread[u]
      /\ thread'[t].state = "parked" /\ thread'[t].at = "look" /\ thread'[t].gen = h.stopGen
  <2> DEFINE r == [thread[t] EXCEPT !.state = "parked", !.gen = h.stopGen, !.at = "look"]
  <2>1. thread[t] \in Records
    BY <1>0
  <2>2. r \in Records /\ r.state = "parked" /\ r.at = "look" /\ r.gen = h.stopGen
    BY <1>3, <2>1, Zenon DEF Records, Stations
  <2>3. thread' = [thread EXCEPT ![t] = r]
    BY <1>0, <1>2, Zenon
  <2> HIDE DEF r
  <2> QED BY <1>0, <2>2, <2>3
<1>6. SeatOf(thread'[t])
  BY <1>5 DEF SeatOf
<1>7. /\ session'.step \in {session.step, NoStep}
      /\ session'.running = session.running + (IF thread'[t].state = "running" THEN 1 ELSE 0)
                                            - (IF thread[t].state = "running" THEN 1 ELSE 0)
      /\ thread'[t].gen <= session'.stopGen
  BY <1>0, <1>1, <1>3, <1>4, <1>5 DEF Sessions
<1>8. \/ session'.stopped = session.stopped /\ session'.stopGen = session.stopGen
      \/ ~session.stopped /\ session'.stopped /\ session'.stopGen = session.stopGen + 1
  <2>1. CASE s.stopped
    <3>1. h.stopped = session.stopped
      BY <1>0, <1>1, <2>1, <1>3, Zenon DEF Sessions
    <3> QED BY <1>1, <1>4, <2>1, <3>1
  <2>2. CASE ~s.stopped
    BY <1>1, <1>4, <2>2, Zenon
  <2> QED BY <2>1, <2>2
<1> QED BY <1>0, <1>1, <1>4, <1>5, <1>6, <1>7, <1>8, OneTurns, Zenon

\* A thread goes on and the session stays.
LEMMA GoKeeps ==
    ASSUME BarrierInv, NEW t \in Threads, UNCHANGED <<session, ctxDone>>, host' \in [Callbacks -> Somebody],
           thread' \in [Threads -> Records], \A u \in Threads \ {t} : thread'[u] = thread[u],
           thread'[t].state = thread[t].state, thread[t].state # "none", SeatOf(thread'[t]),
           thread'[t].gen = thread[t].gen,
           thread'[t].at = "select" => ~Released(t),
           thread'[t].at = "resume" => Released(t) \/ session.terminated \/ ctxDone
    PROVE  BarrierInv'
<1>1. session \in Sessions /\ session.running \in Int /\ Hot(session) /\ thread[t].gen <= session.stopGen
  BY DEF BarrierInv, DebugTypes, Sessions, Stamped
<1>2. Released(t)' <=> Released(t)
  BY DEF Released
<1>3. session'.running = session.running + (IF thread'[t].state = "running" THEN 1 ELSE 0)
                                         - (IF thread[t].state = "running" THEN 1 ELSE 0)
  BY <1>1
<1>4. thread'[t].gen <= session'.stopGen
  BY <1>1
<1> QED BY <1>1, <1>2, <1>3, <1>4, OneTurns, Zenon

\* GoesOn moves a running thread between the places of its instruction.
LEMMA GoesOnKeeps ==
    ASSUME BarrierInv, NEW t \in Threads, thread[t].state = "running",
           NEW w \in {"check", "code", "evaluate", "leaving"}, GoesOn(t, w), UNCHANGED <<host, ctxDone>>
    PROVE  BarrierInv'
<1>0. thread \in [Threads -> Records] /\ host \in [Callbacks -> Somebody]
  BY DEF BarrierInv, DebugTypes
<1>1. /\ thread' \in [Threads -> Records] /\ \A u \in Threads \ {t} : thread'[u] = thread[u]
      /\ thread'[t].state = thread[t].state /\ thread'[t].gen = thread[t].gen /\ thread'[t].at = w
  BY <1>0 DEF GoesOn, Records, Stations
<1>2. SeatOf(thread'[t])
  BY <1>1 DEF SeatOf
<1> QED BY <1>0, <1>1, <1>2, GoKeeps DEF GoesOn

\* The client changes the session, and may leave tokens; a release leaves one
\* for every parked thread.
LEMMA ClientKeeps ==
    ASSUME BarrierInv, thread' \in [Threads -> Records],
           \A u \in Threads : /\ thread'[u].state = thread[u].state /\ thread'[u].at = thread[u].at
                              /\ thread'[u].gen = thread[u].gen
                              /\ thread[u].wake => thread'[u].wake,
           session' \in Sessions, Hot(session'), session'.running = session.running,
           session'.stopGen = session.stopGen, session'.step.vm \in Attached \cup {NoThread},
           \/ session'.stopped = session.stopped
           \/ /\ ~session'.stopped
              /\ \A u \in Threads : thread[u].state = "parked" => thread'[u].wake,
           session.terminated => session'.terminated, ctxDone => ctxDone',
           ctxDone' \in BOOLEAN, UNCHANGED host
    PROVE  BarrierInv'
<1>1. DebugTypes' /\ Stamped'
  BY DEF BarrierInv, DebugTypes, Stamped
<1>2. Placed'
  BY DEF BarrierInv, Placed, SeatOf
<1>3. Excused'
  BY DEF BarrierInv, Excused, Stands, Released
<1>4. WakeupPending'
  BY DEF BarrierInv, WakeupPending, Stands, Released, Placed, SeatOf
<1>5. Attached' = Attached /\ Runners' = Runners
  BY DEF Attached, Runners
<1>6. Counts' /\ StepAttached'
  BY <1>5 DEF BarrierInv, Counts, StepAttached
<1> QED BY <1>1, <1>2, <1>3, <1>4, <1>6 DEF BarrierInv

\* releaseWorldLocked puts a token into the channel of every parked thread.
LEMMA PokedDoes ==
    ASSUME BarrierInv
    PROVE  /\ Poked \in [Threads -> Records]
           /\ \A u \in Threads :
                  /\ Poked[u].state = thread[u].state /\ Poked[u].at = thread[u].at
                  /\ Poked[u].gen = thread[u].gen
                  /\ (thread[u].wake => Poked[u].wake)
                  /\ (thread[u].state = "parked" => Poked[u].wake)
<1>1. ASSUME NEW u \in Threads
      PROVE  LET r == [thread[u] EXCEPT !.wake = @ \/ thread[u].state = "parked"] IN
             /\ r \in Records /\ r.state = thread[u].state /\ r.at = thread[u].at
             /\ r.gen = thread[u].gen /\ (thread[u].wake => r.wake)
             /\ (thread[u].state = "parked" => r.wake)
  <2> DEFINE w == thread[u].wake \/ thread[u].state = "parked"
  <2>1. thread[u] \in Records /\ w \in BOOLEAN
    BY Zenon DEF BarrierInv, DebugTypes
  <2>2. thread[u].wake => w
    OBVIOUS
  <2>3. thread[u].state = "parked" => w
    OBVIOUS
  <2> HIDE DEF w
  <2> DEFINE r == [thread[u] EXCEPT !.wake = w]
  <2>4. /\ r \in Records /\ r.state = thread[u].state /\ r.at = thread[u].at
        /\ r.gen = thread[u].gen /\ r.wake = w
    BY <2>1 DEF Records
  <2>5. r = [thread[u] EXCEPT !.wake = @ \/ thread[u].state = "parked"]
    BY DEF w
  <2> HIDE DEF r
  <2> QED BY <2>2, <2>3, <2>4, <2>5
<1> QED BY <1>1, Zenon DEF Poked

-----------------------------------------------------------------------------
\* A thread enters, or a callback with the thread that runs it.
LEMMA RegisterKeeps ==
    ASSUME BarrierInv, NEW c \in Threads, Register(c),
           thread' \in [Threads -> Records], thread'[c] = [Out EXCEPT !.at = "check", !.state = "running"],
           \A u \in Threads \ {c} :
               /\ thread'[u].state = thread[u].state /\ thread'[u].gen = thread[u].gen
               /\ thread'[u].wake = thread[u].wake /\ SeatOf(thread'[u])
               /\ thread'[u].at \in {"select", "resume"} => thread'[u].at = thread[u].at,
           host' \in [Callbacks -> Somebody], UNCHANGED ctxDone
    PROVE  BarrierInv'
<1>0. session \in Sessions /\ session.running \in Int /\ session.stopGen \in Nat /\ ctxDone \in BOOLEAN
      /\ Hot(session)
  BY DEF BarrierInv, DebugTypes, Sessions
<1>1. thread[c].state = "none" /\ session' = [session EXCEPT !.running = session.running + 1]
  BY DEF Register, Out
<1>2. /\ session' \in Sessions /\ session'.stopped = session.stopped
      /\ session'.stopGen = session.stopGen /\ session'.running = session.running + 1
      /\ session'.step = session.step /\ session'.terminated = session.terminated /\ Hot(session')
  <2>1. session.running + 1 \in Int
    BY <1>0
  <2> QED BY <1>0, <1>1, <2>1, RecountDoes, ZenonT(40)
<1>3. thread'[c].state = "running" /\ thread'[c].gen = 0 /\ thread'[c].at = "check"
  BY DEF Out
<1>4. SeatOf(thread'[c])
  BY <1>3 DEF SeatOf
<1>5. StepAttached'
  <2>1. Attached \subseteq Attached'
    BY <1>1 DEF Attached
  <2> QED BY <1>2, <2>1 DEF BarrierInv, StepAttached
<1>6. session'.running = session.running + (IF thread'[c].state = "running" THEN 1 ELSE 0)
                                         - (IF thread[c].state = "running" THEN 1 ELSE 0)
  BY <1>0, <1>1, <1>2, <1>3
<1>7. thread'[c].gen <= session'.stopGen /\ session'.stopGen >= session.stopGen
  BY <1>0, <1>2, <1>3
<1>8. thread'[c].at # "select" /\ thread'[c].at # "resume"
  BY <1>3
<1> QED BY <1>0, <1>2, <1>4, <1>5, <1>6, <1>7, <1>8, TurnKeeps, Zenon

\* Execute registers a thread that runs (debugEnter).
LEMMA EnterKeeps ==
    ASSUME BarrierInv, NEW t \in Threads, Enter(t)
    PROVE  BarrierInv'
<1> DEFINE r == [Out EXCEPT !.at = "check", !.state = "running"]
<1>1. r \in Records
  BY Zenon DEF Out, Records, Stations
<1>2. thread \in [Threads -> Records] /\ host \in [Callbacks -> Somebody] /\ Placed
  BY DEF BarrierInv, DebugTypes
<1>3. thread' = [thread EXCEPT ![t] = r] /\ Register(t) /\ UNCHANGED <<host, ctxDone>>
  BY DEF Enter
<1>4. thread' \in [Threads -> Records] /\ thread'[t] = r /\ \A u \in Threads \ {t} : thread'[u] = thread[u]
  BY <1>1, <1>2, <1>3
<1> QED BY <1>2, <1>3, <1>4, RegisterKeeps DEF Placed

\* A native call registers the machine of the closure and waits for it.
LEMMA CallBackKeeps ==
    ASSUME BarrierInv, NEW p \in Threads, NEW c \in Callbacks, CallBack(p, c)
    PROVE  BarrierInv'
<1> DEFINE r == [Out EXCEPT !.at = "check", !.state = "running"]
           q == [thread[p] EXCEPT !.at = "native"]
<1>0. /\ thread \in [Threads -> Records] /\ host \in [Callbacks -> Somebody] /\ Placed
      /\ c \in Threads /\ p \in Somebody
  BY BarrierBounds DEF BarrierInv, DebugTypes, Somebody
<1>1. thread[c] = Out /\ thread[p].at \in {"blocked", "code"} /\ c # p
  BY DEF CallBack, Register, Stands, Out
<1>2. r \in Records
  BY Zenon DEF Out, Records, Stations
<1>3. thread[p] \in Records /\ SeatOf(thread[p])
  BY <1>0 DEF Placed
<1>4. /\ q \in Records /\ q.state = thread[p].state /\ q.gen = thread[p].gen
      /\ q.wake = thread[p].wake /\ q.at = "native"
  BY <1>3 DEF Records, Stations
<1>5. SeatOf(q)
  BY <1>1, <1>3, <1>4 DEF SeatOf
<1>6. thread' = [thread EXCEPT ![c] = r, ![p].at = "native"] /\ Register(c) /\ UNCHANGED ctxDone
      /\ host' = [host EXCEPT ![c] = p]
  BY DEF CallBack
<1>7. host' \in [Callbacks -> Somebody]
  BY <1>0, <1>6
<1>8. thread' = [u \in Threads |-> IF u = c THEN r ELSE IF u = p THEN q ELSE thread[u]]
  BY <1>0, <1>1, <1>6, ZenonT(30)
<1> HIDE DEF q
<1>9. /\ thread' \in [Threads -> Records] /\ thread'[c] = r /\ thread'[p] = q
      /\ \A u \in Threads \ {c, p} : thread'[u] = thread[u]
  BY <1>0, <1>1, <1>2, <1>4, <1>8
<1>10. ASSUME NEW u \in Threads \ {c}
       PROVE  /\ thread'[u].state = thread[u].state /\ thread'[u].gen = thread[u].gen
              /\ thread'[u].wake = thread[u].wake /\ SeatOf(thread'[u])
              /\ thread'[u].at \in {"select", "resume"} => thread'[u].at = thread[u].at
  <2>1. CASE u = p
    BY <1>4, <1>5, <1>9, <2>1
  <2>2. CASE u # p
    BY <1>0, <1>9, <2>2 DEF Placed
  <2> QED BY <2>1, <2>2
<1> QED BY <1>0, <1>6, <1>7, <1>9, <1>10, RegisterKeeps

\* The hooks inside a running thread pause it or let it go on.
LEMMA HookKeeps ==
    ASSUME BarrierInv, NEW t \in Threads,
           SafePoint(t) \/ EndEvaluate(t) \/ PanicPoint(t) \/ EndInstruction(t)
    PROVE  BarrierInv'
<1> DEFINE z == [session EXCEPT !.pauseRequested = FALSE]
<1>0. session \in Sessions /\ Hot(session) /\ UNCHANGED <<host, ctxDone>>
  BY DEF BarrierInv, DebugTypes, SafePoint, EndEvaluate, PanicPoint, EndInstruction
<1>1. thread[t].state = "running"
  BY DEF BarrierInv, Placed, SeatOf, SafePoint, EndEvaluate, PanicPoint, EndInstruction, Stands
<1>2. /\ z \in Sessions /\ z.stopped = session.stopped /\ z.stopGen = session.stopGen
      /\ z.running = session.running /\ z.step = session.step /\ z.terminated = session.terminated
      /\ z.active = session.active /\ ~z.pauseRequested /\ z.breakpoints = session.breakpoints
  BY <1>0, Zenon DEF Sessions
<1>3. Hot(z)
  BY <1>0, <1>2 DEF Hot
<1>4. \/ PauseHere(t, session) \/ PauseHere(t, z)
      \/ \E w \in {"check", "code", "evaluate", "leaving"} : GoesOn(t, w)
  BY Zenon DEF SafePoint, EndEvaluate, PanicPoint, EndInstruction
<1> HIDE DEF z
<1>5. CASE PauseHere(t, session)
  BY <1>0, <1>1, <1>5, PauseKeeps, Zenon
<1>6. CASE PauseHere(t, z)
  BY <1>0, <1>1, <1>2, <1>3, <1>6, PauseKeeps, ZenonT(30)
<1>7. CASE \E w \in {"check", "code", "evaluate", "leaving"} : GoesOn(t, w)
  BY <1>0, <1>1, <1>7, GoesOnKeeps
<1> QED BY <1>4, <1>5, <1>6, <1>7

\* A thread blocks or a parked one resumes: it changes its state and is counted.
LEMMA RecountKeeps ==
    ASSUME BarrierInv, NEW t \in Threads, NEW r \in Records, NEW n \in Int,
           thread' = [thread EXCEPT ![t] = r], UNCHANGED <<host, ctxDone>>,
           \/ session' = [session EXCEPT !.running = n]
           \/ session' = CheckQuiescent([session EXCEPT !.running = n]),
           n = session.running + (IF r.state = "running" THEN 1 ELSE 0)
                               - (IF thread[t].state = "running" THEN 1 ELSE 0),
           r.state # "none", SeatOf(r), r.at # "select", r.at # "resume", r.gen <= session.stopGen
    PROVE  BarrierInv'
<1>0. /\ session \in Sessions /\ Hot(session) /\ thread \in [Threads -> Records]
      /\ host \in [Callbacks -> Somebody]
  BY DEF BarrierInv, DebugTypes
<1>1. /\ session' \in Sessions /\ Hot(session') /\ session'.stopped = session.stopped
      /\ session'.stopGen = session.stopGen /\ session'.running = n
      /\ session'.step = session.step /\ session'.terminated = session.terminated
  <2> DEFINE w == [session EXCEPT !.running = n]
             q == CheckQuiescent(w)
  <2>1. /\ q \in Sessions /\ q.stopped = session.stopped /\ q.stopGen = session.stopGen /\ q.running = n
        /\ q.step = session.step /\ q.terminated = session.terminated /\ Hot(q)
        /\ w \in Sessions /\ w.stopped = session.stopped /\ w.stopGen = session.stopGen /\ w.running = n
        /\ w.step = session.step /\ w.terminated = session.terminated /\ Hot(w)
    BY <1>0, RecountDoes
  <2>2. session' = w \/ session' = q
    OBVIOUS
  <2> HIDE DEF w, q
  <2> QED BY <2>1, <2>2
<1>2. /\ thread' \in [Threads -> Records] /\ thread'[t] = r
      /\ \A u \in Threads \ {t} : thread'[u] = thread[u]
  BY <1>0
<1>3. session'.running = session.running + (IF thread'[t].state = "running" THEN 1 ELSE 0)
                                         - (IF thread[t].state = "running" THEN 1 ELSE 0)
  BY <1>1, <1>2
<1>4. thread'[t].gen <= session'.stopGen
  BY <1>1, <1>2
<1>5. thread'[t].state # "none" /\ SeatOf(thread'[t]) /\ thread'[t].at # "select" /\ thread'[t].at # "resume"
  BY <1>2, Zenon
<1> QED BY <1>0, <1>1, <1>2, <1>3, <1>4, <1>5, OneTurns, Zenon

\* releaseAroundBlock: the thread is no longer counted.
LEMMA BlockEnterKeeps ==
    ASSUME BarrierInv, NEW t \in Threads, BlockEnter(t)
    PROVE  BarrierInv'
<1> DEFINE r == [thread[t] EXCEPT !.at = "blocked", !.state = "blocked"]
           n == session.running - 1
<1>0. /\ session.running \in Int /\ thread \in [Threads -> Records] /\ thread[t] \in Records
      /\ thread[t].gen <= session.stopGen
  BY DEF BarrierInv, DebugTypes, Sessions, Stamped
<1>1. thread[t].state = "running"
  BY DEF BarrierInv, Placed, SeatOf, BlockEnter, Stands
<1>2. r \in Records /\ r.state = "blocked" /\ r.at = "blocked" /\ r.gen = thread[t].gen
  BY <1>0, Zenon DEF Records, Stations
<1>3. /\ thread' = [thread EXCEPT ![t] = r] /\ session' = CheckQuiescent([session EXCEPT !.running = n])
      /\ UNCHANGED <<host, ctxDone>>
  BY <1>0, Zenon DEF BlockEnter
<1>4. n \in Int /\ n = session.running + (IF r.state = "running" THEN 1 ELSE 0)
                                       - (IF thread[t].state = "running" THEN 1 ELSE 0)
  BY <1>0, <1>1, <1>2
<1> HIDE DEF r, n
<1>5. SeatOf(r) /\ r.state # "none" /\ r.at # "select" /\ r.at # "resume" /\ r.gen <= session.stopGen
  BY <1>0, <1>2 DEF SeatOf
<1> QED BY <1>2, <1>3, <1>4, <1>5, RecountKeeps, Zenon

\* reacquireAfterBlock parks the thread for a stop it missed, or counts it again.
LEMMA BlockLeaveKeeps ==
    ASSUME BarrierInv, NEW t \in Threads, BlockLeave(t)
    PROVE  BarrierInv'
<1>0. /\ session \in Sessions /\ session.running \in Int /\ session.stopGen \in Nat
      /\ thread \in [Threads -> Records] /\ thread[t] \in Records /\ thread[t].gen <= session.stopGen
  BY DEF BarrierInv, DebugTypes, Sessions, Stamped
<1>1. thread[t].state = "blocked" /\ UNCHANGED <<host, ctxDone>>
  BY DEF BarrierInv, Placed, SeatOf, BlockLeave, Stands
<1>2. CASE session.stopped /\ thread[t].gen # session.stopGen
  <2> DEFINE r == [thread[t] EXCEPT !.state = "parked", !.at = "look", !.gen = session.stopGen,
                                    !.inBlock = TRUE]
             n == session.running
  <2>1. r \in Records /\ r.state = "parked" /\ r.at = "look" /\ r.gen = session.stopGen
    BY <1>0, Zenon DEF Records, Stations
  <2>2. thread' = [thread EXCEPT ![t] = r] /\ session' = CheckQuiescent(session)
    BY <1>0, <1>2, Zenon DEF BlockLeave
  <2>3. session = [session EXCEPT !.running = n]
    BY <1>0 DEF Sessions
  <2>4. n \in Int /\ n = session.running + (IF r.state = "running" THEN 1 ELSE 0)
                                         - (IF thread[t].state = "running" THEN 1 ELSE 0)
    BY <1>0, <1>1, <2>1
  <2> HIDE DEF r, n
  <2>5. SeatOf(r) /\ r.state # "none" /\ r.at # "select" /\ r.at # "resume" /\ r.gen <= session.stopGen
    BY <1>0, <2>1 DEF SeatOf
  <2>6. session' = CheckQuiescent([session EXCEPT !.running = n])
    BY <2>2, <2>3, ZenonT(30)
  <2> QED BY <1>1, <2>1, <2>2, <2>4, <2>5, <2>6, RecountKeeps, ZenonT(30)
<1>3. CASE ~(session.stopped /\ thread[t].gen # session.stopGen)
  <2> DEFINE r == [thread[t] EXCEPT !.state = "running", !.at = "unlocked"]
             n == session.running + 1
  <2>1. r \in Records /\ r.state = "running" /\ r.at = "unlocked" /\ r.gen = thread[t].gen
    BY <1>0, Zenon DEF Records, Stations
  <2>2. thread' = [thread EXCEPT ![t] = r] /\ session' = [session EXCEPT !.running = n]
    BY <1>0, <1>3, ZenonT(30) DEF BlockLeave
  <2>4. n \in Int /\ n = session.running + (IF r.state = "running" THEN 1 ELSE 0)
                                         - (IF thread[t].state = "running" THEN 1 ELSE 0)
    BY <1>0, <1>1, <2>1
  <2> HIDE DEF r, n
  <2>5. SeatOf(r) /\ r.state # "none" /\ r.at # "select" /\ r.at # "resume" /\ r.gen <= session.stopGen
    BY <1>0, <2>1 DEF SeatOf
  <2> QED BY <1>1, <2>1, <2>2, <2>4, <2>5, RecountKeeps, Zenon
<1> QED BY <1>2, <1>3

\* Relock, and the loop of waitReleased: the session stays as it is.
LEMMA WaitKeeps ==
    ASSUME BarrierInv, NEW t \in Threads, Relock(t) \/ WaitReleased(t) \/ Select(t)
    PROVE  BarrierInv'
<1>0. /\ session \in Sessions /\ session.terminated \in BOOLEAN
      /\ thread \in [Threads -> Records] /\ thread[t] \in Records /\ host \in [Callbacks -> Somebody]
  BY DEF BarrierInv, DebugTypes, Sessions
<1>1. UNCHANGED <<session, host, ctxDone>>
  BY DEF Relock, WaitReleased, Select
<1>2. CASE Relock(t)
  <2>1. thread[t].state = "running"
    BY <1>2 DEF BarrierInv, Placed, SeatOf, Relock, Stands
  <2>2. /\ thread' \in [Threads -> Records] /\ \A u \in Threads \ {t} : thread'[u] = thread[u]
        /\ thread'[t].state = thread[t].state /\ thread'[t].gen = thread[t].gen /\ thread'[t].at = "check"
    BY <1>0, <1>2 DEF Relock, Records, Stations
  <2>3. SeatOf(thread'[t])
    BY <2>1, <2>2 DEF SeatOf
  <2> QED BY <1>0, <1>1, <2>1, <2>2, <2>3, GoKeeps
<1>3. CASE WaitReleased(t) \/ Select(t)
  <2>1. thread[t].state = "parked"
    BY <1>3 DEF BarrierInv, Placed, SeatOf, WaitReleased, Select, Stands
  <2> SUFFICES ASSUME NEW r \in Records, thread' = [thread EXCEPT ![t] = r],
                      r.state = thread[t].state, r.gen = thread[t].gen,
                      r.at \in {"look", "select", "resume"},
                      r.at = "select" => ~Released(t),
                      r.at = "resume" => Released(t) \/ session.terminated \/ ctxDone
               PROVE  BarrierInv'
    <3>1. CASE WaitReleased(t)
      <4> DEFINE w == IF session.terminated \/ Released(t) THEN "resume" ELSE "select"
                 r == [thread[t] EXCEPT !.stop = session.terminated, !.at = w]
      <4>1. /\ w \in Stations /\ w \in {"look", "select", "resume"}
            /\ w = "select" => ~Released(t)
            /\ w = "resume" => Released(t) \/ session.terminated \/ ctxDone
        BY DEF Stations
      <4>2. thread' = [thread EXCEPT ![t] = r]
        BY <1>0, <3>1, Zenon DEF WaitReleased
      <4> HIDE DEF w
      <4>3. r \in Records /\ r.state = thread[t].state /\ r.gen = thread[t].gen /\ r.at = w
        BY <1>0, <4>1, Zenon DEF Records
      <4> HIDE DEF r
      <4> QED BY <4>1, <4>2, <4>3, Zenon
    <3>2. CASE Select(t) /\ thread' = [thread EXCEPT ![t].wake = FALSE, ![t].at = "look"]
      <4> DEFINE r == [thread[t] EXCEPT !.wake = FALSE, !.at = "look"]
      <4>1. r \in Records /\ r.state = thread[t].state /\ r.gen = thread[t].gen /\ r.at = "look"
        BY <1>0, Zenon DEF Records, Stations
      <4>2. thread' = [thread EXCEPT ![t] = r]
        BY <1>0, <3>2, Zenon
      <4> HIDE DEF r
      <4> QED BY <4>1, <4>2, Zenon
    <3>3. CASE /\ Select(t) /\ (ctxDone \/ session.terminated)
               /\ thread' = [thread EXCEPT ![t].stop = TRUE, ![t].at = "resume"]
      <4> DEFINE r == [thread[t] EXCEPT !.stop = TRUE, !.at = "resume"]
      <4>1. r \in Records /\ r.state = thread[t].state /\ r.gen = thread[t].gen /\ r.at = "resume"
        BY <1>0, Zenon DEF Records, Stations
      <4>2. thread' = [thread EXCEPT ![t] = r]
        BY <1>0, <3>3, Zenon
      <4> HIDE DEF r
      <4> QED BY <3>3, <4>1, <4>2, Zenon
    <3> QED BY <1>3, <3>1, <3>2, <3>3, ZenonT(30) DEF Select
  <2>2. /\ thread' \in [Threads -> Records] /\ thread'[t] = r
        /\ \A u \in Threads \ {t} : thread'[u] = thread[u]
    BY <1>0
  <2>3. SeatOf(r)
    BY <2>1 DEF SeatOf
  <2> QED BY <1>0, <1>1, <2>1, <2>2, <2>3, GoKeeps
<1> QED BY <1>2, <1>3

\* The end of parkLocked: the thread is counted again.
LEMMA ResumedKeeps ==
    ASSUME BarrierInv, NEW t \in Threads, Resumed(t)
    PROVE  BarrierInv'
<1> DEFINE w == CASE thread[t].inBlock -> "unlocked"
                  [] ~thread[t].inBlock /\ thread[t].stop -> "leaving"
                  [] OTHER -> "code"
           r == [thread[t] EXCEPT !.state = "running", !.stop = FALSE, !.inBlock = FALSE, !.at = w]
           n == session.running + 1
<1>0. /\ session.running \in Int /\ thread \in [Threads -> Records] /\ thread[t] \in Records
      /\ thread[t].gen <= session.stopGen
  BY DEF BarrierInv, DebugTypes, Sessions, Stamped
<1>1. thread[t].state = "parked" /\ UNCHANGED <<host, ctxDone>>
  BY DEF BarrierInv, Placed, SeatOf, Resumed, Stands
<1>2. w \in {"unlocked", "leaving", "code"}
  BY <1>0, Zenon
<1>3. thread' = [thread EXCEPT ![t] = r] /\ session' = [session EXCEPT !.running = n]
  BY <1>0, Zenon DEF Resumed
<1> HIDE DEF w
<1>4. r \in Records /\ r.state = "running" /\ r.at = w /\ r.gen = thread[t].gen
  BY <1>0, <1>2, Zenon DEF Records, Stations
<1>5. n \in Int /\ n = session.running + (IF r.state = "running" THEN 1 ELSE 0)
                                       - (IF thread[t].state = "running" THEN 1 ELSE 0)
  BY <1>0, <1>1, <1>4
<1> HIDE DEF r, n
<1>6. SeatOf(r) /\ r.state # "none" /\ r.at # "select" /\ r.at # "resume" /\ r.gen <= session.stopGen
  BY <1>0, <1>2, <1>4 DEF SeatOf
<1> QED BY <1>1, <1>3, <1>4, <1>5, <1>6, RecountKeeps, Zenon

\* debugLeave: the session after the thread, the last one or not.
LEMMA LeaveDoes ==
    ASSUME BarrierInv, NEW t \in Threads, Leave(t)
    PROVE  /\ session' \in Sessions /\ Hot(session')
           /\ session'.running = session.running - 1 /\ session'.stopGen = session.stopGen
           /\ session'.step.vm \in (Attached \ {t}) \cup {NoThread}
           /\ Attached # {t} => /\ session'.stopped = session.stopped
                                /\ session'.terminated = session.terminated
<1> DEFINE n == session.running - 1
           e == StepAfterExit(t)
           c == [session EXCEPT !.running = n, !.step = e]
           a == RecomputeActive(c)
           l == CheckQuiescent(a)
           z == [l EXCEPT !.terminated = FALSE, !.stopped = FALSE,
                          !.pauseRequested = FALSE, !.focus = NoThread, !.step = NoStep]
           o == RecomputeActive(z)
<1>0. /\ session \in Sessions /\ n \in Int /\ session.step \in Steps
      /\ session.step.vm \in Attached \cup {NoThread}
  BY DEF BarrierInv, DebugTypes, StepAttached, Sessions
<1>1. NoStep \in Steps /\ NoStep.vm = NoThread /\ NoThread \in Somebody
  BY DEF NoStep, Steps, Somebody
<1>2. e \in Steps /\ e.vm \in (Attached \ {t}) \cup {NoThread}
  <2>1. CASE session.step.vm # t
    BY <1>0, <2>1 DEF StepAfterExit
  <2>2. CASE session.step.vm = t /\ t \in Callbacks
    BY <1>0, <1>1, <2>2, Zenon DEF StepAfterExit, Steps
  <2>3. CASE session.step.vm = t /\ t \notin Callbacks
    BY <1>1, <2>3 DEF StepAfterExit
  <2> QED BY <2>1, <2>2, <2>3
<1>3. session' = IF Attached = {t} THEN o ELSE l
  BY ZenonT(30) DEF Leave
<1> HIDE DEF n, e
<1>4. /\ c \in Sessions /\ c.running = n /\ c.step = e /\ c.stopGen = session.stopGen
      /\ c.stopped = session.stopped /\ c.terminated = session.terminated
  BY <1>0, <1>2, Zenon DEF Sessions
<1> HIDE DEF c
<1>5. /\ a \in Sessions /\ Hot(a) /\ a.running = c.running /\ a.step = c.step
      /\ a.stopGen = c.stopGen /\ a.stopped = c.stopped /\ a.terminated = c.terminated
  BY <1>4, RecomputeActiveDoes
<1> HIDE DEF a
<1>6. /\ l \in Sessions /\ Hot(l) /\ l.running = a.running /\ l.step = a.step
      /\ l.stopGen = a.stopGen /\ l.stopped = a.stopped /\ l.terminated = a.terminated
  BY <1>5, CheckQuiescentDoes
<1> HIDE DEF l
<1>7. z \in Sessions /\ z.running = l.running /\ z.step = NoStep /\ z.stopGen = l.stopGen
  BY <1>1, <1>6, ZenonT(30) DEF Sessions
<1> HIDE DEF z
<1>8. o \in Sessions /\ Hot(o) /\ o.running = z.running /\ o.step = z.step /\ o.stopGen = z.stopGen
  BY <1>7, RecomputeActiveDoes
<1> HIDE DEF o
<1>9. CASE Attached = {t}
  BY <1>1, <1>3, <1>4, <1>5, <1>6, <1>7, <1>8, <1>9 DEF n
<1>10. CASE Attached # {t}
  BY <1>2, <1>3, <1>4, <1>5, <1>6, <1>10 DEF n
<1> QED BY <1>9, <1>10

\* debugLeave: the thread is forgotten, and the last one resets the session.
LEMMA LeaveKeeps ==
    ASSUME BarrierInv, NEW t \in Threads, Leave(t)
    PROVE  BarrierInv'
<1>0. /\ session \in Sessions /\ session.running \in Int /\ session.stopGen \in Nat
      /\ thread \in [Threads -> Records] /\ host \in [Callbacks -> Somebody] /\ Placed
      /\ ctxDone \in BOOLEAN
  BY DEF BarrierInv, DebugTypes, Sessions
<1>1. thread[t].state = "running"
  BY <1>0 DEF Placed, SeatOf, Leave, Stands
<1>2. /\ session' \in Sessions /\ Hot(session')
      /\ session'.running = session.running - 1 /\ session'.stopGen = session.stopGen
      /\ session'.step.vm \in (Attached \ {t}) \cup {NoThread}
      /\ Attached # {t} => /\ session'.stopped = session.stopped
                           /\ session'.terminated = session.terminated
  BY LeaveDoes
<1>3. host' \in [Callbacks -> Somebody]
  BY <1>0 DEF Leave, Somebody
<1>4. ctxDone' \in BOOLEAN /\ (Attached # {t} => ctxDone' = ctxDone)
  BY <1>0, Zenon DEF Leave
<1>5. DOMAIN thread' = Threads /\ thread' = [u \in Threads |-> thread'[u]]
  BY Zenon DEF Leave
<1>6. thread'[t] = Out
  BY DEF Leave
<1>7. ASSUME NEW u \in Threads \ {t}
      PROVE  /\ thread'[u] \in Records /\ thread'[u].state = thread[u].state
             /\ thread'[u].gen = thread[u].gen /\ thread'[u].wake = thread[u].wake
             /\ SeatOf(thread'[u])
             /\ thread'[u].at \in {"select", "resume"} => thread'[u].at = thread[u].at
  <2> DEFINE w == IF thread[u].at # "native" THEN thread[u].at
                  ELSE IF thread[u].state = "blocked" THEN "blocked" ELSE "code"
             r == [thread[u] EXCEPT !.at = w]
  <2>1. thread[u] \in Records /\ thread[u].at \in Stations /\ SeatOf(thread[u])
    BY <1>0 DEF Placed, Records
  <2>2. thread'[u] = r \/ thread'[u] = thread[u]
    BY Zenon DEF Leave
  <2>3. w \in Stations /\ (w \in {"select", "resume"} => w = thread[u].at)
    BY <2>1 DEF Stations
  <2>4. w = thread[u].at \/ (w = "blocked" /\ thread[u].state = "blocked")
                         \/ (w = "code" /\ thread[u].state = "running")
    BY <2>1 DEF SeatOf
  <2> HIDE DEF w
  <2>5. /\ r \in Records /\ r.state = thread[u].state /\ r.gen = thread[u].gen
        /\ r.wake = thread[u].wake /\ r.at = w
    BY <2>1, <2>3 DEF Records
  <2> HIDE DEF r
  <2>6. SeatOf(r)
    BY <2>1, <2>4, <2>5 DEF SeatOf
  <2> QED BY <2>1, <2>2, <2>3, <2>5, <2>6, Zenon
<1>8. Out \in Records /\ Out.state = "none" /\ Out.gen = 0 /\ Out.at = "out"
  BY DEF Out, Records, Stations
<1>9. thread' \in [Threads -> Records]
  BY <1>5, <1>6, <1>7, <1>8
<1>10. /\ SeatOf(thread'[t]) /\ thread'[t].gen <= session'.stopGen
       /\ thread'[t].at # "select" /\ thread'[t].at # "resume"
       /\ session'.stopGen >= session.stopGen
       /\ session'.running = session.running + (IF thread'[t].state = "running" THEN 1 ELSE 0)
                                             - (IF thread[t].state = "running" THEN 1 ELSE 0)
  BY <1>0, <1>1, <1>2, <1>6, <1>8 DEF SeatOf
<1>11. Attached' = Attached \ {t}
  BY <1>6, <1>7, <1>8 DEF Attached
<1>12. StepAttached'
  BY <1>2, <1>11 DEF StepAttached
<1>13. Attached = {t} => \A u \in Threads \ {t} : thread[u].state = "none"
  BY DEF Attached
<1>14. \A u \in Threads \ {t} :
           /\ thread'[u].state = thread[u].state /\ thread'[u].gen = thread[u].gen
           /\ thread'[u].wake = thread[u].wake /\ SeatOf(thread'[u])
           /\ thread'[u].at \in {"select", "resume"} => thread'[u].at = thread[u].at
  BY <1>7
<1> QED BY <1>2, <1>3, <1>4, <1>9, <1>10, <1>12, <1>13, <1>14, TurnKeeps, ZenonT(30)

\* releaseWorldLocked ends the stop and changes nothing else that is counted.
LEMMA ReleaseDoes ==
    ASSUME NEW s \in Sessions
    PROVE  LET r == ReleaseWorld(s) IN
           /\ r \in Sessions /\ Hot(r) /\ ~r.stopped
           /\ r.stopGen = s.stopGen /\ r.running = s.running
           /\ r.step = s.step /\ r.terminated = s.terminated
<1> DEFINE z == [s EXCEPT !.stopped = FALSE, !.focus = NoThread]
           r == RecomputeActive(z)
<1>1. NoThread \in Somebody
  BY DEF Somebody
<1>2. /\ z \in Sessions /\ z.stopped = FALSE /\ z.stopGen = s.stopGen /\ z.running = s.running
      /\ z.step = s.step /\ z.terminated = s.terminated
  BY <1>1, ZenonT(30) DEF Sessions
<1>3. ReleaseWorld(s) = r
  BY ZenonT(30) DEF ReleaseWorld
<1> HIDE DEF z
<1>4. /\ r \in Sessions /\ Hot(r) /\ r.stopped = z.stopped /\ r.stopGen = z.stopGen
      /\ r.running = z.running /\ r.step = z.step /\ r.terminated = z.terminated
  BY <1>2, RecomputeActiveDoes
<1> HIDE DEF r
<1> QED BY <1>2, <1>3, <1>4, Zenon

\* Resume: the step is set, the stop ends and every parked thread has a token.
LEMMA ResumeKeeps ==
    ASSUME BarrierInv, NEW t \in Threads, NEW mode \in {"none", "in", "over"}, Resume(t, mode)
    PROVE  BarrierInv'
<1> DEFINE e == IF mode = "none" THEN NoStep
                ELSE [mode |-> mode, vm |-> t, goroutine |-> GoroutineOf(t)]
           c == [session EXCEPT !.step = e]
<1>0. session \in Sessions /\ host \in [Callbacks -> Somebody] /\ ctxDone \in BOOLEAN
  BY DEF BarrierInv, DebugTypes
<1>1. GoroutineOf(t) \in Somebody
  BY <1>0 DEF GoroutineOf, Somebody
<1>2. e \in Steps /\ e.vm \in Attached \cup {NoThread}
  BY <1>1 DEF Resume, Attached, Steps, NoStep, Somebody
<1>3. session' = ReleaseWorld(c) /\ thread' = Poked /\ UNCHANGED <<host, ctxDone>>
  BY Zenon DEF Resume
<1> HIDE DEF e
<1>4. /\ c \in Sessions /\ c.stopGen = session.stopGen /\ c.running = session.running
      /\ c.step = e /\ c.terminated = session.terminated
  BY <1>0, <1>2 DEF Sessions
<1> HIDE DEF c
<1>5. /\ session' \in Sessions /\ Hot(session') /\ ~session'.stopped
      /\ session'.stopGen = c.stopGen /\ session'.running = c.running
      /\ session'.step = c.step /\ session'.terminated = c.terminated
  BY <1>3, <1>4, ReleaseDoes, Zenon
<1> QED BY <1>0, <1>2, <1>3, <1>4, <1>5, PokedDoes, ClientKeeps

\* Stop: the session is terminated, and a stopped world is released.
LEMMA StopKeeps ==
    ASSUME BarrierInv, StopSession
    PROVE  BarrierInv'
<1> DEFINE b == IF session.stopped THEN ReleaseWorld(session) ELSE session
           c == [b EXCEPT !.terminated = TRUE]
<1>0. /\ session \in Sessions /\ Hot(session) /\ session.step.vm \in Attached \cup {NoThread}
      /\ thread \in [Threads -> Records]
  BY DEF BarrierInv, DebugTypes, StepAttached
<1>1. /\ session' = RecomputeActive(c) /\ thread' = (IF session.stopped THEN Poked ELSE thread)
      /\ ctxDone' = TRUE /\ UNCHANGED host
  BY Zenon DEF StopSession, Terminate
<1>2. /\ b \in Sessions /\ b.stopGen = session.stopGen /\ b.running = session.running
      /\ b.step = session.step
      /\ IF session.stopped THEN ~b.stopped ELSE b.stopped = session.stopped
  BY <1>0, ReleaseDoes
<1> HIDE DEF b
<1>3. /\ c \in Sessions /\ c.stopGen = b.stopGen /\ c.running = b.running
      /\ c.step = b.step /\ c.stopped = b.stopped /\ c.terminated = TRUE
  BY <1>2, Zenon DEF Sessions
<1> HIDE DEF c
<1>4. /\ session' \in Sessions /\ Hot(session') /\ session'.stopped = c.stopped
      /\ session'.stopGen = c.stopGen /\ session'.running = c.running
      /\ session'.step = c.step /\ session'.terminated = c.terminated
  BY <1>1, <1>3, RecomputeActiveDoes, ZenonT(30)
<1>5. CASE session.stopped
  BY <1>0, <1>1, <1>2, <1>3, <1>4, <1>5, PokedDoes, ClientKeeps, ZenonT(30)
<1>6. CASE ~session.stopped
  BY <1>0, <1>1, <1>2, <1>3, <1>4, <1>6, ClientKeeps
<1> QED BY <1>5, <1>6

\* The requests that only set a flag.
LEMMA RequestKeeps ==
    ASSUME BarrierInv, RequestPause \/ CancelExecution \/ \E any \in BOOLEAN : SetBreakpoints(any)
    PROVE  BarrierInv'
<1>0. /\ session \in Sessions /\ Hot(session) /\ session.step.vm \in Attached \cup {NoThread}
      /\ thread \in [Threads -> Records] /\ ctxDone \in BOOLEAN
  BY DEF BarrierInv, DebugTypes, StepAttached
<1>1. CASE CancelExecution
  BY <1>0, <1>1, ClientKeeps DEF CancelExecution
<1>2. CASE RequestPause \/ \E any \in BOOLEAN : SetBreakpoints(any)
  <2>1. UNCHANGED <<thread, host, ctxDone>>
    BY <1>2, Zenon DEF RequestPause, SetBreakpoints
  <2> SUFFICES ASSUME NEW z \in Sessions, session' = RecomputeActive(z),
                      z.stopped = session.stopped, z.stopGen = session.stopGen,
                      z.running = session.running, z.step = session.step,
                      z.terminated = session.terminated
               PROVE  BarrierInv'
    <3>1. CASE RequestPause
      <4> DEFINE z == [session EXCEPT !.pauseRequested = TRUE]
      <4>1. /\ z \in Sessions /\ z.stopped = session.stopped /\ z.stopGen = session.stopGen
            /\ z.running = session.running /\ z.step = session.step
            /\ z.terminated = session.terminated
        BY <1>0, Zenon DEF Sessions
      <4> QED BY <3>1, <4>1, Zenon DEF RequestPause
    <3>2. ASSUME NEW any \in BOOLEAN, SetBreakpoints(any)
          PROVE  BarrierInv'
      <4> DEFINE z == [session EXCEPT !.breakpoints = any]
      <4>1. /\ z \in Sessions /\ z.stopped = session.stopped /\ z.stopGen = session.stopGen
            /\ z.running = session.running /\ z.step = session.step
            /\ z.terminated = session.terminated
        BY <1>0 DEF Sessions
      <4> QED BY <3>2, <4>1, Zenon DEF SetBreakpoints
    <3> QED BY <1>2, <3>1, <3>2
  <2>2. /\ session' \in Sessions /\ Hot(session') /\ session'.stopped = z.stopped
        /\ session'.stopGen = z.stopGen /\ session'.running = z.running
        /\ session'.step = z.step /\ session'.terminated = z.terminated
    BY RecomputeActiveDoes
  <2> QED BY <1>0, <2>1, <2>2, ClientKeeps
<1> QED BY <1>1, <1>2

\* Every step of the threads and of the client keeps the invariant.
LEMMA BarrierStep ==
    ASSUME BarrierInv, [DebugNext]_debugVars
    PROVE  BarrierInv'
<1>1. CASE UNCHANGED debugVars
  BY <1>1 DEF debugVars, BarrierInv, DebugTypes, Placed, Stamped, Excused, WakeupPending, Counts,
              Runners, StepAttached, Attached, Stands, Released
<1>2. CASE DebugNext
  BY <1>2, EnterKeeps, HookKeeps, BlockEnterKeeps, BlockLeaveKeeps, WaitKeeps, ResumedKeeps, LeaveKeeps,
     CallBackKeeps, ResumeKeeps, StopKeeps, RequestKeeps, ZenonT(40) DEF DebugNext
<1> QED BY <1>1, <1>2

-----------------------------------------------------------------------------
\* The invariant holds in every state of every execution under the debugger.
THEOREM BarrierInvariance == DebugSpec => []BarrierInv
<1>1. DebugInit => BarrierInv
  <2> SUFFICES ASSUME DebugInit PROVE BarrierInv
    OBVIOUS
  <2>1. NoStep \in Steps /\ NoThread \in Somebody /\ NoStep.vm = NoThread
    BY DEF NoStep, Steps, Somebody
  <2>2. Out \in Records /\ Out.at = "out" /\ Out.state = "none" /\ Out.gen = 0
    BY DEF Out, Records, Stations
  <2>3. DebugTypes
    <3>1. session \in Sessions
      BY <2>1 DEF DebugInit, Sessions
    <3>2. thread \in [Threads -> Records] /\ host \in [Callbacks -> Somebody] /\ ctxDone \in BOOLEAN
      BY <2>1, <2>2, ZenonT(30) DEF DebugInit
    <3> QED BY <3>1, <3>2 DEF DebugTypes
  <2>4. Placed /\ Stamped /\ Excused /\ WakeupPending
    BY <2>2 DEF DebugInit, Placed, SeatOf, Stamped, Excused, WakeupPending, Stands
  <2>5. Runners = {}
    BY <2>2 DEF DebugInit, Runners
  <2>6. Counts
    BY <2>5, FS_EmptySet DEF DebugInit, Counts
  <2>7. Hot(session) /\ StepAttached
    BY <2>1 DEF DebugInit, Hot, StepAttached
  <2> QED BY <2>3, <2>4, <2>6, <2>7 DEF BarrierInv
<1>2. BarrierInv /\ [DebugNext]_debugVars => BarrierInv'
  BY BarrierStep
<1> QED BY <1>1, <1>2, PTL DEF DebugSpec

\* The count the barrier waits on is the number of running threads, the flag
\* debugCheck reads first is set while a pause condition exists, a step names
\* an attached machine, and no wake-up of waitReleased is lost.
THEOREM BarrierIsSound == DebugSpec => []BarrierSound
<1>1. BarrierInv => BarrierSound
  BY Zenon DEF BarrierInv, BarrierSound, BarrierConsistent, Counts, Runners, Hot, StepAttached
<1> QED BY <1>1, BarrierInvariance, PTL

\* A thread parked for a stop (parkLocked) stays parked while that stop lasts,
\* unless the execution is ended or cancelled, whoever else takes a step.
THEOREM PauseIsHeld == DebugSpec => PauseHolds
<1> DEFINE Held(t) == thread'[t].state = "parked" /\ thread'[t].at \in {"look", "select"}
           Holds == \A t \in Threads :
                        /\ thread[t].state = "parked" /\ ~Released(t)
                        /\ session'.stopped /\ session'.stopGen = session.stopGen
                        /\ ~session.terminated /\ ~ctxDone
                        => Held(t)
<1>1. ASSUME BarrierInv, DebugNext
      PROVE  Holds
  <2> SUFFICES ASSUME NEW t \in Threads, thread[t].state = "parked", ~Released(t),
                      ~session.terminated, ~ctxDone
               PROVE  Held(t)
    BY Zenon
  <2>0. thread \in [Threads -> Records] /\ thread[t] \in Records
    BY <1>1 DEF BarrierInv, DebugTypes
  <2>1. thread[t].at \in {"look", "select"}
    BY <1>1, <2>0 DEF BarrierInv, Placed, SeatOf, Excused, Stands, Records, Stations
  <2>2. thread[t] # Out
    BY DEF Out
  <2>3. ASSUME thread'[t] = thread[t]
        PROVE  Held(t)
    BY <2>1, <2>3
  <2>4. ASSUME NEW u \in Threads,
               \/ Enter(u) \/ SafePoint(u) \/ EndEvaluate(u) \/ PanicPoint(u) \/ EndInstruction(u)
               \/ BlockEnter(u) \/ BlockLeave(u) \/ Relock(u) \/ Resumed(u)
        PROVE  Held(t)
    <3>1. u # t
      BY <2>1, <2>2, <2>4 DEF Enter, Register, SafePoint, EndEvaluate, PanicPoint, EndInstruction,
                              BlockEnter, BlockLeave, Relock, Resumed, Stands, BarrierInv, Excused
    <3>2. thread'[t] = thread[t]
      BY <2>0, <2>4, <3>1 DEF Enter, SafePoint, EndEvaluate, PanicPoint, EndInstruction,
                              BlockEnter, BlockLeave, Relock, Resumed, PauseHere, GoesOn
    <3> QED BY <2>3, <3>2
  <2>5. ASSUME NEW u \in Threads, WaitReleased(u) \/ Select(u)
        PROVE  Held(t)
    <3>1. CASE u # t
      <4>1. thread'[t] = thread[t]
        BY <2>0, <2>5, <3>1 DEF WaitReleased, Select
      <4> QED BY <2>3, <4>1
    <3>2. CASE u = t
      <4>1. \/ thread' = [thread EXCEPT ![t].stop = session.terminated, ![t].at = "select"]
            \/ thread' = [thread EXCEPT ![t].wake = FALSE, ![t].at = "look"]
        BY <2>5, <3>2, Zenon DEF WaitReleased, Select
      <4> QED BY <2>0, <4>1 DEF Records
    <3> QED BY <3>1, <3>2
  <2>6. ASSUME NEW u \in Threads, Leave(u)
        PROVE  Held(t)
    <3>1. u # t /\ thread[t].at # "native"
      BY <2>1, <2>6 DEF Leave, Stands
    <3>2. \/ thread'[t] = thread[t]
          \/ thread'[t] = [thread[t] EXCEPT !.at = thread[t].at]
      BY <2>6, <3>1, Zenon DEF Leave
    <3>3. [thread[t] EXCEPT !.at = thread[t].at] = thread[t]
      BY <2>0 DEF Records
    <3> QED BY <2>3, <3>2, <3>3, Zenon
  <2>7. ASSUME NEW u \in Threads, NEW c \in Callbacks, CallBack(u, c)
        PROVE  Held(t)
    <3>1. u # t /\ c # t
      BY <2>1, <2>2, <2>7 DEF CallBack, Register, Stands
    <3>2. thread'[t] = thread[t]
      BY <2>0, <2>7, <3>1 DEF CallBack
    <3> QED BY <2>3, <3>2
  <2>8. ASSUME thread' = Poked \/ thread' = thread
        PROVE  Held(t)
    <3>1. CASE thread' = Poked
      BY <1>1, <2>1, <3>1, PokedDoes
    <3>2. CASE thread' = thread
      BY <2>3, <3>2
    <3> QED BY <2>8, <3>1, <3>2
  <2>9. ASSUME \/ \E u \in Threads, mode \in {"none", "in", "over"} : Resume(u, mode)
               \/ StopSession \/ RequestPause \/ CancelExecution
               \/ \E any \in BOOLEAN : SetBreakpoints(any)
        PROVE  Held(t)
    <3>1. thread' = Poked \/ thread' = thread
      BY <2>9, Zenon DEF Resume, StopSession, Terminate, RequestPause, CancelExecution, SetBreakpoints
    <3> QED BY <2>8, <3>1
  <2> HIDE DEF Held
  <2> QED BY <1>1, <2>4, <2>5, <2>6, <2>7, <2>9, ZenonT(40) DEF DebugNext
<1>2. BarrierInv /\ [DebugNext]_debugVars => [Holds]_debugVars
  BY <1>1, ZenonT(30)
<1>3. DebugSpec => [][Holds]_debugVars
  BY <1>2, BarrierInvariance, PTL DEF DebugSpec
<1> QED BY <1>3 DEF PauseHolds

-----------------------------------------------------------------------------
(***************************************************************************)
(* The cache of callback machines, for any number of host goroutines,      *)
(* machines and executions.  The invariant says which caller holds a       *)
(* machine by what it does (Holding), and that what is alive was built.    *)
(***************************************************************************)
Machines == VMs \cup {NoVM}
CallerSteps == {"out", "take", "build", "run", "dirty", "park", "check", "undo"}

CacheTypes ==
    /\ slot \in Machines /\ released \in BOOLEAN
    /\ built \in 0..MaxVMs /\ discarded \in Int /\ alive \subseteq 1..built
    /\ caller \in [Invokers -> [step : CallerSteps, vm : Machines]]

Holding == \A c \in Invokers : caller[c].vm # NoVM <=> caller[c].step \in {"run", "dirty", "park"}

\* A machine that is alive is in the slot or with a caller, and in one place.
Exact == \A v \in Machines :
             v \in alive <=> v # NoVM /\ (slot = v \/ \E c \in Invokers : caller[c].vm = v)
Apart == /\ \A c, d \in Invokers : c # d /\ caller[c].vm = caller[d].vm => caller[c].vm = NoVM
         /\ \A c \in Invokers : caller[c].vm = slot => slot = NoVM
CountedAlive == Cardinality(alive) = built - discarded
Drained == (released /\ parent = "idle" /\ slot # NoVM) =>
               \E c \in Invokers : caller[c].step \in {"check", "undo"}

OwnerInv == CacheTypes /\ Holding /\ Exact /\ Apart /\ CountedAlive /\ Drained

\* A caller moves on, and the machines stay where they are.
LEMMA CallerKeeps ==
    ASSUME OwnerInv, NEW c \in Invokers, NEW w \in CallerSteps,
           caller' = [caller EXCEPT ![c].step = w],
           w \in {"run", "dirty", "park"} <=> caller[c].step \in {"run", "dirty", "park"},
           UNCHANGED <<slot, released, built, discarded, alive, parent>>,
           caller[c].step \in {"check", "undo"} => w \in {"check", "undo"} \/ ~released
    PROVE  OwnerInv'
<1>0. caller \in [Invokers -> [step : CallerSteps, vm : Machines]]
  BY DEF OwnerInv, CacheTypes
<1>1. /\ caller' \in [Invokers -> [step : CallerSteps, vm : Machines]]
      /\ caller'[c].step = w /\ \A d \in Invokers : caller'[d].vm = caller[d].vm
      /\ \A d \in Invokers \ {c} : caller'[d] = caller[d]
  BY <1>0
<1>2. CacheTypes'
  BY <1>1 DEF OwnerInv, CacheTypes, VMs, NoVM, Machines
<1>3. Holding' /\ Exact' /\ Apart' /\ CountedAlive'
  BY <1>1 DEF OwnerInv, Holding, Exact, Apart, CountedAlive, Machines, VMs, NoVM
<1>4. Drained'
  BY <1>1 DEF OwnerInv, Drained, NoVM
<1> QED BY <1>2, <1>3, <1>4 DEF OwnerInv

\* discard forgets a machine that was alive.
LEMMA DiscardDoes ==
    ASSUME OwnerInv, NEW v \in alive, Discard(v)
    PROVE  /\ alive' = alive \ {v} /\ discarded' \in Int
           /\ Cardinality(alive') = built - discarded'
<1>1. /\ alive \subseteq 1..built /\ built \in Nat /\ discarded \in Int
      /\ Cardinality(alive) = built - discarded
  BY CallbackBounds DEF OwnerInv, CacheTypes, CountedAlive
<1>2. IsFiniteSet(alive)
  <2>1. IsFiniteSet(1..built)
    BY <1>1, FS_Interval
  <2> QED BY <1>1, <2>1, FS_Subset, Zenon
<1>3. alive' = alive \ {v} /\ discarded' = discarded + 1
  BY DEF Discard
<1>4. Cardinality(alive \ {v}) = Cardinality(alive) - 1 /\ Cardinality(alive) \in Nat
  BY <1>2, FS_RemoveElement, FS_CardinalityType, ZenonT(30)
<1> QED BY <1>1, <1>3, <1>4

\* A caller gives up its machine, which is discarded.
LEMMA GiveUpKeeps ==
    ASSUME OwnerInv, NEW c \in Invokers, caller[c].step \in {"run", "dirty", "park"},
           Discard(caller[c].vm), caller' = [caller EXCEPT ![c] = At("out", NoVM)],
           UNCHANGED <<slot, released, built, parent>>
    PROVE  OwnerInv'
<1>0. caller \in [Invokers -> [step : CallerSteps, vm : Machines]] /\ NoVM \in Machines
  BY DEF OwnerInv, CacheTypes, Machines
<1>1. caller[c].vm \in alive
  BY <1>0 DEF OwnerInv, Holding, Exact
<1>2. /\ alive' = alive \ {caller[c].vm} /\ discarded' \in Int
      /\ Cardinality(alive') = built - discarded'
  BY <1>1, DiscardDoes
<1>3. At("out", NoVM) \in [step : CallerSteps, vm : Machines] /\ At("out", NoVM).vm = NoVM
      /\ At("out", NoVM).step = "out"
  BY <1>0 DEF At, CallerSteps
<1>4. /\ caller' \in [Invokers -> [step : CallerSteps, vm : Machines]]
      /\ caller'[c].step = "out" /\ caller'[c].vm = NoVM
      /\ \A d \in Invokers \ {c} : caller'[d] = caller[d]
  BY <1>0, <1>3
<1>5. CacheTypes' /\ CountedAlive'
  BY <1>2, <1>4, Zenon DEF OwnerInv, CacheTypes, CountedAlive, VMs, NoVM, Machines
<1>6. Holding' /\ Apart'
  BY <1>4 DEF OwnerInv, Holding, Apart, NoVM
<1>7. Exact'
  BY <1>0, <1>2, <1>4 DEF OwnerInv, Exact, Apart, Machines, VMs, NoVM
<1>8. Drained'
  BY <1>4 DEF OwnerInv, Drained, NoVM
<1> QED BY <1>5, <1>6, <1>7, <1>8 DEF OwnerInv

\* A caller takes the machine of the slot, or finds none.
LEMMA TakeKeeps ==
    ASSUME OwnerInv, NEW c \in Invokers, AcquireTakes(c)
    PROVE  OwnerInv'
<1> DEFINE r == IF slot = NoVM THEN At("build", NoVM) ELSE At("run", slot)
<1>0. /\ caller \in [Invokers -> [step : CallerSteps, vm : Machines]] /\ NoVM \in Machines
      /\ slot \in Machines
  BY DEF OwnerInv, CacheTypes, Machines
<1>1. r \in [step : CallerSteps, vm : Machines] /\ r.vm = slot /\ r.step = IF slot = NoVM THEN "build" ELSE "run"
  BY <1>0 DEF At, CallerSteps
<1>2. /\ caller' = [caller EXCEPT ![c] = r] /\ slot' = NoVM /\ caller[c].step = "take"
      /\ UNCHANGED <<released, built, discarded, alive, parent>>
  BY DEF AcquireTakes
<1> HIDE DEF r
<1>3. caller[c].vm = NoVM
  BY <1>0, <1>2 DEF OwnerInv, Holding
<1>4. /\ caller' \in [Invokers -> [step : CallerSteps, vm : Machines]]
      /\ caller'[c] = r /\ \A d \in Invokers \ {c} : caller'[d] = caller[d]
  BY <1>0, <1>1, <1>2
<1>5. CacheTypes' /\ CountedAlive' /\ Drained'
  BY <1>0, <1>2, <1>4 DEF OwnerInv, CacheTypes, CountedAlive, Drained, VMs, NoVM, Machines
<1>6. Holding' /\ Apart'
  BY <1>1, <1>2, <1>4 DEF OwnerInv, Holding, Apart, NoVM
<1>7. Exact'
  BY <1>0, <1>1, <1>2, <1>3, <1>4 DEF OwnerInv, Exact, Machines, VMs, NoVM
<1> QED BY <1>5, <1>6, <1>7 DEF OwnerInv

\* A caller builds a machine with a number of its own.
LEMMA BuildKeeps ==
    ASSUME OwnerInv, NEW c \in Invokers, Build(c)
    PROVE  OwnerInv'
<1> DEFINE v == built + 1
<1>0. /\ caller \in [Invokers -> [step : CallerSteps, vm : Machines]] /\ MaxVMs \in Nat
      /\ built \in 0..MaxVMs /\ alive \subseteq 1..built /\ discarded \in Int /\ slot \in Machines
      /\ Cardinality(alive) = built - discarded
  BY CallbackBounds DEF OwnerInv, CacheTypes, CountedAlive
<1>1. /\ caller' = [caller EXCEPT ![c] = At("run", v)] /\ built' = v /\ alive' = alive \cup {v}
      /\ caller[c].step = "build" /\ built < MaxVMs
      /\ UNCHANGED <<slot, released, discarded, parent>>
  BY DEF Build
<1>2. v \in VMs /\ v \in Machines /\ v # NoVM /\ v \notin alive /\ v \in 1..MaxVMs
  BY <1>0, <1>1 DEF VMs, NoVM, Machines
<1>3. caller[c].vm = NoVM
  BY <1>0, <1>1 DEF OwnerInv, Holding
<1>4. slot # v /\ \A d \in Invokers : caller[d].vm # v
  BY <1>0, <1>2 DEF OwnerInv, Exact
<1>5. /\ caller' \in [Invokers -> [step : CallerSteps, vm : Machines]]
      /\ caller'[c].vm = v /\ caller'[c].step = "run"
      /\ \A d \in Invokers \ {c} : caller'[d] = caller[d]
  <2>1. At("run", v) \in [step : CallerSteps, vm : Machines] /\ At("run", v).vm = v /\ At("run", v).step = "run"
    BY <1>2 DEF At, CallerSteps
  <2> QED BY <1>0, <1>1, <2>1
<1>6. CountedAlive'
  <2>0. IsFiniteSet(1..built)
    BY <1>0, FS_Interval
  <2>1. IsFiniteSet(alive)
    BY <1>0, <2>0, FS_Subset, ZenonT(30)
  <2>2. Cardinality(alive \cup {v}) = Cardinality(alive) + 1
    BY <1>2, <2>1, FS_AddElement, Zenon
  <2> QED BY <1>0, <1>1, <2>2 DEF CountedAlive
<1>7. CacheTypes'
  BY <1>0, <1>1, <1>2, <1>5 DEF OwnerInv, CacheTypes, Machines, VMs, NoVM
<1> HIDE DEF v
<1>8. Holding' /\ Apart'
  BY <1>1, <1>2, <1>4, <1>5 DEF OwnerInv, Holding, Apart, NoVM
<1>9. Exact'
  BY <1>1, <1>2, <1>3, <1>4, <1>5 DEF OwnerInv, Exact, NoVM, Machines, VMs
<1>10. Drained'
  BY <1>1, <1>5 DEF OwnerInv, Drained, NoVM
<1> QED BY <1>6, <1>7, <1>8, <1>9, <1>10 DEF OwnerInv

\* A caller parks its machine in the empty slot, and still has to look.
LEMMA StoreKeeps ==
    ASSUME OwnerInv, NEW c \in Invokers, caller[c].step = "park", slot = NoVM, slot' = caller[c].vm,
           caller' = [caller EXCEPT ![c] = At("check", NoVM)],
           UNCHANGED <<released, built, discarded, alive, parent>>
    PROVE  OwnerInv'
<1>0. caller \in [Invokers -> [step : CallerSteps, vm : Machines]] /\ NoVM \in Machines
  BY DEF OwnerInv, CacheTypes, Machines
<1>1. caller[c].vm \in Machines /\ caller[c].vm # NoVM
  BY <1>0 DEF OwnerInv, Holding
<1>2. /\ At("check", NoVM) \in [step : CallerSteps, vm : Machines] /\ At("check", NoVM).vm = NoVM
      /\ At("check", NoVM).step = "check"
  BY <1>0 DEF At, CallerSteps
<1>3. /\ caller' \in [Invokers -> [step : CallerSteps, vm : Machines]]
      /\ caller'[c].step = "check" /\ caller'[c].vm = NoVM
      /\ \A d \in Invokers \ {c} : caller'[d] = caller[d]
  BY <1>0, <1>2
<1>4. CacheTypes' /\ CountedAlive' /\ Drained'
  BY <1>1, <1>3 DEF OwnerInv, CacheTypes, CountedAlive, Drained, VMs, NoVM, Machines
<1>5. Holding' /\ Apart'
  BY <1>1, <1>3 DEF OwnerInv, Holding, Apart, NoVM
<1>6. Exact'
  BY <1>0, <1>1, <1>3 DEF OwnerInv, Exact, Machines, VMs, NoVM
<1> QED BY <1>4, <1>5, <1>6 DEF OwnerInv

\* The slot is emptied, by a drain or by a release that finds it closed.
LEMMA EmptyKeeps ==
    ASSUME OwnerInv, EmptySlot, caller' \in [Invokers -> [step : CallerSteps, vm : Machines]],
           \A d \in Invokers : /\ caller'[d].vm = caller[d].vm
                               /\ caller'[d] = caller[d] \/ {caller[d].step, caller'[d].step} = {"undo", "out"}
    PROVE  OwnerInv'
<1>0. slot \in Machines /\ slot' = NoVM /\ NoVM \in Machines /\ UNCHANGED <<released, built>>
  BY DEF OwnerInv, CacheTypes, EmptySlot, Machines
<1>1. /\ alive' = alive \ {slot} /\ discarded' \in Int /\ Cardinality(alive') = built - discarded'
  <2>1. CASE slot = NoVM
    BY <1>0, <2>1 DEF EmptySlot, OwnerInv, CacheTypes, CountedAlive, Exact
  <2>2. CASE slot # NoVM
    <3>1. slot \in alive
      BY <1>0, <2>2 DEF OwnerInv, Exact
    <3>2. Discard(slot)
      BY <2>2 DEF EmptySlot
    <3> QED BY <3>1, <3>2, DiscardDoes
  <2> QED BY <2>1, <2>2
<1>2. CacheTypes' /\ CountedAlive' /\ Drained'
  BY <1>0, <1>1 DEF OwnerInv, CacheTypes, CountedAlive, Drained, VMs, NoVM, Machines
<1>3. Holding'
  BY DEF OwnerInv, Holding, NoVM
<1>4. Apart' /\ Exact'
  BY <1>0, <1>1 DEF OwnerInv, Apart, Exact, NoVM, Machines, VMs
<1> QED BY <1>2, <1>3, <1>4 DEF OwnerInv

\* Every step of the callers and of the parent keeps the invariant.
LEMMA OwnerKeeps ==
    ASSUME OwnerInv, [CallbackNext]_callbackVars
    PROVE  OwnerInv'
<1>0. caller \in [Invokers -> [step : CallerSteps, vm : Machines]]
  BY DEF OwnerInv, CacheTypes
<1>1. ASSUME UNCHANGED <<cacheVars, caller>>,
             released /\ parent' = "idle" => parent = "idle"
      PROVE  OwnerInv'
  BY <1>1 DEF cacheVars, OwnerInv, CacheTypes, Holding, Exact, Apart, CountedAlive, Drained,
              Machines, VMs, NoVM
<1>2. ASSUME NEW c \in Invokers, CallerStep(c)
      PROVE  OwnerInv'
  <2>1. CASE AcquireChecks(c)
    <3> DEFINE w == IF released THEN "build" ELSE "take"
    <3>1. caller[c].vm = NoVM
      BY <1>0, <2>1 DEF AcquireChecks, OwnerInv, Holding
    <3>2. At(w, NoVM) = [caller[c] EXCEPT !.step = w]
      BY <1>0, <3>1 DEF At
    <3>3. caller' = [caller EXCEPT ![c].step = w]
      BY <1>0, <2>1, <3>2, ZenonT(40) DEF AcquireChecks
    <3> QED BY <2>1, <3>3, CallerKeeps, Zenon DEF AcquireChecks, cacheVars, CallerSteps
  <2>2. CASE RunCallback(c)
    <3>1. \/ UNCHANGED <<cacheVars, caller, parent>>
          \/ caller' = [caller EXCEPT ![c].step = "dirty"] /\ UNCHANGED <<cacheVars, parent>>
      BY <2>2, SMTT(20) DEF RunCallback
    <3> QED BY <1>1, <2>2, <3>1, CallerKeeps, ZenonT(30) DEF RunCallback, cacheVars, CallerSteps
  <2>3. CASE FinishReturns(c)
    BY <2>3, CallerKeeps, Zenon DEF FinishReturns, cacheVars, CallerSteps
  <2>4. CASE ReleaseChecks(c)
    <3> DEFINE w == IF released THEN "undo" ELSE "out"
    <3>1. w \in CallerSteps /\ caller' = [caller EXCEPT ![c].step = w] /\ (w = "undo" \/ ~released)
          /\ w \notin {"run", "dirty", "park"}
      BY <2>4 DEF ReleaseChecks, CallerSteps
    <3> HIDE DEF w
    <3> QED BY <2>4, <3>1, CallerKeeps, ZenonT(30) DEF ReleaseChecks, cacheVars
  <2>5. CASE FinishDiscards(c)
    BY <2>5, GiveUpKeeps, Zenon DEF FinishDiscards
  <2>6. CASE ReleaseStores(c)
    BY <2>6, GiveUpKeeps, StoreKeeps DEF ReleaseStores
  <2>7. CASE ReleaseUndoes(c)
    <3>1. /\ caller' \in [Invokers -> [step : CallerSteps, vm : Machines]]
          /\ \A d \in Invokers : /\ caller'[d].vm = caller[d].vm
                                 /\ d # c => caller'[d] = caller[d]
          /\ caller'[c].step = "out" /\ caller[c].step = "undo"
      BY <1>0, <2>7 DEF ReleaseUndoes, CallerSteps
    <3> QED BY <2>7, <3>1, EmptyKeeps DEF ReleaseUndoes
  <2> QED BY <1>2, <2>1, <2>2, <2>3, <2>4, <2>5, <2>6, <2>7, TakeKeeps, BuildKeeps,
             ZenonT(40) DEF CallerStep
<1>3. CASE Execute
  BY <1>0, <1>3, ZenonT(30) DEF Execute, OwnerInv, CacheTypes, Holding, Exact, Apart, CountedAlive, Drained,
                    Machines, VMs, NoVM
<1>4. CASE CloseCache
  BY <1>0, <1>4 DEF CloseCache, OwnerInv, CacheTypes, Holding, Exact, Apart, CountedAlive, Drained,
                    Machines, VMs, NoVM
<1>5. CASE RunParent
  <2>1. parent' \in {"closing", "running"} /\ UNCHANGED <<cacheVars, caller>>
    BY <1>5 DEF RunParent
  <2> QED BY <1>1, <2>1
<1>6. CASE Drain
  BY <1>0, <1>6, EmptyKeeps DEF Drain
<1>7. CASE UNCHANGED callbackVars
  BY <1>1, <1>7 DEF callbackVars
<1> QED BY <1>2, <1>3, <1>4, <1>5, <1>6, <1>7, ZenonT(30) DEF CallbackNext

\* A callback machine is with one caller, in the slot or gone, the counters say
\* how many are alive, and a drained cache (callbackVMCache.drain) keeps none
\* once the releases under way are over.
THEOREM MachineHasOneOwner == CallbackSpec => []OneOwner
<1>1. CallbackInit => OwnerInv
  <2> SUFFICES ASSUME CallbackInit PROVE OwnerInv
    OBVIOUS
  <2>1. MaxVMs \in Nat /\ NoVM \in Machines /\ Cardinality({}) = 0
    BY CallbackBounds, FS_EmptySet DEF Machines
  <2>2. caller \in [Invokers -> [step : CallerSteps, vm : Machines]]
        /\ \A c \in Invokers : caller[c].vm = NoVM /\ caller[c].step = "out"
    <3>1. /\ At("out", NoVM) \in [step : CallerSteps, vm : Machines]
          /\ At("out", NoVM).vm = NoVM /\ At("out", NoVM).step = "out"
      BY <2>1 DEF At, CallerSteps
    <3>2. caller = [c \in Invokers |-> At("out", NoVM)]
      BY DEF CallbackInit
    <3> QED BY <3>1, <3>2, ZenonT(30)
  <2>3. CacheTypes /\ CountedAlive /\ Drained
    <3>1. /\ slot = NoVM /\ released = FALSE /\ built = 0 /\ discarded = 0 /\ alive = {}
      BY DEF CallbackInit
    <3>2. CacheTypes
      <4>1. slot \in Machines /\ released \in BOOLEAN /\ alive \subseteq 1..built
        BY <2>1, <3>1, ZenonT(30)
      <4>2. built \in 0..MaxVMs /\ discarded \in Int
        BY <2>1, <3>1
      <4> QED BY <2>2, <4>1, <4>2, Zenon DEF CacheTypes
    <3>3. CountedAlive
      BY <2>1, <3>1 DEF CountedAlive
    <3> QED BY <3>1, <3>2, <3>3 DEF Drained
  <2>4. Holding /\ Exact /\ Apart
    BY <2>2 DEF CallbackInit, Holding, Exact, Apart
  <2> QED BY <2>3, <2>4 DEF OwnerInv
<1>2. OwnerInv /\ [CallbackNext]_callbackVars => OwnerInv'
  BY OwnerKeeps
<1>3. OwnerInv => OneOwner
  <2> SUFFICES ASSUME OwnerInv PROVE OneOwner
    OBVIOUS
  <2> DEFINE held(c) == {caller[c].vm} \ {NoVM}
  <2>0. /\ slot \in Machines /\ alive \subseteq Machines
        /\ caller \in [Invokers -> [step : CallerSteps, vm : Machines]]
    BY CallbackBounds DEF OwnerInv, CacheTypes, Machines, VMs
  <2>1. alive = (UNION {held(c) : c \in Invokers}) \cup ({slot} \ {NoVM})
    BY <2>0 DEF OwnerInv, Exact
  <2>2. \A c, d \in Invokers : c # d => held(c) \cap held(d) = {}
    BY DEF OwnerInv, Apart
  <2>3. \A c \in Invokers : slot \notin held(c)
    BY DEF OwnerInv, Apart
  <2> QED BY <2>1, <2>2, <2>3, Zenon DEF OwnerInv, OneOwner, CountedAlive, Drained
<1> QED BY <1>1, <1>2, <1>3, PTL DEF CallbackSpec
=============================================================================
