--------------------------- MODULE CompilerPasses ---------------------------
(***************************************************************************)
(* Two passes of the bytecode optimiser and the analyses they stand on:    *)
(* lifting loop-invariant constant loads (function_licm_const_load.go,     *)
(* _entry_safety.go, _rename.go, _rotate.go over function_analysis.go,     *)
(* function_dominators.go and the liveness walk of                         *)
(* function_peephole_liveness.go), then deleting dead words and            *)
(* straightening blocks (function_compact.go, function_body_rewrite.go).   *)
(*                                                                         *)
(* A body is a sequence of words.  `load' writes a register with a         *)
(* constant, `use' stands for every instruction that reads it, `branch'    *)
(* for every conditional jump; a branch with `pad' is one of the fused     *)
(* forms that own the word after it.  The label of a word is its place in  *)
(* the emitted body, so that what a word does can be told apart from where *)
(* a pass put it; a load writes its own label, so that no two constants    *)
(* are equal.  Program counters start at 1.                                *)
(***************************************************************************)
EXTENDS Integers, Sequences, FiniteSets, FiniteSetsExt, SequencesExt

CONSTANTS Profiles,        \* what is emitted: words of each kind, lines, range of offsets
          BankSize,        \* isa.GeneralRegisterBankSize
          LivenessBudget,  \* conditionLivenessBudget
          MaxHoists,       \* maxLicmConstHoistsPerFunction
          MaxRounds,       \* maxCompactRounds
          MaxThreadSteps   \* maxJumpThreadSteps

ASSUME PassBounds ==
    {BankSize, LivenessBudget, MaxHoists, MaxRounds, MaxThreadSteps} \subseteq Nat

VARIABLES source,   \* the body as the compiler emitted it
          body,     \* CompiledFunction.Body
          result,   \* register 0 is a result slot, read by every return
          numRegs,  \* NumRegisters of the bank
          stage,    \* emit, hoist, compact, done; panicked
          step,     \* iterations of the present pass
          bypassed, \* a jump landed on deleted words in front of a moved block
          crowded,  \* a round moved two blocks
          analysed, \* the body the cached analyses were built on; <<>> when there are none
          profile

passVars == <<source, body, result, numRegs, stage, step, bypassed, crowded, analysed, profile>>

Word(kind, target, pad, label, line) ==
    [kind |-> kind, target |-> target, pad |-> pad, reg |-> 0,
     label |-> label, line |-> line]

PCs(b)          == 1..Len(b)
IsJump(b, pc)   == b[pc].kind \in {"jump", "branch"}
Jumps(b)        == {pc \in PCs(b) : IsJump(b, pc)}
Footprint(b, pc) == IF b[pc].pad THEN 2 ELSE 1
Starts(b)       == {pc \in PCs(b) : pc > 1 => ~b[pc - 1].pad}
FallsThrough(b, pc) == b[pc].kind \notin {"jump", "ret"}

(* SetJumpTarget can encode the distance from the word after the jump.      *)
Encodable(b, pc, target) ==
    target - (pc + Footprint(b, pc)) \in (-profile.reach)..(profile.reach - 1)

-----------------------------------------------------------------------------
(* What a body does: from a place and register contents to the next word    *)
(* whose execution can be told from outside.                                *)

Regs0 == [r \in 0..(BankSize - 1) |-> 0]

RECURSIVE Settle(_, _, _, _)
Settle(b, pc, regs, fuel) ==
    IF pc > Len(b) THEN [pc |-> pc, regs |-> regs]
    ELSE IF fuel = 0 THEN [pc |-> 0, regs |-> Regs0]
    ELSE CASE b[pc].kind = "nop"  -> Settle(b, pc + 1, regs, fuel - 1)
           [] b[pc].kind = "jump" -> Settle(b, b[pc].target, regs, fuel - 1)
           [] b[pc].kind = "load" ->
                  Settle(b, pc + 1, [regs EXCEPT ![b[pc].reg] = b[pc].label], fuel - 1)
           [] OTHER -> [pc |-> pc, regs |-> regs]

Observed(b, s) ==
    IF s.pc = 0 THEN <<"spins">>
    ELSE IF s.pc > Len(b) THEN <<"runs off the end">>
    ELSE CASE b[s.pc].kind = "use"    -> <<"use", b[s.pc].label, s.regs[b[s.pc].reg]>>
           [] b[s.pc].kind = "branch" -> <<"branch", b[s.pc].label>>
           [] b[s.pc].kind = "ret"    -> <<"return", IF result THEN s.regs[0] ELSE 0>>

Continue(b, s, taken) ==
    Settle(b, IF taken THEN b[s.pc].target ELSE s.pc + Footprint(b, s.pc), s.regs, Len(b) + 1)

Ways(b, s) ==
    IF s.pc \notin PCs(b) \/ b[s.pc].kind = "ret" THEN {}
    ELSE IF b[s.pc].kind = "branch" THEN BOOLEAN ELSE {FALSE}

(* Every pair of states the two bodies reach together shows the same word.  *)
RECURSIVE AgreeFrom(_, _, _, _)
AgreeFrom(a, b, frontier, seen) ==
    \/ frontier = {}
    \/ /\ \A p \in frontier : Observed(a, p[1]) = Observed(b, p[2])
       /\ LET next == UNION {{<<Continue(a, p[1], c), Continue(b, p[2], c)>> :
                                  c \in Ways(a, p[1])} : p \in frontier}
          IN  AgreeFrom(a, b, next \ seen, seen \cup next)

SameBehaviour(a, b) ==
    \/ a = b
    \/ LET first == {<<Settle(a, 1, Regs0, Len(a) + 1), Settle(b, 1, Regs0, Len(b) + 1)>>}
       IN  AgreeFrom(a, b, first, first)

-----------------------------------------------------------------------------
(* The control-flow graph, dominators and loops.                            *)

Successors(b, pc) ==
    (IF FallsThrough(b, pc) THEN {pc + 1} ELSE {})
        \cup (IF IsJump(b, pc) THEN {b[pc].target} ELSE {})

Predecessors(b, pc) ==
    {p \in PCs(b) : \/ p + 1 = pc /\ FallsThrough(b, p)
                    \/ b[p].target = pc /\ IsJump(b, p)}

RECURSIVE ReachFrom(_, _)
ReachFrom(b, reached) ==
    LET more == (UNION {Successors(b, pc) : pc \in reached} \cap PCs(b)) \ reached
    IN  IF more = {} THEN reached ELSE ReachFrom(b, reached \cup more)

ComputeReachable(b) == ReachFrom(b, {1})

(* relaxDominatorsOnce: one sweep in the order of the words, each row read   *)
(* as the sweep left it; an unreachable word has no row.                     *)
RECURSIVE RelaxFrom(_, _, _, _)
RelaxFrom(b, reachable, dom, pc) ==
    IF pc > Len(b) THEN dom
    ELSE LET preds == Predecessors(b, pc) \cap reachable
             row   == {d \in PCs(b) : \A p \in preds : d \in dom[p]} \cup {pc}
         IN  RelaxFrom(b, reachable,
                       IF pc \in reachable THEN [dom EXCEPT ![pc] = row] ELSE dom, pc + 1)

RECURSIVE Relaxed(_, _, _)
Relaxed(b, reachable, dom) ==
    LET next == RelaxFrom(b, reachable, dom, 2)
    IN  IF next = dom THEN dom ELSE Relaxed(b, reachable, next)

Dominators(b) ==
    LET reachable == ComputeReachable(b)
    IN  Relaxed(b, reachable,
                [pc \in PCs(b) |-> IF pc = 1 THEN {1}
                                   ELSE IF pc \in reachable THEN PCs(b) ELSE {}])

BackEdges(b, header) == {pc \in Jumps(b) : b[pc].target = header /\ pc >= header}

(* One range per header, reaching its widest back-edge.                     *)
Loops(b) ==
    {[header |-> h, latch |-> Max(BackEdges(b, h))] : h \in {x \in PCs(b) : BackEdges(b, x) # {}}}

(* functionAnalysis: predecessors, reachability, dominators and loops are     *)
(* built on first use and kept until invalidate drops them.  Every user asks  *)
(* for them as those of the body they were built on, and reads the words      *)
(* themselves from the body as it is.                                         *)
Analysed == IF analysed = <<>> THEN body ELSE analysed

\* Mutant of Invalidate: the analyses of the body as it was are kept.
KeepAnalyses == analysed' = Analysed

Invalidate == analysed' = <<>>

RECURSIVE BackFrom(_, _)
BackFrom(seen, pending) ==
    IF pending \subseteq seen THEN seen
    ELSE IF 1 \in pending \ seen THEN {}
    ELSE BackFrom(seen \cup pending,
                  UNION {Predecessors(Analysed, pc) : pc \in pending \ seen})

NaturalLoopMembers(b, loop) ==
    BackFrom({loop.header}, BackEdges(b, loop.header))

-----------------------------------------------------------------------------
(* registerDeadFrom: a depth-first walk that remembers where it started a    *)
(* path and gives up, answering "live", when its budget is spent.            *)

Reads(b, pc, reg)  == b[pc].kind = "use"  /\ b[pc].reg = reg
Writes(b, pc, reg) == b[pc].kind = "load" /\ b[pc].reg = reg
ReturnReads(reg)   == result /\ reg = 0

Verdict(dead, walk) == [dead |-> dead, entered |-> walk.entered, budget |-> walk.budget]

RECURSIVE WalkPath(_, _, _, _)
RECURSIVE DeadFrom(_, _, _, _)
WalkPath(b, pc, reg, walk) ==
    LET spent == [walk EXCEPT !.budget = @ - 1]
    IN  IF pc > Len(b) THEN Verdict(TRUE, walk)
        ELSE IF walk.budget = 0 THEN Verdict(FALSE, walk)
        ELSE CASE b[pc].kind = "ret"   -> Verdict(~ReturnReads(reg), spent)
               [] Reads(b, pc, reg)    -> Verdict(FALSE, spent)
               [] Writes(b, pc, reg)   -> Verdict(TRUE, spent)
               [] b[pc].kind = "jump"  -> DeadFrom(b, b[pc].target, reg, spent)
               [] b[pc].kind = "branch" ->
                      LET fall == DeadFrom(b, pc + Footprint(b, pc), reg, spent)
                      IN  IF fall.dead THEN DeadFrom(b, b[pc].target, reg, fall) ELSE fall
               [] OTHER -> WalkPath(b, pc + 1, reg, spent)

DeadFrom(b, start, reg, walk) ==
    IF start \in walk.entered THEN Verdict(TRUE, walk)
    ELSE WalkPath(b, start, reg, [walk EXCEPT !.entered = @ \cup {start}])

RegisterDeadFrom(b, start, reg) ==
    DeadFrom(b, start, reg, [dead |-> TRUE, entered |-> {}, budget |-> LivenessBudget]).dead

-----------------------------------------------------------------------------
(* Lifting a constant load out of a loop.                                   *)

(* loopExitsBeforeRead: what leaves the loop ahead of the load, and whether  *)
(* the words ahead of it are of a kind the pass accepts.                     *)
Prefix(b, loop, load) == {pc \in Starts(b) : pc \in loop.header..(load - 1)}

PrefixAccepted(b, loop, load) ==
    \A pc \in Prefix(b, loop, load) :
        /\ b[pc].kind # "ret"
        /\ IsJump(b, pc) => b[pc].target \notin (load + 1)..loop.latch

LoopExits(b, loop, load) ==
    {b[pc].target : pc \in {q \in Prefix(b, loop, load) \cap Jumps(b) :
                                b[q].target \notin loop.header..loop.latch}}

\* Mutant of ConstantHoistSafe: the exits ahead of the load are not looked at.
HoistSafeInLoop(b, loop, load) ==
    /\ PrefixAccepted(b, loop, load)
    /\ \A pc \in Prefix(b, loop, load) : ~Reads(b, pc, b[load].reg)

ConstantHoistSafe(b, loop, load) ==
    /\ PrefixAccepted(b, loop, load)
    /\ \A pc \in Prefix(b, loop, load) : ~Reads(b, pc, b[load].reg)
    /\ \A exit \in LoopExits(b, loop, load) : RegisterDeadFrom(b, exit, b[load].reg)

LoopInvariant(b, members, load) ==
    \A pc \in members \ {load} : ~Writes(b, pc, b[load].reg)

(* collectDefinitionUses: the words a definition reaches before its          *)
(* register is written again or the frame ends.                              *)
RECURSIVE ReachedByDefinition(_, _, _, _)
ReachedByDefinition(b, reg, members, pending) ==
    LET here == {pc \in (pending \ members) \cap PCs(b) :
                     b[pc].kind # "ret" /\ ~Writes(b, pc, reg)}
    IN  IF here = {} THEN members
        ELSE ReachedByDefinition(b, reg, members \cup here,
                                 UNION {Successors(b, pc) : pc \in here})

(* usesReachedOnlyFrom: every chain of reachable predecessors of a use stays *)
(* in the words the definition reaches until it comes to the definition.     *)
RECURSIVE ReachedOnlyFrom(_, _, _, _)
ReachedOnlyFrom(def, members, checked, pending) ==
    LET here == (pending \ checked) \ {def}
    IN  \/ here = {}
        \/ /\ 1 \notin here /\ here \subseteq members
           /\ ReachedOnlyFrom(def, members, checked \cup here,
                  UNION {Predecessors(Analysed, pc) : pc \in here}
                      \cap ComputeReachable(Analysed))

DefinitionMembers(b, def) == ReachedByDefinition(b, b[def].reg, {}, {def + 1})
DefinitionUses(b, def) == {pc \in DefinitionMembers(b, def) : Reads(b, pc, b[def].reg)}

Renamable(b, def) ==
    /\ numRegs < BankSize
    /\ ~ReturnReads(b[def].reg)
    /\ ReachedOnlyFrom(def, DefinitionMembers(b, def), {}, DefinitionUses(b, def))

Renamed(b, def) ==
    [pc \in PCs(b) |-> IF pc \in DefinitionUses(b, def) \cup {def}
                       THEN [b[pc] EXCEPT !.reg = numRegs] ELSE b[pc]]

(* The rotation: the load moves to the header; a jump to the header from     *)
(* before it enters the loop and runs the load, any other skips it.          *)
RotatedPC(header, load, pc) ==
    IF pc < header \/ pc > load THEN pc ELSE IF pc = load THEN header ELSE pc + 1

RotatedTarget(header, load, from, target) ==
    CASE target = header /\ from < header -> header
      [] target = header                  -> header + 1
      [] target = load                    -> load + 1
      [] OTHER                            -> RotatedPC(header, load, target)

Rotated(b, header, load) ==
    LET old(pc) == CHOOSE q \in PCs(b) : RotatedPC(header, load, q) = pc
        word(q) == IF IsJump(b, q)
                   THEN [b[q] EXCEPT !.target = RotatedTarget(header, load, q, @)]
                   ELSE IF q = load
                   THEN [b[q] EXCEPT !.line = b[IF load = header THEN header + 1 ELSE header].line]
                   ELSE b[q]
    IN  [pc \in PCs(b) |-> word(old(pc))]

(* findHoistableConstantLoadInLoop on one word: lift it, give it a register  *)
(* of its own, or pass on.                                                   *)
LoadVerdict(b, loop, members, dom, pc) ==
    IF b[pc].kind # "load" \/ members = {} \/ pc \notin dom[loop.latch] THEN "pass"
    ELSE IF LoopInvariant(b, members, pc)
         THEN IF ConstantHoistSafe(b, loop, pc) THEN "hoist" ELSE "pass"
         ELSE IF Renamable(b, pc) THEN "rename" ELSE "pass"

Candidates(b) ==
    LET dom == Dominators(Analysed)
        of(loop) == LET members == NaturalLoopMembers(b, loop)
                    IN  {[loop |-> loop, pc |-> pc, verdict |-> LoadVerdict(b, loop, members, dom, pc)] :
                             pc \in loop.header..loop.latch}
        entered == {loop \in Loops(Analysed) : loop.header > 1 => FallsThrough(b, loop.header - 1)}
    IN  {c \in UNION {of(loop) : loop \in entered} : c.verdict # "pass"}

(* Innermost loop first, then the lowest header and the lowest word.         *)
Sooner(c, d) ==
    LET span(x) == x.loop.latch - x.loop.header
    IN  \/ span(c) < span(d)
        \/ span(c) = span(d) /\ c.loop.header < d.loop.header
        \/ c.loop = d.loop /\ c.pc <= d.pc

-----------------------------------------------------------------------------
(* Deleting dead words and straightening out-of-line blocks.                *)

NextLive(b, dead, pc) ==
    CHOOSE q \in pc..(Len(b) + 1) : q \notin dead /\ pc..(q - 1) \subseteq dead

RECURSIVE GrowDead(_, _)
GrowDead(b, dead) ==
    LET more == {pc \in Starts(b) \ dead :
                     /\ b[pc].kind = "jump"
                     /\ NextLive(b, dead, b[pc].target) = NextLive(b, dead, pc + 1)}
    IN  IF more = {} THEN dead ELSE GrowDead(b, dead \cup more)

MarkDeadWords(b) == GrowDead(b, {pc \in Starts(b) : b[pc].kind = "nop"})

LiveOnLine(b, dead, line) == Cardinality({pc \in PCs(b) \ dead : b[pc].line = line})

\* Mutant of KeepSoleSourceLines: dead words are deleted whatever their line.
KeepNoSourceLines(b, dead) == dead

(* Line 0 is a word without a position.                                     *)
KeepSoleSourceLines(b, dead) ==
    {pc \in dead : \/ b[pc].line = 0
                   \/ LiveOnLine(b, dead, b[pc].line) > 0
                   \/ \E q \in dead : q < pc /\ b[q].line = b[pc].line}

DropKeepsSourceLines(b, dead, block) ==
    \A pc \in {block.jump, block.end} :
        \/ b[pc].line = 0
        \/ LiveOnLine(b, dead, b[pc].line) >
               Cardinality({q \in {block.jump, block.end} : b[q].line = b[pc].line})

FallsInto(b, dead, pc) ==
    LET before == {q \in Starts(b) \ dead : q < pc}
    IN  before = {} \/ FallsThrough(b, Max(before))

EnteredOnlyBy(b, block) ==
    \A from \in Jumps(b) :
        b[from].target \in block.start..block.end =>
            \/ from \in block.start..block.end
            \/ from = block.jump /\ b[from].target = block.start

(* straightBlockFor: the block the jump enters, as a set of at most one.     *)
StraightBlocks(b, dead, jump) ==
    LET start == b[jump].target
        ends  == {pc \in Starts(b) : /\ pc >= start
                                     /\ b[pc].kind = "jump"
                                     /\ NextLive(b, dead, b[pc].target) = NextLive(b, dead, jump + 1)}
    IN  IF start <= jump + 1 \/ start > Len(b) \/ FallsInto(b, dead, start) \/ ends = {} THEN {}
        ELSE {block \in {[jump |-> jump, start |-> start, end |-> Min(ends)]} :
                  EnteredOnlyBy(b, block)}

Claimed(blocks) == UNION {{k.jump} \cup k.start..k.end : k \in blocks}

RECURSIVE ClaimFrom(_, _, _, _)
ClaimFrom(b, dead, pc, blocks) ==
    IF pc > Len(b) THEN blocks
    ELSE LET found == IF pc \in dead \cup Claimed(blocks) \/ b[pc].kind # "jump" THEN {}
                      ELSE {k \in StraightBlocks(b, dead, pc) :
                                k.start..k.end \cap Claimed(blocks) = {}}
         IN  ClaimFrom(b, dead, pc + Footprint(b, pc), blocks \cup found)

Kept(b)   == KeepSoleSourceLines(b, MarkDeadWords(b))
Blocks(b) == LET dead == Kept(b)
             IN  {k \in ClaimFrom(b, dead, 1, {}) : DropKeepsSourceLines(b, dead, k)}

(* bodyRewrite: of the words in the order in which they are visited, those   *)
(* not dropped; a jump lands on the first word kept from its target on.      *)
(* Refused as a whole when a jump cannot encode its new distance.            *)
Applied(b, visit, drop) ==
    LET kept(s)   == SelectSeq(s, LAMBDA pc : pc \notin drop)
        origin    == kept(visit)
        newPC(pc) == IF pc > Len(b) THEN Len(origin) + 1
                     ELSE LET i == CHOOSE j \in DOMAIN visit : visit[j] = pc
                          IN  Len(kept(SubSeq(visit, 1, i - 1))) + 1
        rewritten == [i \in DOMAIN origin |->
                          IF IsJump(b, origin[i])
                          THEN [b[origin[i]] EXCEPT !.target = newPC(@)]
                          ELSE b[origin[i]]]
    IN  IF \A i \in Jumps(rewritten) : Encodable(rewritten, i, rewritten[i].target)
        THEN rewritten ELSE b

(* compactOnce: a block is visited behind the jump that enters it.           *)
CompactOnce(b) ==
    LET blocks  == Blocks(b)
        moved   == UNION {k.start..k.end : k \in blocks}
        entered(pc) == {k \in blocks : k.jump = pc}
        visit   == FlattenSeq([pc \in PCs(b) |->
                       IF pc \in moved THEN <<>>
                       ELSE IF entered(pc) = {} THEN <<pc>>
                       ELSE LET k == CHOOSE x \in entered(pc) : TRUE
                            IN  <<pc>> \o [i \in 1..(k.end - k.start + 1) |-> k.start + i - 1]])
    IN  Applied(b, visit, Kept(b) \cup {k.jump : k \in blocks} \cup {k.end : k \in blocks})

RECURSIVE ThreadTarget(_, _, _, _)
ThreadTarget(b, pc, at, steps) ==
    IF steps = 0 \/ at > Len(b) THEN at
    ELSE IF b[at].kind # "jump" \/ b[at].target = pc THEN at
    ELSE ThreadTarget(b, pc, b[at].target, steps - 1)

RECURSIVE ThreadFrom(_, _)
ThreadFrom(b, pc) ==
    IF pc > Len(b) THEN b
    ELSE LET final == ThreadTarget(b, pc, b[pc].target, MaxThreadSteps)
             next  == IF IsJump(b, pc) /\ Encodable(b, pc, final)
                      THEN [b EXCEPT ![pc].target = final] ELSE b
         IN  ThreadFrom(next, pc + Footprint(b, pc))

ThreadJumps(b) == ThreadFrom(b, 1)

(* A jump to words that are deleted and that stand in front of a block that  *)
(* moves away from behind them.                                              *)
LandsInFrontOfMoved(b) ==
    LET dead == Kept(b)
    IN  \E from \in Jumps(b), k \in Blocks(b) :
            b[from].target \in dead /\ b[from].target < k.start
                /\ NextLive(b, dead, b[from].target) = NextLive(b, dead, k.start)
-----------------------------------------------------------------------------
PassInit ==
    /\ profile \in Profiles
    /\ source = <<>> /\ body = <<>>
    /\ result \in profile.results
    /\ numRegs = 1 /\ stage = "emit" /\ step = 0
    /\ bypassed = FALSE /\ crowded = FALSE
    /\ analysed = <<>>

Emitted(kind) == Cardinality({pc \in PCs(source) : source[pc].kind = kind})

(* The compiler appends an instruction; a padded branch is two words.        *)
Emit(kind, target, pad) ==
    LET here == Len(source) + 1
        word == Word(kind, target, pad, here, profile.lines[here])
        rest == IF pad THEN <<Word("nop", 1, FALSE, here + 1, profile.lines[here + 1])>> ELSE <<>>
    IN  /\ stage = "emit"
        /\ (IF pad THEN here + 1 ELSE here) <= profile.words
        /\ Emitted(kind) < profile.most[kind]
        /\ source' = source \o <<word>> \o rest
        /\ UNCHANGED <<body, result, numRegs, stage, step, bypassed, crowded, analysed, profile>>

(* The function is complete: it cannot run past its last word, and its jumps *)
(* lead to instructions and are encodable.                                   *)
EmitEnds ==
    /\ stage = "emit"
    /\ Len(source) > 0 /\ ~FallsThrough(source, Len(source))
    /\ \A pc \in Jumps(source) :
           source[pc].target \in Starts(source) /\ Encodable(source, pc, source[pc].target)
    /\ body' = source /\ stage' = "hoist"
    /\ UNCHANGED <<source, result, numRegs, step, bypassed, crowded, analysed, profile>>

EndHoisting == stage' = "compact" /\ step' = 0

(* tryOneConstantLoadHoist.                                                 *)
Hoist ==
    LET found == Candidates(body)
        c     == CHOOSE x \in found : \A y \in found : Sooner(x, y)
        moved == Rotated(body, c.loop.header, c.pc)
    IN  /\ stage = "hoist"
        /\ IF found = {} \/ step = MaxHoists
           THEN EndHoisting /\ UNCHANGED <<body, numRegs>> /\ analysed' = Analysed
           ELSE /\ step' = step + 1
                /\ Invalidate
                /\ IF c.verdict = "rename"
                   THEN /\ body' = Renamed(body, c.pc) /\ numRegs' = numRegs + 1
                        /\ UNCHANGED stage
                   ELSE /\ UNCHANGED numRegs
                        /\ IF \A pc \in Jumps(moved) : Encodable(moved, pc, moved[pc].target)
                           THEN body' = moved /\ UNCHANGED stage
                           ELSE UNCHANGED body /\ stage' = "panicked"
        /\ UNCHANGED <<source, result, bypassed, crowded, profile>>

(* One round of compactBody.                                                *)
Compact ==
    LET compacted == CompactOnce(body)
        threaded  == ThreadJumps(compacted)
        changed   == threaded # body \/ step > 0
    IN  /\ stage = "compact"
        /\ body' = threaded
        /\ step' = step + 1
        /\ bypassed' = (bypassed \/ (compacted # body /\ LandsInFrontOfMoved(body)))
        /\ crowded' = (crowded \/ (compacted # body /\ Cardinality(Blocks(body)) > 1))
        /\ stage' = IF threaded = body \/ step + 1 = MaxRounds THEN "done" ELSE "compact"
        /\ IF stage' = "done" /\ changed THEN Invalidate ELSE UNCHANGED analysed
        /\ UNCHANGED <<source, result, numRegs, profile>>

PassNext ==
    \/ \E kind \in {"load", "use", "nop", "ret"} : Emit(kind, 1, FALSE)
    \/ \E target \in 1..profile.words, kind \in {"jump", "branch"} : Emit(kind, target, FALSE)
    \/ \E target \in 1..profile.words : profile.pads /\ Emit("branch", target, TRUE)
    \/ EmitEnds \/ Hoist \/ Compact

PassSpec == PassInit /\ [][PassNext]_passVars

-----------------------------------------------------------------------------
(* The passes leave what the function does as it was: after every lift,      *)
(* rename and round of compaction, the same instructions run in the same     *)
(* order and see the same values as in the emitted body.  The one exception  *)
(* is a jump to deleted words in front of a block that compactOnce moves.    *)
(* A rotation panics only in a body with a jump of the longest distance.     *)
PassesPreserve ==
    /\ stage # "emit" /\ ~bypassed => SameBehaviour(source, body)
    /\ stage = "panicked" =>
           \E pc \in Jumps(body) :
               body[pc].target - (pc + Footprint(body, pc)) \in {-profile.reach, profile.reach - 1}

(* What straightBlock says of a block, "entered only by one forward jump":   *)
(* moving it changes nothing.                                                *)
CompactionPreserves ==
    stage # "emit" => SameBehaviour(source, body)

(* Every source line of the emitted body is still on some word, so that a    *)
(* breakpoint on it binds.  A lift gives the load the position of the header *)
(* it moves to, so a line of nothing but loads may go with them; and a round *)
(* that moves two blocks may lose a line of nothing but jumps and deleted    *)
(* words, for dropKeepsSourceLines answers for each block as if the other    *)
(* stayed.                                                                   *)
LinesKept ==
    LET expendable == IF crowded THEN {"load", "jump", "nop"} ELSE {"load"}
    IN  stage \in {"compact", "done"} =>
            \A line \in {source[pc].line : pc \in PCs(source)} \ {0} :
                \/ \E pc \in PCs(body) : body[pc].line = line
                \/ \A pc \in PCs(source) :
                       source[pc].line = line => source[pc].kind \in expendable

(* The analyses against their definitions on the present body: by the cached *)
(* table the next search reads, a word dominates another exactly when every  *)
(* path from the entry to the other passes it, and a register reported dead  *)
(* is written, or the frame left, before it is read.  When the passes are    *)
(* over, what is still cached was built on the body they leave.              *)
AnalysesSound ==
    /\ stage = "done" => Analysed = body
    /\ stage = "hoist" =>
        LET dom == Dominators(Analysed)
            avoiding == [d \in PCs(body) |->
                            IF d = 1 THEN {}
                            ELSE ReachFrom([body EXCEPT ![d].kind = "ret"], {1}) \ {d}]
            live == {pc \in PCs(body) :
                        \E q \in ReachedByDefinition(body, 0, {}, {pc}) :
                            \/ Reads(body, q, 0)
                            \/ ReturnReads(0) /\ \E r \in Successors(body, q) \cap PCs(body) : body[r].kind = "ret"}
                     \cup {pc \in PCs(body) : ReturnReads(0) /\ body[pc].kind = "ret"}
        IN  /\ \A u \in ComputeReachable(body), d \in PCs(body) :
                   d \in dom[u] <=> u \notin avoiding[d]
            /\ \A pc \in live : ~RegisterDeadFrom(body, pc, 0)
=============================================================================
