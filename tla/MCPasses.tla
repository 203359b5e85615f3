----------------------------- MODULE MCPasses -----------------------------
(* Bodies for the compiler passes.  Lifting: two loads and two reads of one
   register with a branch and a jump, in offsets short enough that a rotation
   stretches one too far; the same with a read less and a register that is the
   result; a load and a read between two branches; a load
   with a deleted word, a jump and a branch in three lines, of which the first
   is a single word.  Compaction:
   three jumps around a deleted word; two jumps with a branch, or with a read
   between, in two lines; four jumps, so that two blocks move in one round; a
   branch that owns a second word. *)
EXTENDS CompilerPasses

Most(load, use, nop, ret, jump, branch) ==
    [load |-> load, use |-> use, nop |-> nop, ret |-> ret, jump |-> jump, branch |-> branch]

MCProfile(words, most, reach, results, pads, lines) ==
    [words |-> words, most |-> most, reach |-> reach, results |-> results,
     pads |-> pads, lines |-> lines]

NoLines == [i \in 1..6 |-> 0]
Lines   == <<1, 1, 2, 2, 2, 0>>

MCProfiles ==
    {MCProfile(6, Most(2, 2, 0, 1, 1, 1), 3, {FALSE}, FALSE, NoLines),
     MCProfile(5, Most(2, 1, 0, 1, 1, 1), 3, {TRUE}, FALSE, NoLines),
     MCProfile(6, Most(1, 1, 0, 1, 0, 2), 8, BOOLEAN, FALSE, NoLines),
     MCProfile(5, Most(1, 0, 1, 1, 1, 1), 5, {FALSE}, FALSE, <<1, 2, 2, 3, 3>>),
     MCProfile(5, Most(0, 0, 1, 1, 3, 0), 5, {FALSE}, FALSE, Lines),
     MCProfile(5, Most(0, 0, 1, 1, 2, 1), 5, {FALSE}, FALSE, Lines),
     MCProfile(6, Most(0, 1, 1, 1, 2, 0), 5, {FALSE}, FALSE, Lines),
     MCProfile(5, Most(0, 1, 0, 1, 4, 0), 5, {FALSE}, FALSE, <<1, 1, 0, 0, 0>>),
     MCProfile(6, Most(0, 1, 1, 1, 1, 1), 5, {FALSE}, TRUE, NoLines)}

MCShortJumps == {MCProfile(5, Most(0, 0, 1, 1, 2, 1), 5, {FALSE}, FALSE, NoLines)}
=============================================================================
