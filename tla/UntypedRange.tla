---------------------------- MODULE UntypedRange ----------------------------
(***************************************************************************)
(* get_untypeds_from_range (src/camkes/templates/macros.py): the untypeds *)
(* covering [start, start + size).  Each iteration of the outer loop takes *)
(* the alignment of `current`, halves it until it fits in `remaining`, and *)
(* appends (current, size_bits).  A step of this module is one iteration.  *)
(***************************************************************************)
EXTENDS Integers, Sequences

CONSTANTS
  Starts,     \* the start addresses a range may have
  Sizes,      \* the sizes a range may have
  CtzZero,    \* what capdl.util.ctz returns for 0 (not under src/)
  MaxUts      \* bound on the length of the list

VARIABLES
  start, size,   \* the arguments
  current,       \* current
  remaining,     \* remaining
  uts,           \* uts: <<address, size_bits>> per untyped
  pc             \* "loop" while the outer loop runs, "done" once returned

vars == <<start, size, current, remaining, uts, pc>>

\* get_alignment_bits(addr) == ctz(addr): trailing zero bits.
RECURSIVE Ctz(_)
Ctz(x) ==
  IF x = 0 THEN CtzZero
  ELSE IF x % 2 = 1 THEN 0 ELSE 1 + Ctz(x \div 2)

\* Mutant: the inner loop missing (the block is the full alignment).
FitNoHalve(ut, rem) == ut

\* Mutant: the fit test `ut_size < remaining` (a block of exactly the
\* remaining size is halved).
FitStrict(ut, rem) ==
  LET RECURSIVE F(_)
      F(u) == IF u > 0 /\ ~(u < rem) THEN F(u \div 2) ELSE u
  IN  F(ut)

\* Mutant: halving one step too far when the block does not fit at once.
FitOneMore(ut, rem) ==
  LET RECURSIVE F(_)
      F(u) == IF u > 0 /\ ~(u <= rem) THEN F(u \div 2) ELSE u
  IN  IF ut > rem /\ F(ut) > 1 THEN F(ut) \div 2 ELSE F(ut)

\* The inner loop: halve ut_size until it fits in `remaining` (or is 0).
RECURSIVE Fit(_, _)
Fit(ut, rem) ==
  IF ut > 0 /\ ~(ut <= rem) THEN Fit(ut \div 2, rem) ELSE ut

Init ==
  /\ start \in Starts /\ size \in Sizes
  /\ current = start /\ remaining = size
  /\ uts = <<>> /\ pc = "loop"

\* Mutant: `current` advanced by the alignment instead of the block.
StepByAlignment ==
  LET ut == Fit(2^Ctz(current), remaining)
  IN  /\ pc = "loop" /\ remaining > 0
      /\ Len(uts) < MaxUts
      /\ uts' = Append(uts, <<current, Ctz(ut)>>)
      /\ current' = current + 2^Ctz(current)
      /\ remaining' = remaining - ut
      /\ UNCHANGED <<start, size, pc>>

\* One iteration of `while remaining > 0`.
Step ==
  LET ut == Fit(2^Ctz(current), remaining)
  IN  /\ pc = "loop" /\ remaining > 0
      /\ Len(uts) < MaxUts
      /\ uts' = Append(uts, <<current, Ctz(ut)>>)
      /\ current' = current + ut
      /\ remaining' = remaining - ut
      /\ UNCHANGED <<start, size, pc>>

\* The loop test fails: return uts.
Return ==
  /\ pc = "loop" /\ remaining <= 0
  /\ pc' = "done"
  /\ UNCHANGED <<start, size, current, remaining, uts>>

Next == Step \/ Return

\* The function runs to its end once called: nothing in it blocks.
Spec == Init /\ [][Next]_vars /\ WF_vars(Next)

-----------------------------------------------------------------------------

\* The loop never carves past the end of the range.
TypeOK ==
  /\ remaining \in 0..size
  /\ current = start + (size - remaining)
  /\ uts \in Seq(Nat \X (0..CtzZero))
  /\ pc \in {"loop", "done"}

(***************************************************************************)
(* The call returns: every iteration consumes a non-empty block, so the   *)
(* loop ends whatever the alignment of the start address.                  *)
(***************************************************************************)
Termination == <>(pc = "done")

(***************************************************************************)
(* The greedy carving implements the abstract one: every untyped appended *)
(* is aligned to its size and fits in what is left, and the call returns. *)
(***************************************************************************)
Abs == INSTANCE UntypedCarve
         WITH covered <- current, rest <- remaining, blocks <- uts,
              done <- (pc = "done"), MaxBits <- CtzZero

AbsSpec == Abs!ASpec

(***************************************************************************)
(* Reference: the fewest aligned power-of-two blocks that tile [lo, lo+n), *)
(* over every choice of block at each address.  The returned list is no   *)
(* longer than that: the greedy choice of the largest fitting block is    *)
(* optimal.                                                                *)
(***************************************************************************)
RECURSIVE MinTiles(_, _)
MinTiles(lo, n) ==
  IF n <= 0 THEN 0
  ELSE LET sizes == {2^k : k \in {k \in 0..CtzZero : 2^k <= n /\ lo % 2^k = 0}}
           counts == {1 + MinTiles(lo + b, n - b) : b \in sizes}
       IN  CHOOSE c \in counts : \A d \in counts : c <= d

UntypedsMinimal == pc = "done" => Len(uts) = MinTiles(start, size)
=============================================================================
