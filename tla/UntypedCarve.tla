---------------------------- MODULE UntypedCarve ----------------------------
(***************************************************************************)
(* What get_untypeds_from_range promises, abstractly: the range            *)
(* [start, start + size) is carved, from its low end, into untypeds, each  *)
(* a block of 2^k bytes whose address is a multiple of 2^k, until nothing  *)
(* is left.  Any such block may be taken next; the carving always ends.    *)
(***************************************************************************)
EXTENDS Integers, Sequences

CONSTANTS
  Starts,     \* the start addresses a range may have
  Sizes,      \* the sizes a range may have
  MaxBits     \* no block is larger than 2^MaxBits

VARIABLES
  start, size,   \* the range asked for
  covered,       \* the first address not yet carved
  rest,          \* bytes still to carve
  blocks,        \* the untypeds carved so far: <<address, size_bits>>
  done           \* the list has been returned

avars == <<start, size, covered, rest, blocks, done>>

AInit ==
  /\ start \in Starts /\ size \in Sizes
  /\ covered = start /\ rest = size
  /\ blocks = <<>> /\ done = FALSE

\* Carve an aligned block that fits in what is left.
Carve ==
  /\ ~done /\ rest > 0
  /\ \E k \in 0..MaxBits :
       /\ 2^k <= rest /\ covered % 2^k = 0
       /\ blocks' = Append(blocks, <<covered, k>>)
       /\ covered' = covered + 2^k
       /\ rest' = rest - 2^k
  /\ UNCHANGED <<start, size, done>>

Finish ==
  /\ ~done /\ rest <= 0
  /\ done' = TRUE
  /\ UNCHANGED <<start, size, covered, rest, blocks>>

ANext == Carve \/ Finish

ASpec == AInit /\ [][ANext]_avars /\ WF_avars(ANext)
=============================================================================
