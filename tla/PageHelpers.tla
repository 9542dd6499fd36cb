----------------------------- MODULE PageHelpers -----------------------------
(***************************************************************************)
(* The page-size and rounding helpers of src/camkes/templates/macros.py:   *)
(* next_page_multiple, align_page_address, get_page_size, ROUND_UP,        *)
(* ROUND_DOWN and type_to_fit_integer.  Each is a pure function; Init     *)
(* picks one call with its arguments, the action of that helper makes the *)
(* call, and the properties compare the result with what the helper       *)
(* promises.                                                               *)
(***************************************************************************)
EXTENDS Integers, Sequences, Bitwise

CONSTANTS
  PageSizes,   \* PageSizes[arch]: capdl page_sizes(arch), smallest first
  Calls        \* the calls a template may make: records [op, ...]

VARIABLES
  call,   \* the helper called and its arguments
  out,    \* its return value
  pc      \* "call" before the call, "returned" after it

vars == <<call, out, pc>>

\* 16384, the step of next_page_multiple.
Step16K == 16384

(***************************************************************************)
(* `multiple = page_sizes(arch)[0]; while size > multiple: multiple +=     *)
(* 16384`: the loop's effect, the first base + 16384*n not below size.     *)
(***************************************************************************)
NextPageMultiple(size, base) ==
  IF size <= base THEN base
  ELSE base + Step16K * ((size - base + Step16K - 1) \div Step16K)

\* Mutant: `address & ~page_size`.
AlignMaskOffByOne(address, ps) == address - (address & ps)

\* `address & ~(page_size-1)`; for address >= 0, ~m & a = a - (a & m).
AlignPageAddress(address, ps) == address - (address & (ps - 1))

\* Mutant: the page sizes tried smallest first.
GetPageSizeForward(size, sizes) ==
  LET fits == {i \in DOMAIN sizes : size >= sizes[i] /\ size % sizes[i] = 0}
  IN  IF fits = {} THEN 0
      ELSE sizes[CHOOSE i \in fits : \A j \in fits : i <= j]

(***************************************************************************)
(* `for sz in reversed(page_sizes(arch))`: the first size, from the        *)
(* largest down, that size reaches and divides; frame_size stays 0 when    *)
(* none does.                                                              *)
(***************************************************************************)
GetPageSize(size, sizes) ==
  LET fits == {i \in DOMAIN sizes : size >= sizes[i] /\ size % sizes[i] = 0}
  IN  IF fits = {} THEN 0
      ELSE sizes[CHOOSE i \in fits : \A j \in fits : i >= j]

\* Mutant: `(x + y) // y * y`.
RoundUpPlusY(x, y) == ((x + y) \div y) * y

\* `(x + y - 1) // y * y`; \div is floor division, as Python's // for y > 0.
ROUND_UP(x, y) == ((x + y - 1) \div y) * y

ROUND_DOWN(x, y) == (x \div y) * y

(***************************************************************************)
(* type_to_fit_integer's argument may need 65 bits; TLC's integers stop at *)
(* 2^31, so a value is written 2^k + d, with d small against 2^k.  For    *)
(* such values `value <= 2**m` holds exactly when k < m, or k = m and     *)
(* d <= 0.                                                                 *)
(***************************************************************************)
AtMostPow(v, m) == v.k < m \/ (v.k = m /\ v.d <= 0)

\* No type fits: the raise.
NoType == 0

\* The width of the type returned: the first 2**m the value does not exceed.
TypeToFitInteger(v) ==
  CASE AtMostPow(v, 8)  -> 8
    [] AtMostPow(v, 16) -> 16
    [] AtMostPow(v, 32) -> 32
    [] AtMostPow(v, 64) -> 64
    [] OTHER            -> NoType

Init ==
  /\ call \in Calls
  /\ out = 0
  /\ pc = "call"

NextPageMultipleCall ==
  /\ call.op = "next_page_multiple" /\ pc = "call"
  /\ out' = NextPageMultiple(call.size, PageSizes[call.arch][1])
  /\ pc' = "returned" /\ UNCHANGED call

AlignPageAddressCall ==
  /\ call.op = "align_page_address" /\ pc = "call"
  /\ out' = AlignPageAddress(call.address, PageSizes[call.arch][1])
  /\ pc' = "returned" /\ UNCHANGED call

GetPageSizeCall ==
  /\ call.op = "get_page_size" /\ pc = "call"
  /\ out' = GetPageSize(call.size, PageSizes[call.arch])
  /\ pc' = "returned" /\ UNCHANGED call

RoundUpCall ==
  /\ call.op = "ROUND_UP" /\ pc = "call"
  /\ out' = ROUND_UP(call.x, call.y)
  /\ pc' = "returned" /\ UNCHANGED call

RoundDownCall ==
  /\ call.op = "ROUND_DOWN" /\ pc = "call"
  /\ out' = ROUND_DOWN(call.x, call.y)
  /\ pc' = "returned" /\ UNCHANGED call

TypeToFitIntegerCall ==
  /\ call.op = "type_to_fit_integer" /\ pc = "call"
  /\ out' = TypeToFitInteger(call.value)
  /\ pc' = "returned" /\ UNCHANGED call

Next ==
  \/ NextPageMultipleCall \/ AlignPageAddressCall \/ GetPageSizeCall
  \/ RoundUpCall \/ RoundDownCall \/ TypeToFitIntegerCall

Spec == Init /\ [][Next]_vars

-----------------------------------------------------------------------------

Returned(op) == call.op = op /\ pc = "returned"

(***************************************************************************)
(* next_page_multiple's docstring: it "finds the smallest multiple of 4K" *)
(* that covers size, i.e. the least multiple of the smallest page not     *)
(* below size.                                                             *)
(***************************************************************************)
NextPageMultipleSmallest ==
  Returned("next_page_multiple") =>
    LET base == PageSizes[call.arch][1]
    IN  /\ out >= call.size /\ out % base = 0
        /\ out = base \/ out - base < call.size

(***************************************************************************)
(* align_page_address clears the offset inside the smallest page: it is   *)
(* the greatest page multiple not above the address, for every address    *)
(* (the bit mask agrees with division because the page is a power of 2). *)
(***************************************************************************)
AlignIsRoundDown ==
  Returned("align_page_address") =>
    LET ps == PageSizes[call.arch][1]
    IN  /\ out % ps = 0 /\ out <= call.address /\ call.address - out < ps

(***************************************************************************)
(* get_page_size returns the largest page of the architecture that a       *)
(* mapping of size bytes can be made of entirely, or 0 when none divides  *)
(* it (the reversed() walk must find the largest, not the first).          *)
(***************************************************************************)
GetPageSizeLargest ==
  Returned("get_page_size") =>
    LET ok == {p \in {PageSizes[call.arch][i] : i \in DOMAIN PageSizes[call.arch]} :
                 p <= call.size /\ call.size % p = 0}
    IN  IF ok = {} THEN out = 0
        ELSE out \in ok /\ \A p \in ok : p <= out

(***************************************************************************)
(* ROUND_UP and ROUND_DOWN bracket x by the nearest multiples of y on      *)
(* either side, for negative x as well (floor division).                  *)
(***************************************************************************)
RoundingBrackets ==
  /\ Returned("ROUND_UP") =>
       out % call.y = 0 /\ out >= call.x /\ out - call.x < call.y
  /\ Returned("ROUND_DOWN") =>
       out % call.y = 0 /\ out <= call.x /\ call.x - out < call.y
====
