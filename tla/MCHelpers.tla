------------------------------ MODULE MCHelpers ------------------------------
(***************************************************************************)
(* The pure helpers of macros.py in one model: a behaviour is either one   *)
(* call of a page, rounding or integer-type helper (PageHelpers) or one    *)
(* call of parse_dtb_node_interrupts (DtbParse).  `which` says which; the *)
(* variables of the other module keep fixed idle values.                   *)
(***************************************************************************)
EXTENDS PageHelpers

CONSTANTS None, NonInt

VARIABLES node, max, arch, result, which

dvars == <<node, max, arch, result>>
allvars == <<call, out, pc, node, max, arch, result, which>>

\* Page sizes of three seL4 architectures, smallest first.
MCPageSizes ==
  [aarch32 |-> <<4096, 65536, 1048576, 16777216>>,
   aarch64 |-> <<4096, 2097152, 1073741824>>,
   ia32    |-> <<4096, 4194304>>]

MCArchs == DOMAIN MCPageSizes

\* Sizes on both sides of every page size and of the 16K steps.
MCSizes == {0, 1, 4095, 4096, 4097, 8192, 16384, 20480, 20481, 65536,
            1048576, 2097152, 2101248, 4194304, 6291456, 16777216,
            1073741824}

MCAddresses == {0, 1, 4095, 4096, 4097, 12345, 2097157}

MCXs == -9..9
MCYs == 1..4

\* 2^k + d for k = 0 (values 0..2) and on both sides of 2^8 .. 2^64.
MCValues == [k : {0}, d : {-1, 0, 1}]
            \cup [k : {8, 16, 32, 64}, d : {-1, 0, 1}]

MCCalls ==
  [op : {"next_page_multiple", "get_page_size"}, size : MCSizes, arch : MCArchs]
  \cup [op : {"align_page_address"}, address : MCAddresses, arch : MCArchs]
  \cup [op : {"ROUND_UP", "ROUND_DOWN"}, x : MCXs, y : MCYs]
  \cup [op : {"type_to_fit_integer"}, value : MCValues]

\* Device-tree nodes: every cell list of up to six cells from Cells, as
\* `interrupts` or `interrupts_extended`, or neither.
Cells == {0, 2, 4, NonInt}
MaxCells == 6
CellLists == UNION {[1..n -> Cells] : n \in 0..MaxCells}
Nodes == {[interrupts |-> c, interrupts_extended |-> None] : c \in CellLists}
  \cup {[interrupts |-> None, interrupts_extended |-> c] : c \in CellLists \cup {None}}
Maxes == {-1, 0, 1}
Archs == {"aarch64", "riscv64"}

D == INSTANCE DtbParse

\* The values the idle module's variables keep.
IdleCall == [op |-> "none"]
IdleNode == [interrupts |-> None, interrupts_extended |-> None]

HInit ==
  \/ /\ which = "page" /\ Init
     /\ node = IdleNode /\ max = -1 /\ arch = "aarch64" /\ result = D!NotParsed
  \/ /\ which = "dtb" /\ D!Init
     /\ call = IdleCall /\ out = 0 /\ pc = "call"

HNext ==
  \/ which = "page" /\ Next /\ UNCHANGED <<dvars, which>>
  \/ which = "dtb" /\ D!Next /\ UNCHANGED <<vars, which>>

HSpec == HInit /\ [][HNext]_allvars

\* The properties of DtbParse, on the dtb behaviours.
DtbTypeOK == D!TypeOK
ArmDecodesSpec == D!ArmDecodesSpec
GenericMatchesSpec == D!GenericMatchesSpec
====
