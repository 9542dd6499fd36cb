------------------------------ MODULE DtbParse ------------------------------
(***************************************************************************)
(* One call of parse_dtb_node_interrupts on a device-tree node, checked    *)
(* against the decoding the design (spec section 4.5) describes.  Init     *)
(* picks the arguments; Parse is the call.                                 *)
(***************************************************************************)
EXTENDS DtbInterrupts

CONSTANTS
  Nodes,      \* the nodes a call may be given
  Maxes,      \* max_num_interrupts values (-1 = no limit)
  Archs       \* architecture names

VARIABLES node, max, arch, result

vars == <<node, max, arch, result>>

NotParsed == [kind |-> "not_parsed"]

Init ==
  /\ node \in Nodes /\ max \in Maxes /\ arch \in Archs
  /\ result = NotParsed

Parse ==
  /\ result = NotParsed
  /\ result' = ParseDtbNodeInterrupts(node, max, arch)
  /\ UNCHANGED <<node, max, arch>>

Next == Parse

Spec == Init /\ [][Next]_vars

-----------------------------------------------------------------------------

Errors == {None, "TypeError", "malformed-interrupt-list",
           "too-many-interrupts", "malformed-interrupt-value"}

\* Descriptors are {irq, trigger} with trigger 0 or 1 (the ARM branch
\* passes a non-integer id cell through unchecked).
TypeOK ==
  result \in {NotParsed} \cup
    [kind : {"list", "raise"},
     irqs : Seq([irq : Int \cup {NonInt}, trigger : {0, 1}]), err : Errors]

Parsed == result # NotParsed
Ext == node.interrupts = None
RawCells == IF Ext THEN node.interrupts_extended ELSE node.interrupts
AllInts(s) == \A i \in DOMAIN s : s[i] # NonInt

(***************************************************************************)
(* Reference, from the design: on ARM three cells (type, id, flags) per    *)
(* interrupt; irq is id + 32 for type 0, trigger is 1 for flags below 4.   *)
(* Elsewhere the width is 1 below three cells and 3 otherwise; trigger is  *)
(* 1 without flags or when one of their two low bits is set.               *)
(***************************************************************************)
SpecArmDescs(cells) ==
  [i \in 1..(Len(cells) \div 3) |->
     LET c == SubSeq(cells, 3 * i - 2, 3 * i)
     IN  Desc(IF c[1] = 0 THEN c[2] + 32 ELSE c[2], IF c[3] < 4 THEN 1 ELSE 0)]

SpecGeneric(cells, mx) ==
  LET w == IF Len(cells) < 3 THEN 1 ELSE 3
      n == Len(cells) \div w
  IN  CASE Len(cells) % w # 0       -> [err |-> "malformed-interrupt-list"]
        [] mx # -1 /\ n > mx        -> [err |-> "too-many-interrupts"]
        [] ~AllInts(cells)          -> [err |-> "malformed-interrupt-value"]
        [] w = 1 -> [err |-> None, irqs |-> [i \in 1..n |-> Desc(cells[i], 1)]]
        [] OTHER -> [err |-> None,
                     irqs |-> [i \in 1..n |->
                                 Desc(cells[3 * i - 1],
                                      IF cells[3 * i] % 4 # 0 THEN 1 ELSE 0)]]

(***************************************************************************)
(* On ARM, a well-formed list -- three integer cells per interrupt, or the *)
(* extended form with its one interrupt after the controller reference,   *)
(* the case the code's comment says works -- decodes as the design says.  *)
(***************************************************************************)
ArmDecodesSpec ==
  /\ Parsed /\ IsArchArm(arch) /\ RawCells # None /\ AllInts(RawCells) /\ max = -1
  /\ IF Ext THEN Len(RawCells) = 4 ELSE Len(RawCells) % 3 = 0
  => result = List(SpecArmDescs(IF Ext THEN Tail(RawCells) ELSE RawCells))

(***************************************************************************)
(* Elsewhere the call returns exactly the descriptors the design gives,   *)
(* or raises the error the design gives, in the order of its checks.      *)
(***************************************************************************)
GenericMatchesSpec ==
  /\ Parsed /\ ~IsArchArm(arch) /\ RawCells # None /\ ~(Ext /\ Len(RawCells) <= 1)
  => LET r == SpecGeneric(IF Ext THEN Tail(RawCells) ELSE RawCells, max)
     IN  IF r.err = None THEN result = List(r.irqs)
                         ELSE result.err = r.err

(***************************************************************************)
(* On ARM a node with more interrupts than the caller allows is rejected   *)
(* with the too-many-interrupts error the raise at line 727 spells out.    *)
(***************************************************************************)
ArmTooManyReported ==
  /\ Parsed /\ IsArchArm(arch) /\ RawCells # None /\ max # -1
  /\ (IF Ext THEN Len(RawCells) \div 4 ELSE Len(RawCells) \div 3) > max
  => result.err = "too-many-interrupts"
=============================================================================
