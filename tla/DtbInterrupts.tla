--------------------------- MODULE DtbInterrupts ---------------------------
(***************************************************************************)
(* parse_dtb_node_interrupts (src/camkes/templates/macros.py): decode the  *)
(* `interrupts` / `interrupts_extended` cell list of a device-tree node    *)
(* into {irq, trigger} descriptors.  A pure function, given here as        *)
(* operators; NotificationBadges calls it for DTB hardware connections.    *)
(*                                                                         *)
(* A node is a record [interrupts |-> c, interrupts_extended |-> c] where  *)
(* c is a sequence of cells or None (the key is absent).  A cell is an     *)
(* integer or the model value NonInt (a value that is not                  *)
(* numbers.Integral).  The parser's result is a record:                    *)
(*   kind = "list"  : the function returned the list `irqs`;               *)
(*   kind = "raise" : it raised the exception `err`.                       *)
(***************************************************************************)
EXTENDS Integers, Sequences

CONSTANTS
  None,     \* Python None: an absent key
  NonInt    \* a cell value that is not an integer

ArmArchs == {"aarch32", "aarch64", "arm_hyp"}

\* arch_helpers.is_arch_arm (not under src/)
IsArchArm(arch) == arch \in ArmArchs

Result(kind, irqs, err) == [kind |-> kind, irqs |-> irqs, err |-> err]
List(irqs) == Result("list", irqs, None)
Raise(err) == Result("raise", <<>>, err)

Desc(irq, trigger) == [irq |-> irq, trigger |-> trigger]

(***************************************************************************)
(* ARM: three cells per interrupt (type, id, flags).  In extended form the *)
(* controller reference is skipped by one cell but the count divides by 4. *)
(* Python 3: `_trigger < 4` and `_irq + 32` on a non-integer raise         *)
(* TypeError; a non-integer SPI cell just leaves the id unchanged.         *)
(***************************************************************************)
ArmCell(cells, ext, i, k) == cells[(IF ext THEN 1 ELSE 0) + i * 3 + k]

\* Mutant: the level test `_trigger <= 4`.
ArmDescLe(cells, ext, i) ==
  LET spi     == ArmCell(cells, ext, i, 1)
      id      == ArmCell(cells, ext, i, 2)
      trigger == ArmCell(cells, ext, i, 3)
      isSpi   == spi # NonInt /\ spi = 0
  IN  IF trigger = NonInt \/ (isSpi /\ id = NonInt)
        THEN None
        ELSE Desc(IF isSpi THEN id + 32 ELSE id, IF trigger <= 4 THEN 1 ELSE 0)

ArmDesc(cells, ext, i) ==
  LET spi     == ArmCell(cells, ext, i, 1)
      id      == ArmCell(cells, ext, i, 2)
      trigger == ArmCell(cells, ext, i, 3)
      isSpi   == spi # NonInt /\ spi = 0
  IN  IF trigger = NonInt \/ (isSpi /\ id = NonInt)
        THEN None
        ELSE Desc(IF isSpi THEN id + 32 ELSE id, IF trigger < 4 THEN 1 ELSE 0)

\* `raise(TemplateError(...) % (max))` applies % to the exception object:
\* the raise itself fails with TypeError.
ParseArm(cells, ext, max) ==
  LET num   == IF ext THEN Len(cells) \div 4 ELSE Len(cells) \div 3
      descs == [i \in 1..num |-> ArmDesc(cells, ext, i - 1)]
  IN  CASE max # -1 /\ num > max            -> Raise("TypeError")
        [] \E i \in 1..num : descs[i] = None -> Raise("TypeError")
        [] OTHER                             -> List(descs)

(***************************************************************************)
(* Other architectures: 1 cell per interrupt if fewer than 3 cells, else 3 *)
(* (type, id, flags).  Fields are read id, trigger, type, each checked to  *)
(* be an integer; the list built is returned (`return irq_set`).          *)
(***************************************************************************)
\* Mutant: `len(interrupts) <= 3` taken as one cell per interrupt.
CellsPerIrqLe(cells) == IF Len(cells) <= 3 THEN 1 ELSE 3

CellsPerIrq(cells) == IF Len(cells) < 3 THEN 1 ELSE 3

NonArmFields(cells, ic, i) ==
  IF ic = 3 THEN <<cells[i * 3 + 2], cells[i * 3 + 3], cells[i * 3 + 1]>>
            ELSE <<cells[i + 1]>>

\* Mutant: the raw flag bits stored as the trigger.
NonArmDescRawFlags(cells, ic, arch, i) ==
  LET f      == NonArmFields(cells, ic, i)
      armSpi == ic = 3 /\ IsArchArm(arch) /\ f[3] = 0
  IN  Desc(IF armSpi THEN f[1] + 32 ELSE f[1], IF ic = 1 THEN 1 ELSE f[2] % 4)

NonArmDesc(cells, ic, arch, i) ==
  LET f     == NonArmFields(cells, ic, i)
      edge  == ic = 1 \/ f[2] % 4 # 0
      armSpi == ic = 3 /\ IsArchArm(arch) /\ f[3] = 0
  IN  Desc(IF armSpi THEN f[1] + 32 ELSE f[1], IF edge THEN 1 ELSE 0)

ParseGeneric(cells0, ext, max, arch) ==
  LET cells == IF ext THEN Tail(cells0) ELSE cells0
      ic    == CellsPerIrq(cells)
      num   == Len(cells) \div ic
  IN  CASE ext /\ Len(cells0) <= 1                          -> List(<<>>)
        [] Len(cells) % ic # 0            -> Raise("malformed-interrupt-list")
        [] max # -1 /\ num > max          -> Raise("too-many-interrupts")
        [] \E i \in 0..num - 1, k \in 1..ic : NonArmFields(cells, ic, i)[k] = NonInt
                                          -> Raise("malformed-interrupt-value")
        [] OTHER -> List([i \in 1..num |-> NonArmDesc(cells, ic, arch, i - 1)])

ParseDtbNodeInterrupts(node, max, arch) ==
  LET ext   == node.interrupts = None
      cells == IF ext THEN node.interrupts_extended ELSE node.interrupts
  IN  CASE ext /\ cells = None -> List(<<>>)
        [] IsArchArm(arch)     -> ParseArm(cells, ext, max)
        [] OTHER               -> ParseGeneric(cells, ext, max, arch)
=============================================================================
