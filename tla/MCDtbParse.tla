----------------------------- MODULE MCDtbParse -----------------------------
EXTENDS DtbParse

\* Cells: SPI type 0; flags 2 (below 4, a low bit set) and 4 (level),
\* and one value that is not an integer.
Cells == {0, 2, 4, NonInt}
MaxCells == 6

MCMaxes == {-1, 0, 1}

CellLists == UNION {[1..n -> Cells] : n \in 0..MaxCells}

MCNodes ==
  {[interrupts |-> c, interrupts_extended |-> None] : c \in CellLists}
  \cup {[interrupts |-> None, interrupts_extended |-> c] : c \in CellLists \cup {None}}
=============================================================================
