----------------------- MODULE MCNotificationBadges -----------------------
(***************************************************************************)
(* Model-checking instance of NotificationBadges: two instances, up to     *)
(* three connections built from a handful of connection shapes, three      *)
(* badge bits (the default mask of base 1 then holds only two badges).     *)
(***************************************************************************)
EXTENDS NotificationBadges

CONSTANTS i1, i2

\* Connector types by the attributes global_endpoint_badges looks at.
NotifTo   == [dtb |-> FALSE, fromGlobal |-> FALSE, toGlobal |-> TRUE]
NotifFrom == [dtb |-> FALSE, fromGlobal |-> TRUE,  toGlobal |-> FALSE]
DtbHW     == [dtb |-> TRUE,  fromGlobal |-> FALSE, toGlobal |-> FALSE]
Plain     == [dtb |-> FALSE, fromGlobal |-> FALSE, toGlobal |-> FALSE]

Conn(t, f, to) == [type |-> t, from |-> f, to |-> to]

Shapes ==
  { Conn(NotifTo,   <<i1>>,     <<i2>>),
    Conn(NotifTo,   <<i2>>,     <<i2, i1>>),
    Conn(NotifFrom, <<i2, i2>>, <<i1>>),
    Conn(DtbHW,     <<i1>>,     <<i2>>),
    Conn(Plain,     <<i2>>,     <<i2>>) }

MaxConnections == 3

MCCompositions == UNION {[1..n -> Shapes] : n \in 1..MaxConnections}

\* Device-tree nodes: no interrupts key, one and two ARM interrupts.
NoIrqNode == [interrupts |-> None, interrupts_extended |-> None]
OneIrq    == [interrupts |-> <<0, 5, 2>>, interrupts_extended |-> None]
TwoIrqs   == [interrupts |-> <<0, 5, 2, 1, 6, 4>>, interrupts_extended |-> None]

MCEndConfigs ==
  {[gen |-> FALSE, dtb |-> NoIrqNode]} \cup
  [gen : {TRUE}, dtb : {NoIrqNode, OneIrq, TwoIrqs}]

\* base/mask settings; base and mask are disjoint in every one.
MCInstConfigs ==
  { [base |-> None, mask |-> None],     \* defaults: base 1, mask 6
    [base |-> 0,    mask |-> None],     \* mask 7: three badges
    [base |-> 1,    mask |-> 2] }       \* a single badge
=============================================================================
