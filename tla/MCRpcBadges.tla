------------------------- MODULE MCRpcBadges -------------------------
(***************************************************************************)
(* Two instances, up to three connections from a handful of shapes (a     *)
(* server with one or two clients, two server ends of one instance), three *)
(* badge bits: the default mask 6 then has the usable badges 2 and 4.     *)
(***************************************************************************)
EXTENDS RpcBadges

CONSTANTS i1, i2

RpcTo   == [fromGlobalRpc |-> FALSE, toGlobalRpc |-> TRUE]
RpcFrom == [fromGlobalRpc |-> TRUE,  toGlobalRpc |-> FALSE]

Conn(t, f, to) == [type |-> t, from |-> f, to |-> to]

Shapes ==
  { Conn(RpcTo,   <<i1>>,     <<i2>>),
    Conn(RpcTo,   <<i1, i2>>, <<i2>>),
    Conn(RpcTo,   <<i1>>,     <<i2, i2>>),
    Conn(RpcFrom, <<i2>>,     <<i1, i2>>) }

MaxConnections == 3

MCCompositions == UNION {[1..n -> Shapes] : n \in 1..MaxConnections}

\* base/mask settings; base and mask are disjoint in every one.
MCInstConfigs ==
  { [base |-> None, mask |-> None],     \* defaults: base 0, mask 14
    [base |-> 1,    mask |-> 10],       \* usable badges 2 and 8
    [base |-> 2,    mask |-> 13] }      \* usable 1, 4, 5, 8, 9, 12
=============================================================================
