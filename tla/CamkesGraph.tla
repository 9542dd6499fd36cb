---------------------------- MODULE CamkesGraph ----------------------------
(***************************************************************************)
(* The read-only graph the allocators scan (camkes.ast, not under src/).   *)
(* A composition is a sequence of connections [type, from, to]; `from` and *)
(* `to` are the sequences of the instances of the connection's ends, in   *)
(* declaration order.  An end is identified by its position <<k, side, j>> *)
(* -- the identity `end is i` compares -- so two ends of one instance on  *)
(* one interface stay distinct.                                            *)
(***************************************************************************)
EXTENDS Integers, Sequences

CONSTANT None    \* Python None: an absent configuration key

EndsOf(c, k) ==
  UNION {{<<k, s, j>> : j \in 1..Len(c[k][s])} : s \in {"from", "to"}}

Ends(c) == UNION {EndsOf(c, k) : k \in 1..Len(c)}

\* end.instance
InstAt(c, e) == c[e[1]][e[2]][e[3]]

SeqRange(s) == {s[i] : i \in DOMAIN s}

\* configuration[scope].get(key, default)
Get(v, default) == IF v = None THEN default ELSE v
=============================================================================
