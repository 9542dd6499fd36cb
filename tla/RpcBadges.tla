----------------------------- MODULE RpcBadges -----------------------------
(***************************************************************************)
(* global_rpc_endpoint_badges (src/camkes/templates/macros.py): for an end *)
(* of an instance that owns a global RPC endpoint, the list of badges,    *)
(* one per end on the other side of the connection.  Like the notification *)
(* allocator every call rescans all connections; the cursor starts at 1,  *)
(* steps by one and repairs bits outside the mask.                         *)
(*                                                                         *)
(* The state is one generation pass: the composition and configuration    *)
(* and the result of every call made so far, in any order.                 *)
(***************************************************************************)
EXTENDS CamkesGraph, FiniteSets, Bitwise

CONSTANTS
  BadgeBits,      \* seL4_Value_BadgeBits
  Instances,      \* component instances (model values)
  Compositions,   \* the compositions a pass may be run on
  InstConfigs     \* per-instance [base, mask] settings (None = absent)

ASSUME BadgeBits \in Nat \ {0}

VARIABLES
  comp,       \* the composition: a sequence of connections
  instCfg,    \* configuration[instance.name]
  badges      \* badges[e]: result of global_rpc_endpoint_badges for end e

vars == <<comp, instCfg, badges>>

NotCalled == [st |-> "not_called"]
InstOf(e) == InstAt(comp, e)
Exhausted == -1    \* set_next_badge raised

Running(n) == [st |-> "running", next |-> n, val |-> <<>>, err |-> None]
Returned(v) == [st |-> "list", next |-> 0, val |-> v, err |-> None]
Raised(err) == [st |-> "raised", next |-> 0, val |-> <<>>, err |-> err]

\* min(2**seL4_Value_BadgeBits, mask)
Bound(mask) == IF 2^BadgeBits < mask THEN 2^BadgeBits ELSE mask

(***************************************************************************)
(* set_next_badge: raise at the bound; if the value has bits outside the   *)
(* mask, add those bits to it ((~mask & v) + v) and try again.            *)
(***************************************************************************)
RECURSIVE SetNextBadge(_, _)
SetNextBadge(n, mask) ==
  IF n >= Bound(mask) THEN Exhausted
  ELSE IF (n & mask) # n THEN SetNextBadge((n - (n & mask)) + n, mask)
  ELSE n

\* Mutant: the missing advance after a badge is handed out.
AdvanceStay(ctx, o) == o

\* next_badge = set_next_badge(next_badge + 1, mask)
Advance(ctx, o) ==
  LET n == SetNextBadge(o.next + 1, ctx.mask)
  IN  IF n = Exhausted THEN Raised("exhausted") ELSE [o EXCEPT !.next = n]

\* One badge per end on the opposite side: append next | base, then step.
RECURSIVE PeerLoop(_, _, _, _)
PeerLoop(ctx, n, o, acc) ==
  IF n = 0 \/ o.st # "running" THEN [o |-> o, acc |-> acc]
  ELSE PeerLoop(ctx, n - 1, Advance(ctx, o), Append(acc, o.next | ctx.base))

Other(side) == IF side = "from" THEN "to" ELSE "from"

\* Mutant: `badges = []` missing after an end that is not the one asked for.
EndLoopNoReset(ctx, k, side, j, o) ==
  LET RECURSIVE Loop(_, _)
      Loop(jj, oo) ==
        IF jj > Len(comp[k][side]) \/ oo.st # "running" THEN oo
        ELSE LET e == <<k, side, jj>>
                 r == PeerLoop(ctx, Len(comp[k][Other(side)]), oo, oo.val)
             IN  CASE InstOf(e) # ctx.inst   -> Loop(jj + 1, oo)
                   [] r.o.st # "running"     -> r.o
                   [] e = ctx.end            -> Returned(r.acc)
                   [] OTHER                  -> Loop(jj + 1, [r.o EXCEPT !.val = r.acc])
  IN  Loop(j, o)

\* The ends of the instance on `side` of connection k.  `badges` is reset
\* after every such end that is not the one asked for.
RECURSIVE EndLoop(_, _, _, _, _)
EndLoop(ctx, k, side, j, o) ==
  IF j > Len(comp[k][side]) \/ o.st # "running" THEN o
  ELSE LET e == <<k, side, j>>
           r == PeerLoop(ctx, Len(comp[k][Other(side)]), o, <<>>)
       IN  CASE InstOf(e) # ctx.inst   -> EndLoop(ctx, k, side, j + 1, o)
             [] r.o.st # "running"     -> r.o
             [] e = ctx.end            -> Returned(r.acc)
             [] OTHER                  -> EndLoop(ctx, k, side, j + 1, r.o)

ConnStep(ctx, k, o) ==
  LET o1 == IF comp[k].type.fromGlobalRpc THEN EndLoop(ctx, k, "from", 1, o) ELSE o
  IN  IF comp[k].type.toGlobalRpc THEN EndLoop(ctx, k, "to", 1, o1) ELSE o1

RECURSIVE ConnLoop(_, _, _)
ConnLoop(ctx, k, o) ==
  IF k > Len(comp) \/ o.st # "running" THEN o
  ELSE ConnLoop(ctx, k + 1, ConnStep(ctx, k, o))

BaseOf(inst) == Get(instCfg[inst].base, 0)
MaskOf(inst) == Get(instCfg[inst].mask, 2^BadgeBits - 2)

\* Mutant: the final `raise` missing (the function returns None).
GlobalRpcEndpointBadgesNoRaise(e) ==
  LET inst  == InstOf(e)
      ctx   == [end |-> e, inst |-> inst, base |-> BaseOf(inst), mask |-> MaskOf(inst)]
      first == SetNextBadge(1, ctx.mask)
  IN  IF first = Exhausted THEN Raised("exhausted") ELSE ConnLoop(ctx, 1, Running(first))

GlobalRpcEndpointBadges(e) ==
  LET inst  == InstOf(e)
      ctx   == [end |-> e, inst |-> inst, base |-> BaseOf(inst), mask |-> MaskOf(inst)]
      first == SetNextBadge(1, ctx.mask)
      r     == ConnLoop(ctx, 1, Running(first))
  IN  CASE first = Exhausted  -> Raised("exhausted")
        [] r.st = "running"   -> Raised("not-allocatable")
        [] OTHER              -> r

-----------------------------------------------------------------------------

Init ==
  /\ comp \in Compositions
  /\ instCfg \in [Instances -> InstConfigs]
  /\ badges = [e \in Ends(comp) |-> NotCalled]

\* A template instantiation calls global_rpc_endpoint_badges for end e.
CallGlobalRpcEndpointBadges(e) ==
  /\ badges[e] = NotCalled
  /\ badges' = [badges EXCEPT ![e] = GlobalRpcEndpointBadges(e)]
  /\ UNCHANGED <<comp, instCfg>>

Next == \E e \in Ends(comp) : CallGlobalRpcEndpointBadges(e)

Spec == Init /\ [][Next]_vars

-----------------------------------------------------------------------------

TypeOK ==
  /\ DOMAIN badges = Ends(comp)
  /\ \A e \in DOMAIN badges :
       badges[e] \in {NotCalled} \cup
         [st : {"list", "raised"}, next : {0}, val : Seq(Nat),
          err : {None, "exhausted", "not-allocatable"}]

Allocated(e) == badges[e].st = "list"
BadgeSet(e) == SeqRange(badges[e].val)

(***************************************************************************)
(* No two clients of one server share a badge: the lists that separate     *)
(* calls return for different ends of one instance are disjoint, and no   *)
(* list repeats a badge.                                                   *)
(***************************************************************************)
RpcBadgesDistinct ==
  \A e1, e2 \in DOMAIN badges :
    /\ Allocated(e1) /\ Allocated(e2)
    /\ InstOf(e1) = InstOf(e2)
    => /\ e1 # e2 => BadgeSet(e1) \cap BadgeSet(e2) = {}
       /\ Cardinality(BadgeSet(e1)) = Len(badges[e1].val)

(***************************************************************************)
(* Reference.  The usable raw badges of a mask are the values below the   *)
(* bound whose bits all lie in the mask, in increasing order.  The scan   *)
(* gives each end of the instance on a global-RPC side as many badges as  *)
(* it has peers, in connection order, from-side before to-side.           *)
(***************************************************************************)
RECURSIVE Ascending(_)
Ascending(S) ==
  IF S = {} THEN <<>>
  ELSE LET m == CHOOSE m \in S : \A x \in S : m <= x IN <<m>> \o Ascending(S \ {m})

UsableOf(mask) == Ascending({v \in 1..(Bound(mask) - 1) : (v & mask) = v})

\* Tabulated once: masks are configuration values below 2^(BadgeBits + 1).
UsableTable == [m \in 0..(2^(BadgeBits + 1) - 1) |-> UsableOf(m)]
Submasks(mask) == UsableTable[mask]

\* The ends the scan gives badges to, and the scan order over them.
OnRpcSide(e) ==
  IF e[2] = "from" THEN comp[e[1]].type.fromGlobalRpc ELSE comp[e[1]].type.toGlobalRpc
DemandEnds(inst) == {x \in Ends(comp) : InstOf(x) = inst /\ OnRpcSide(x)}
SideRank(side) == IF side = "from" THEN 0 ELSE 1
ScannedBefore(x, e) ==
  <<x[1], SideRank(x[2]), x[3]>> \in
    {<<k, s, j>> \in Nat \X {0, 1} \X Nat :
       \/ k < e[1]
       \/ k = e[1] /\ s < SideRank(e[2])
       \/ k = e[1] /\ s = SideRank(e[2]) /\ j < e[3]}

Count(e) == Len(comp[e[1]][Other(e[2])])

RECURSIVE CountSum(_)
CountSum(S) == IF S = {} THEN 0
               ELSE LET x == CHOOSE x \in S : TRUE IN Count(x) + CountSum(S \ {x})

\* Badges handed out before end e.
Before(e) == CountSum({x \in DemandEnds(InstOf(e)) : ScannedBefore(x, e)})

(***************************************************************************)
(* The increment-and-repair cursor hands out the usable badges in order   *)
(* with no gap: end e receives exactly the usable values that follow the  *)
(* ones of the ends scanned before it, each OR-ed with the base.  This    *)
(* relies on the comment's claim that the repair (~mask & v) + v always   *)
(* lands on the next value inside the mask.                                *)
(***************************************************************************)
RpcMatchesReference ==
  \A e \in DOMAIN badges : Allocated(e) =>
    LET s == Submasks(MaskOf(InstOf(e)))
    IN  /\ Before(e) + Count(e) <= Len(s)
        /\ badges[e].val = [i \in 1..Count(e) |-> s[Before(e) + i] | BaseOf(InstOf(e))]

(***************************************************************************)
(* An end on a global-RPC side is refused with the exhaustion raise only  *)
(* when the usable badges of its instance's mask do not cover the badges  *)
(* of the ends scanned before it and its own: an end whose badges fit is  *)
(* never refused.                                                          *)
(***************************************************************************)
RpcExhaustionOnlyWhenFull ==
  \A e \in DOMAIN badges :
    /\ badges[e] # NotCalled /\ badges[e].err = "exhausted" /\ OnRpcSide(e)
    => Before(e) + Count(e) > Len(Submasks(MaskOf(InstOf(e))))
=============================================================================
