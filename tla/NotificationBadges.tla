------------------------- MODULE NotificationBadges -------------------------
(***************************************************************************)
(* global_endpoint_badges (src/camkes/templates/macros.py): the badge of a *)
(* connection end on the notification its instance owns.  Every call      *)
(* rebuilds the allocation from scratch by scanning all connections of the *)
(* composition; the ends of one instance share one badge namespace.        *)
(*                                                                         *)
(* The state is one generation pass: the composition and configuration    *)
(* (fixed in Init) and the result of every call the templates have made   *)
(* so far.  The templates call the macro once per end, in any order.       *)
(***************************************************************************)
EXTENDS CamkesGraph, FiniteSets, Bitwise

CONSTANTS
  BadgeBits,      \* seL4_Value_BadgeBits
  Arch,           \* architecture name passed by the templates
  Instances,      \* component instances (model values)
  Compositions,   \* the compositions a pass may be run on
  InstConfigs,    \* per-instance [base, mask] settings (None = absent)
  EndConfigs,     \* per-DTB-end [gen, dtb] settings
  NonInt          \* a non-integer device-tree cell

ASSUME BadgeBits \in Nat \ {0}

Dtb == INSTANCE DtbInterrupts

VARIABLES
  comp,       \* the composition: a sequence of connections
  instCfg,    \* configuration[instance.name]
  endCfg,     \* configuration[str(to_end)] of DTB to-ends
  badges      \* badges[e]: result of global_endpoint_badges for end e

vars == <<comp, instCfg, endCfg, badges>>

NotCalled == [st |-> "not_called"]

InstOf(e) == InstAt(comp, e)
DtbToEnds(c) ==
  UNION {{<<k, "to", j>> : j \in 1..Len(c[k].to)} : k \in {k \in 1..Len(c) : c[k].type.dtb}}

Full == 2^BadgeBits - 1
Exhausted == -1    \* set_next_badge raised

(***************************************************************************)
(* Outcome of a call, also the loop state while scanning: "running" with   *)
(* the cursor `next`, or returned a single badge / a list, or raised.      *)
(***************************************************************************)
Running(n) == [st |-> "running", next |-> n, val |-> <<>>, err |-> None]
Returned(kind, v) == [st |-> kind, next |-> 0, val |-> v, err |-> None]
Raised(err) == [st |-> "raised", next |-> 0, val |-> <<>>, err |-> err]

\* Mutant: the shift without the skip over bits outside the mask.
SetNextBadgeNoMask(n, mask) ==
  IF n >= 2^BadgeBits THEN Exhausted ELSE IF n = 0 THEN 1 ELSE 2 * n

\* set_next_badge: shift left until a bit lands in the mask; raise once the
\* cursor has reached 2^BadgeBits.
RECURSIVE SetNextBadge(_, _)
SetNextBadge(n, mask) ==
  IF n >= 2^BadgeBits THEN Exhausted
  ELSE LET m == IF n = 0 THEN 1 ELSE 2 * n
       IN  IF (m & mask) = 0 THEN SetNextBadge(m, mask) ELSE m

\* Mutant: the missing advance after a skipped end.
AdvanceStay(ctx, o) == o

Advance(ctx, o) ==
  LET n == SetNextBadge(o.next, ctx.mask)
  IN  IF n = Exhausted THEN Raised("exhausted") ELSE [o EXCEPT !.next = n]

\* One badge per interrupt: append next | base, then step the cursor.
RECURSIVE IrqLoop(_, _, _, _)
IrqLoop(ctx, n, o, acc) ==
  IF n = 0 \/ o.st # "running" THEN [o |-> o, acc |-> acc]
  ELSE IrqLoop(ctx, n - 1, Advance(ctx, o), Append(acc, o.next | ctx.base))

\* The DTB branch: every to-end of connection k with generate_interrupts.
RECURSIVE DtbLoop(_, _, _, _)
DtbLoop(ctx, k, j, o) ==
  IF j > Len(comp[k].to) \/ o.st # "running" THEN o
  ELSE LET t  == <<k, "to", j>>
           p  == Dtb!ParseDtbNodeInterrupts(endCfg[t].dtb, -1, Arch)
           r  == IrqLoop(ctx, Len(p.irqs), o, <<>>)
       IN  CASE ~endCfg[t].gen  -> DtbLoop(ctx, k, j + 1, o)
             [] p.kind = "raise" -> Raised(p.err)
             [] r.o.st = "running" /\ t = ctx.end -> Returned("list", r.acc)
             [] OTHER            -> DtbLoop(ctx, k, j + 1, r.o)

\* The from- or to-global-endpoint branch: one badge per end of the instance.
RECURSIVE EndLoop(_, _, _, _, _)
EndLoop(ctx, k, side, j, o) ==
  IF j > Len(comp[k][side]) \/ o.st # "running" THEN o
  ELSE LET e == <<k, side, j>>
       IN  CASE InstOf(e) # ctx.inst -> EndLoop(ctx, k, side, j + 1, o)
             [] e = ctx.end          -> Returned("badge", <<o.next | ctx.base>>)
             [] OTHER -> EndLoop(ctx, k, side, j + 1, Advance(ctx, o))

ConnStep(ctx, k, o) ==
  LET c  == comp[k]
      o1 == IF c.type.dtb /\ ctx.inst \in SeqRange(c.to)
              THEN DtbLoop(ctx, k, 1, o) ELSE o
      o2 == IF c.type.fromGlobal THEN EndLoop(ctx, k, "from", 1, o1) ELSE o1
  IN  IF c.type.toGlobal THEN EndLoop(ctx, k, "to", 1, o2) ELSE o2

RECURSIVE ConnLoop(_, _, _)
ConnLoop(ctx, k, o) ==
  IF k > Len(comp) \/ o.st # "running" THEN o
  ELSE ConnLoop(ctx, k + 1, ConnStep(ctx, k, o))

\* Mutant: the final `raise` missing (the function returns None).
GlobalEndpointBadgesNoRaise(e) ==
  LET inst  == InstOf(e)
      base  == Get(instCfg[inst].base, 1)
      mask  == Get(instCfg[inst].mask, Full - (Full & base))
      ctx   == [end |-> e, inst |-> inst, base |-> base, mask |-> mask]
      first == SetNextBadge(0, mask)
  IN  IF first = Exhausted THEN Raised("exhausted") ELSE ConnLoop(ctx, 1, Running(first))

GlobalEndpointBadges(e) ==
  LET inst  == InstOf(e)
      base  == Get(instCfg[inst].base, 1)
      mask  == Get(instCfg[inst].mask, Full - (Full & base))
      ctx   == [end |-> e, inst |-> inst, base |-> base, mask |-> mask]
      first == SetNextBadge(0, mask)
      r     == ConnLoop(ctx, 1, Running(first))
  IN  CASE first = Exhausted  -> Raised("exhausted")
        [] r.st = "running"   -> Raised("not-allocatable")
        [] OTHER              -> r

-----------------------------------------------------------------------------

Init ==
  /\ comp \in Compositions
  /\ instCfg \in [Instances -> InstConfigs]
  /\ endCfg \in [DtbToEnds(comp) -> EndConfigs]
  /\ badges = [e \in Ends(comp) |-> NotCalled]

\* A template instantiation calls global_endpoint_badges for end e.
CallGlobalEndpointBadges(e) ==
  /\ badges[e] = NotCalled
  /\ badges' = [badges EXCEPT ![e] = GlobalEndpointBadges(e)]
  /\ UNCHANGED <<comp, instCfg, endCfg>>

Next == \E e \in Ends(comp) : CallGlobalEndpointBadges(e)

Spec == Init /\ [][Next]_vars

-----------------------------------------------------------------------------

Outcomes ==
  {NotCalled} \cup
  [st : {"badge", "list", "raised"}, next : Int,
   val : Seq(Int), err : {None, "exhausted", "not-allocatable", "TypeError",
                          "malformed-interrupt-list", "too-many-interrupts",
                          "malformed-interrupt-value"}]

TypeOK ==
  /\ \A e \in DOMAIN badges : badges[e] \in Outcomes
  /\ DOMAIN badges = Ends(comp)

Allocated(e) == badges[e].st \in {"badge", "list"}
BadgeSet(e) == SeqRange(badges[e].val)

(***************************************************************************)
(* Badges never collide within an instance: independent calls for two      *)
(* different ends of the same instance return disjoint badges, and a DTB   *)
(* end's list has no repeats.  Each call re-derives the whole namespace;   *)
(* this is what makes separate calls agree.                                *)
(***************************************************************************)
BadgesDistinct ==
  \A e1, e2 \in DOMAIN badges :
    /\ Allocated(e1) /\ Allocated(e2)
    /\ InstOf(e1) = InstOf(e2)
    => /\ e1 # e2 => BadgeSet(e1) \cap BadgeSet(e2) = {}
       /\ Cardinality(BadgeSet(e1)) = Len(badges[e1].val)

(***************************************************************************)
(* Every badge, with the base bits removed, is one bit of the instance's   *)
(* mask below 2^BadgeBits (the configurations here keep base and mask      *)
(* disjoint, as the default mask does).                                    *)
(***************************************************************************)
BadgeWellFormed ==
  \A e \in DOMAIN badges : Allocated(e) =>
    LET base == Get(instCfg[InstOf(e)].base, 1)
        mask == Get(instCfg[InstOf(e)].mask, Full - (Full & base))
    IN  \A b \in BadgeSet(e) :
          \E k \in 0..BadgeBits - 1 : b - (b & base) = 2^k /\ (2^k & mask) # 0

(***************************************************************************)
(* Reference for exhaustion.  The badges an instance's scan hands out, in  *)
(* order: per connection, the interrupts of every generating to-end of a   *)
(* DTB connection the instance is on, then one per end of the instance on  *)
(* a global-endpoint side.  Demand(e) counts them up to and including e.  *)
(***************************************************************************)
IrqCount(t) == Len(Dtb!ParseDtbNodeInterrupts(endCfg[t].dtb, -1, Arch).irqs)

ConnDemand(inst, k) ==
  LET c    == comp[k]
      dtb  == IF c.type.dtb /\ inst \in SeqRange(c.to)
                THEN SelectSeq([j \in 1..Len(c.to) |-> <<<<k, "to", j>>, 0>>],
                               LAMBDA x : endCfg[x[1]].gen)
                ELSE <<>>
      dtbN == [i \in 1..Len(dtb) |-> <<dtb[i][1], IrqCount(dtb[i][1])>>]
      side(s, on) == IF on THEN SelectSeq([j \in 1..Len(c[s]) |-> <<<<k, s, j>>, 1>>],
                                          LAMBDA x : InstOf(x[1]) = inst)
                           ELSE <<>>
  IN  dtbN \o side("from", c.type.fromGlobal) \o side("to", c.type.toGlobal)

RECURSIVE DemandSeq(_, _)
DemandSeq(inst, k) ==
  IF k > Len(comp) THEN <<>> ELSE ConnDemand(inst, k) \o DemandSeq(inst, k + 1)

RECURSIVE SumTo(_, _, _)
SumTo(items, e, i) ==
  IF i > Len(items) THEN 0
  ELSE items[i][2] + (IF items[i][1] = e THEN 0 ELSE SumTo(items, e, i + 1))

Capacity(inst) ==
  LET base == Get(instCfg[inst].base, 1)
      mask == Get(instCfg[inst].mask, Full - (Full & base))
  IN  Cardinality({k \in 0..BadgeBits - 1 : (2^k & mask) # 0})

(***************************************************************************)
(* A call reports exhaustion only when the badges handed out up to and     *)
(* including its end do not fit in the mask: an end whose badges fit is   *)
(* never refused.                                                          *)
(***************************************************************************)
ExhaustionOnlyWhenFull ==
  \A e \in DOMAIN badges :
    /\ badges[e] # NotCalled /\ badges[e].st = "raised"
    /\ badges[e].err = "exhausted"
    /\ \E i \in DOMAIN DemandSeq(InstOf(e), 1) : DemandSeq(InstOf(e), 1)[i][1] = e
    => SumTo(DemandSeq(InstOf(e), 1), e, 1) > Capacity(InstOf(e))
=============================================================================
