---------------------------- MODULE VirtQueueIds ----------------------------
(***************************************************************************)
(* virtqueue_get_client_id (src/camkes/templates/macros.py): the client ID *)
(* of an end of a seL4VirtQueues connection.  Every call collects, in      *)
(* connection order (from-ends before to-ends), the instance's ends on     *)
(* seL4VirtQueues connections and their pinned IDs (the configuration key *)
(* <interface>_id), then numbers the unpinned ones from 0 upward, skipping *)
(* every ID already in the list.                                           *)
(*                                                                         *)
(* An end is a record [inst, iface]; a connection is [type, from, to].     *)
(* The state is one generation pass: the composition and configuration    *)
(* and the result of every call made so far, in any order.                 *)
(***************************************************************************)
EXTENDS CamkesGraph, FiniteSets

CONSTANTS
  Instances,      \* component instances (model values)
  Ifaces,         \* interface names (model values)
  Pins,           \* the values an <interface>_id setting may have
  Compositions    \* the compositions a pass may be run on

VARIABLES
  comp,       \* the composition: a sequence of connections
  cfg,        \* cfg[inst][iface]: configuration[inst].get(iface + "_id")
  clientId    \* clientId[e]: result of virtqueue_get_client_id for end e

vars == <<comp, cfg, clientId>>

NotCalled == -1

InstOf(e) == InstAt(comp, e).inst
IfaceOf(e) == InstAt(comp, e).iface

\* The instance's ends on seL4VirtQueues connections, from connection k on.
RECURSIVE VqEnds(_, _)
VqEnds(inst, k) ==
  IF k > Len(comp) THEN <<>>
  ELSE LET c    == comp[k]
           ends == [j \in 1..Len(c.from) |-> <<k, "from", j>>]
                     \o [j \in 1..Len(c.to) |-> <<k, "to", j>>]
           mine == IF c.type = "seL4VirtQueues"
                     THEN SelectSeq(ends, LAMBDA x : InstOf(x) = inst) ELSE <<>>
       IN  mine \o VqEnds(inst, k + 1)

\* Mutant: every lookup made with the interface of the end asked for.
PinnedIdsOwnIface(conns, e) ==
  [i \in DOMAIN conns |-> cfg[InstOf(e)][IfaceOf(e)]]

\* ids: the pinned ID of each collected end, or None.
PinnedIds(conns, e) ==
  [i \in DOMAIN conns |-> cfg[InstOf(e)][IfaceOf(conns[i])]]

\* Mutant: current_id not stepped past an ID already taken.
ScanNoSkip(ids, cur, n) ==
  IF n > 0 /\ cur \notin SeqRange(ids) THEN [id |-> cur, cur |-> cur + 1]
  ELSE [id |-> None, cur |-> cur]

(***************************************************************************)
(* `for _ in ids`: at most Len(ids) candidates from current_id on; the     *)
(* first not in ids is taken.  If all are taken ids[index] stays None.    *)
(***************************************************************************)
RECURSIVE Scan(_, _, _)
Scan(ids, cur, n) ==
  IF n = 0 THEN [id |-> None, cur |-> cur]
  ELSE IF cur \notin SeqRange(ids) THEN [id |-> cur, cur |-> cur + 1]
  ELSE Scan(ids, cur + 1, n - 1)

\* Mutant: current_id starting at 1.
AssignFrom1(ids, index, cur) ==
  LET RECURSIVE A(_, _, _)
      A(v, i, c) ==
        IF i > Len(v) THEN v
        ELSE IF v[i] # None THEN A(v, i + 1, c)
        ELSE LET s == Scan(v, c, Len(v)) IN A([v EXCEPT ![i] = s.id], i + 1, s.cur)
  IN  A(ids, index, IF cur = 0 THEN 1 ELSE cur)

\* The outer loop: each unpinned end in order gets the next free ID.
RECURSIVE Assign(_, _, _)
Assign(ids, index, cur) ==
  IF index > Len(ids) THEN ids
  ELSE IF ids[index] # None THEN Assign(ids, index + 1, cur)
  ELSE LET s == Scan(ids, cur, Len(ids))
       IN  Assign([ids EXCEPT ![index] = s.id], index + 1, s.cur)

\* ids[connections.index(end)]; the ends are compared by identity.
VirtqueueGetClientId(e) ==
  LET conns == VqEnds(InstOf(e), 1)
      ids   == Assign(PinnedIds(conns, e), 1, 0)
  IN  ids[CHOOSE i \in DOMAIN conns : conns[i] = e]

-----------------------------------------------------------------------------

VqEndsOf(c) == {e \in Ends(c) : c[e[1]].type = "seL4VirtQueues"}

Init ==
  /\ comp \in Compositions
  /\ cfg \in [Instances -> [Ifaces -> Pins \cup {None}]]
  /\ clientId = [e \in VqEndsOf(comp) |-> NotCalled]

\* A template instantiation calls virtqueue_get_client_id for end e.
CallVirtqueueGetClientId(e) ==
  /\ clientId[e] = NotCalled
  /\ clientId' = [clientId EXCEPT ![e] = VirtqueueGetClientId(e)]
  /\ UNCHANGED <<comp, cfg>>

Next == \E e \in DOMAIN clientId : CallVirtqueueGetClientId(e)

Spec == Init /\ [][Next]_vars

-----------------------------------------------------------------------------

TypeOK == \A e \in DOMAIN clientId : clientId[e] \in Nat \cup {NotCalled}

Called(e) == clientId[e] # NotCalled

(***************************************************************************)
(* Separate calls for two different ends of one instance return different *)
(* IDs: pinned and assigned IDs never collide.                            *)
(***************************************************************************)
VirtQueueIdsDistinct ==
  \A e1, e2 \in DOMAIN clientId :
    /\ e1 # e2 /\ Called(e1) /\ Called(e2)
    /\ InstOf(e1) = InstOf(e2)
    => clientId[e1] # clientId[e2]

(***************************************************************************)
(* Reference: a pinned end gets its pin; the r-th unpinned end in the      *)
(* collection order gets the r-th smallest natural number that no end of   *)
(* the instance pins -- whatever the bound on the inner scan.              *)
(***************************************************************************)
RECURSIVE NthFree(_, _, _)
NthFree(P, n, r) ==
  IF n \in P THEN NthFree(P, n + 1, r)
  ELSE IF r = 1 THEN n ELSE NthFree(P, n + 1, r - 1)

VirtQueueMatchesReference ==
  \A e \in DOMAIN clientId : Called(e) =>
    LET conns == VqEnds(InstOf(e), 1)
        pins  == PinnedIds(conns, e)
        p     == CHOOSE i \in DOMAIN conns : conns[i] = e
        r     == Cardinality({i \in 1..p : pins[i] = None})
    IN  clientId[e] = IF pins[p] # None THEN pins[p]
                      ELSE NthFree(SeqRange(pins), 0, r)
=============================================================================
