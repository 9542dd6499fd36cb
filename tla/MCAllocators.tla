----------------------------- MODULE MCAllocators -----------------------------
(***************************************************************************)
(* The RPC badge allocator and the virtqueue ID allocator in one model: a  *)
(* behaviour is a generation pass over either a composition of RPC        *)
(* connections (MCRpcBadges, the variables of RpcBadges) or one of        *)
(* virtqueue connections (VirtQueueIds through V, its composition vcomp). *)
(* The other allocator's composition stays empty, so it has no ends and   *)
(* no calls.                                                               *)
(***************************************************************************)
EXTENDS MCRpcBadges

CONSTANTS ifx, ify   \* interface names

VARIABLES vcomp, cfg, clientId

vqvars == <<vcomp, cfg, clientId>>

VQ(f, t) == [type |-> "seL4VirtQueues", from |-> f, to |-> t]

\* Connection shapes: two virtqueue pairs between i1 and i2, one virtqueue
\* from i1 to itself, and a connection of another type on interface ifx.
VqShapes ==
  { VQ(<<[inst |-> i1, iface |-> ifx]>>, <<[inst |-> i2, iface |-> ifx]>>),
    VQ(<<[inst |-> i1, iface |-> ify]>>, <<[inst |-> i2, iface |-> ify]>>),
    VQ(<<[inst |-> i1, iface |-> ifx]>>, <<[inst |-> i1, iface |-> ify]>>),
    [type |-> "seL4Notification", from |-> <<[inst |-> i1, iface |-> ifx]>>,
     to |-> <<[inst |-> i2, iface |-> ifx]>>] }

VqCompositions == UNION {[1..n -> VqShapes] : n \in 1..MaxConnections}

V == INSTANCE VirtQueueIds
       WITH comp <- vcomp, Ifaces <- {ifx, ify}, Pins <- {0, 2},
            Compositions <- VqCompositions

\* Configurations the build accepts as intended: no two ends of one
\* instance on seL4VirtQueues connections pin the same ID.
PinsDistinct ==
  \A inst \in Instances :
    LET conns == V!VqEnds(inst, 1)
    IN  \A i, j \in DOMAIN conns :
          i # j /\ cfg[inst][V!IfaceOf(conns[i])] # None
          => cfg[inst][V!IfaceOf(conns[i])] # cfg[inst][V!IfaceOf(conns[j])]

\* The idle allocator: an empty composition and default configuration.
RpcIdle ==
  /\ comp = <<>> /\ badges = <<>>
  /\ instCfg = [inst \in Instances |-> [base |-> None, mask |-> None]]
VqIdle ==
  /\ vcomp = <<>> /\ clientId = <<>>
  /\ cfg = [inst \in Instances |-> [f \in {ifx, ify} |-> None]]

AInit ==
  \/ Init /\ VqIdle
  \/ V!Init /\ PinsDistinct /\ RpcIdle

ANext ==
  \/ Next /\ UNCHANGED vqvars
  \/ V!Next /\ UNCHANGED vars

ASpec == AInit /\ [][ANext]_<<vars, vqvars>>

\* The properties of VirtQueueIds, on the virtqueue passes.
VqTypeOK == V!TypeOK
VirtQueueIdsDistinct == V!VirtQueueIdsDistinct
VirtQueueMatchesReference == V!VirtQueueMatchesReference
=============================================================================
