---------------------------- MODULE GroupLabels ----------------------------
(***************************************************************************)
(* integrity_group_labels (src/camkes/templates/macros.py).  One call      *)
(* builds the dict group_labels in three loops -- grouped instances,       *)
(* integrity_label settings, internal connections -- each entry being the  *)
(* canonical label of its target *as the dict stands at that moment* --    *)
(* and then returns every entry re-canonicalised.  A step of this module   *)
(* is one iteration of one of the loops.                                   *)
(***************************************************************************)
EXTENDS Integers, Sequences, FiniteSets, TLC

CONSTANTS
  InstOrder,    \* composition.instances: a sequence of instance names
  Conns,        \* composition.connections: a sequence of [name, ends]
  AddrSpaces,   \* the address_space values an instance may have
  Labels,       \* the integrity_label values an instance may have
  None,         \* Python None
  LabelCycle    \* get_canonical_label raised TemplateError

InstNames == {InstOrder[i] : i \in DOMAIN InstOrder}

VARIABLES
  addr,      \* addr[c]: c.address_space
  ilabel,    \* ilabel[c]: configuration[c].get('integrity_label')
  phase,     \* "groups", "labels", "conns", "final", "done" or "error"
  idx,       \* index of the loop in progress
  labels,    \* group_labels
  result     \* the dict returned

vars == <<addr, ilabel, phase, idx, labels, result>>

(***************************************************************************)
(* get_canonical_label: follow group_labels from l; raise when a label     *)
(* reappears.                                                              *)
(***************************************************************************)
RECURSIVE Canon(_, _, _)
Canon(gl, l, seen) ==
  IF l \notin DOMAIN gl THEN l
  ELSE IF gl[l] \in seen THEN LabelCycle
  ELSE Canon(gl, gl[l], seen \cup {gl[l]})

GetCanonicalLabel(l) == Canon(labels, l, {l})

\* group_labels[k] = v
Record(k, v) == labels' = (k :> v) @@ labels

\* The loop moves to its next element, or the function to its next loop.
Step(len, nextPhase) ==
  IF idx < len THEN /\ idx' = idx + 1 /\ UNCHANGED phase
               ELSE /\ idx' = 1 /\ phase' = nextPhase

\* A raise ends the call.
Fail == /\ phase' = "error" /\ UNCHANGED <<idx, labels>>

(***************************************************************************)
(* The stage-5 parser sets address_space to the instance's own name or to  *)
(* the name of its group; a group that bears an instance's name holds that *)
(* instance, so an address space never leads on to a further one.         *)
(***************************************************************************)
ParsedAddrSpaces ==
  {f \in [InstNames -> AddrSpaces] :
     \A c \in InstNames : f[c] \in InstNames => f[f[c]] = f[c]}

Init ==
  /\ addr \in ParsedAddrSpaces
  /\ ilabel \in [InstNames -> Labels \cup {None}]
  /\ phase = "groups"
  /\ idx = 1
  /\ labels = <<>>
  /\ result = <<>>

\* 1. Groups: an instance in another address space points at its group.
GroupStep ==
  LET c == InstOrder[idx]
      g == GetCanonicalLabel(addr[c])
  IN  /\ phase = "groups"
      /\ IF addr[c] = c THEN Step(Len(InstOrder), "labels") /\ UNCHANGED labels
         ELSE IF g = LabelCycle THEN Fail
         ELSE Record(c, g) /\ Step(Len(InstOrder), "labels")
      /\ UNCHANGED <<addr, ilabel, result>>

\* Mutant: the label does not override an instance already grouped.
LabelStepNoOverride ==
  LET c == InstOrder[idx]
      g == GetCanonicalLabel(ilabel[c])
  IN  /\ phase = "labels"
      /\ IF ilabel[c] = None \/ c \in DOMAIN labels
           THEN Step(Len(InstOrder), "conns") /\ UNCHANGED labels
         ELSE IF g = LabelCycle THEN Fail
         ELSE Record(c, g) /\ Step(Len(InstOrder), "conns")
      /\ UNCHANGED <<addr, ilabel, result>>

\* 2. Direct configuration: integrity_label overrides the group.
LabelStep ==
  LET c == InstOrder[idx]
      g == GetCanonicalLabel(ilabel[c])
  IN  /\ phase = "labels"
      /\ IF ilabel[c] = None THEN Step(Len(InstOrder), "conns") /\ UNCHANGED labels
         ELSE IF g = LabelCycle THEN Fail
         ELSE Record(c, g) /\ Step(Len(InstOrder), "conns")
      /\ UNCHANGED <<addr, ilabel, result>>

\* Mutant: key and value swapped when folding a connection into its group.
ConnStepSwapped ==
  LET conn   == Conns[idx]
      groups == {GetCanonicalLabel(i) : i \in conn.ends}
  IN  /\ phase = "conns"
      /\ IF LabelCycle \in groups THEN Fail
         ELSE /\ IF Cardinality(groups) = 1
                   THEN Record(CHOOSE g \in groups : TRUE, conn.name)
                   ELSE UNCHANGED labels
              /\ Step(Len(Conns), "final")
      /\ UNCHANGED <<addr, ilabel, result>>

\* 3. Internal connections: all ends in one group label the connection.
ConnStep ==
  LET conn   == Conns[idx]
      groups == {GetCanonicalLabel(i) : i \in conn.ends}
  IN  /\ phase = "conns"
      /\ IF LabelCycle \in groups THEN Fail
         ELSE /\ IF Cardinality(groups) = 1
                   THEN Record(conn.name, CHOOSE g \in groups : TRUE)
                   ELSE UNCHANGED labels
              /\ Step(Len(Conns), "final")
      /\ UNCHANGED <<addr, ilabel, result>>

\* The returned dict: every entry's value canonicalised once more.
Finish ==
  LET r == [k \in DOMAIN labels |-> GetCanonicalLabel(labels[k])]
  IN  /\ phase = "final"
      /\ IF \E k \in DOMAIN r : r[k] = LabelCycle
           THEN Fail /\ UNCHANGED result
           ELSE /\ result' = r
                /\ phase' = "done"
                /\ UNCHANGED <<idx, labels>>
      /\ UNCHANGED <<addr, ilabel>>

Next == GroupStep \/ LabelStep \/ ConnStep \/ Finish

Spec == Init /\ [][Next]_vars

-----------------------------------------------------------------------------

Names == InstNames \cup AddrSpaces \cup Labels

ConnNames == {Conns[i].name : i \in DOMAIN Conns}

\* Keys are instances and connections; values are labels.
TypeOK ==
  /\ phase \in {"groups", "labels", "conns", "final", "done", "error"}
  /\ idx \in 1..(Len(InstOrder) + Len(Conns))
  /\ DOMAIN labels \subseteq InstNames \cup ConnNames
  /\ \A k \in DOMAIN labels : labels[k] \in Names
  /\ DOMAIN result \subseteq InstNames \cup ConnNames
  /\ \A k \in DOMAIN result : result[k] \in Names

(***************************************************************************)
(* Reference: the redirect each element declares -- an integrity_label     *)
(* wins over the address space, and a label or address space naming the   *)
(* element itself declares none; a connection whose ends all end          *)
(* in one label is folded into it -- and its canonical label, the end of  *)
(* the redirect chain.                                                     *)
(***************************************************************************)
DeclaredTarget(c) == IF ilabel[c] # None THEN ilabel[c] ELSE addr[c]

Declared ==
  [c \in {c \in InstNames : DeclaredTarget(c) # c} |-> DeclaredTarget(c)]

RefCanon(l) == Canon(Declared, l, {l})

RefLabels ==
  LET internal == {i \in DOMAIN Conns :
                     Cardinality({RefCanon(e) : e \in Conns[i].ends}) = 1}
      connLabel(i) == RefCanon(CHOOSE e \in Conns[i].ends : TRUE)
  IN  [c \in DOMAIN Declared |-> RefCanon(c)]
        @@ [n \in {Conns[i].name : i \in internal} |->
              connLabel(CHOOSE i \in internal : Conns[i].name = n)]

RefHasCycle == \E c \in DOMAIN Declared : RefCanon(c) = LabelCycle

Returned == phase = "done"
Ended == phase \in {"done", "error"}

(***************************************************************************)
(* The call raises the label-cycle error exactly when the declared         *)
(* redirects contain a cycle: no spurious cycle from the order in which    *)
(* the loops record entries, and no cycle missed.                          *)
(***************************************************************************)
CycleIffReference == Ended => (phase = "error" <=> RefHasCycle)

(***************************************************************************)
(* The returned dict is the declared redirects resolved to the end of      *)
(* their chains, whatever the order of composition.instances.             *)
(***************************************************************************)
MatchesReference == Returned => result = RefLabels
=============================================================================
