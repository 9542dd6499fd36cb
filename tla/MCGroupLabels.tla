-------------------------- MODULE MCGroupLabels --------------------------
(***************************************************************************)
(* Three instances, one group name, one label, two connections.  Address  *)
(* spaces may name a group or an instance (a group named after one of its *)
(* members); MCLabels decides whether labels may name instances.           *)
(***************************************************************************)
EXTENDS GroupLabels

CONSTANTS a, b, c, g, L, conn1, conn2

MCInstOrder == <<a, b, c>>
MCConns == << [name |-> conn1, ends |-> {a, b}],
              [name |-> conn2, ends |-> {b, c}] >>
\* The second connection named like the label L.
MCConnsNamedL == << [name |-> conn1, ends |-> {a, b}],
                    [name |-> L, ends |-> {b, c}] >>
MCAddrSpaces == {a, b, c, g}
\* integrity_label values that are not instance names
MCLabelsPlain == {g, L}
\* integrity_label values that may name another instance
MCLabelsInst == {b, L}

\* Passes where no instance is labelled with its own name: the traces then
\* show only what the order of the loops does.
NoSelfLabel == \A x \in InstNames : ilabel[x] # x
MCSpecNoSelfLabel == Init /\ NoSelfLabel /\ [][Next]_vars
=============================================================================
