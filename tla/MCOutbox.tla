------------------------------ MODULE MCOutbox ------------------------------
(* Instances of Outbox for TLC. *)
EXTENDS Outbox, TLC

MCTopics == {"own", "foreign"}
MCMayOwn == [w \in Workers |-> {"own"}]
MCTenants == {"t"}

\* Two rows the workers consume.
TwoRows == 1..2
TwoTopicOf == [r \in TwoRows |-> "own"]
TwoTenantOf == [r \in TwoRows |-> "t"]

\* Three rows, the middle one of a topic nobody consumes.
ThreeRows == 1..3
ThreeTopicOf == [r \in ThreeRows |-> IF r = 2 THEN "foreign" ELSE "own"]
ThreeTenantOf == [r \in ThreeRows |-> "t"]

Symmetry == Permutations(Workers)
=============================================================================
