--------------------------- MODULE MCSchemaDeploy ---------------------------
(* Instances of SchemaDeploy for TLC. *)
EXTENDS SchemaDeploy, TLC

\* b is renamed from a, c and d are one column with two types, l and m one foreign
\* key with two targets; x is the consumer's.
MCColumns == {"a", "b", "c", "d", "x"}
MCSchemas == {{"a", "c", "i", "l"}, {"b", "d", "m"}}
MCShapes ==
    LET pairs == {{"c", "d"}, {"l", "m"}}
    IN  [o \in Objects |-> UNION {q \ {o} : q \in {r \in pairs : o \in r}}]
MCFrom == [o \in Columns |-> IF o = "b" THEN {"a"} ELSE {}]
MCParts == [o \in Columns |-> IF o = "a" THEN {"i"} ELSE {}]
MCApprovals == {{}, {"a", "x"}}
DeployersSymmetry == Permutations(Deployers)
=============================================================================
