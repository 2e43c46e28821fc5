--------------------------- MODULE MCMigrationPlan ---------------------------
(* An instance of MigrationPlan for TLC. *)
EXTENDS MigrationPlan

Tables == {"p", "q", "r", "s", "files"}
NoRename == [t \in Tables |-> None]
Col(t, c) == [t |-> t, c |-> c, ty |-> 1, from |-> None]
Link(t, c, ref) == [t |-> t, c |-> c, ref |-> ref, rc |-> "id", act |-> 1]

\* p references q.
Single == [tables |-> {"p", "q"}, from |-> NoRename,
           cols |-> {Col("p", "a")}, links |-> {Link("p", "a", "q")}]
\* p and q reference each other.
Cycle == [tables |-> {"p", "q"}, from |-> NoRename,
          cols |-> {Col("p", "a"), Col("q", "a")},
          links |-> {Link("p", "a", "q"), Link("q", "a", "p")}]
\* The relation of p goes to r, with another action, and a column is new.
Repointed == [tables |-> {"p", "r"}, from |-> NoRename,
              cols |-> {Col("p", "a"), Col("p", "b")},
              links |-> {[Link("p", "a", "r") EXCEPT !.act = 2]}]
\* q is renamed to r, the column of p is renamed and retyped, its relation stays.
Renamed == [tables |-> {"p", "r"}, from |-> [NoRename EXCEPT !["r"] = "q"],
            cols |-> {[Col("p", "b") EXCEPT !.ty = 2, !.from = "a"]},
            links |-> {Link("p", "b", "r")}]
\* p is renamed to r and its column with it; the relation is to a file.
Moved == [tables |-> {"r"}, from |-> [NoRename EXCEPT !["r"] = "p"],
          cols |-> {[Col("r", "b") EXCEPT !.from = "a"]}, links |-> {Link("r", "b", "files")}]
\* q references p by a column that is not its key.
Coded == [tables |-> {"p", "q"}, from |-> NoRename,
          cols |-> {Col("p", "b"), Col("q", "a")},
          links |-> {[Link("q", "a", "p") EXCEPT !.rc = "b"]}]
\* The referenced column is renamed.
Recoded == [tables |-> {"p", "q"}, from |-> NoRename,
            cols |-> {[Col("p", "a") EXCEPT !.from = "b"], Col("q", "a")},
            links |-> {[Link("q", "a", "p") EXCEPT !.rc = "a"]}]
\* Two tables claim to be the old p.
Torn == [tables |-> {"r", "s"}, from |-> [NoRename EXCEPT !["r"] = "p", !["s"] = "p"],
         cols |-> {}, links |-> {}]
\* A table of the engine is claimed.
Claimed == [tables |-> {"s"}, from |-> [NoRename EXCEPT !["s"] = "files"], cols |-> {}, links |-> {}]

MCDocuments == {Single, Cycle, Repointed, Renamed, Moved, Coded, Recoded, Torn, Claimed}
=============================================================================
