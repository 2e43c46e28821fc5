---------------------------- MODULE MigrationPlan ----------------------------
(***************************************************************************)
(* The planner of schema migrations (pkg/migration/runner.go and           *)
(* pkg/schemadiff): the difference between the live tables and a schema    *)
(* document, with renames by declared intent; the split of the consumer's  *)
(* own objects; the approval gate; the pairing of the two halves of a      *)
(* replaced foreign key; the order; and the statements, run one by one     *)
(* under PostgreSQL's dependency rules.  One tenant, one deploy at a time: *)
(* races between deploys are the subject of SchemaDeploy.                  *)
(*                                                                         *)
(* A column is [t, c, ty, id], where id identifies the values it holds; a  *)
(* table exists while it has its column "id".  A foreign key is a link     *)
(* [t, c, ref, rc, act, sym] from column c to ref(rc), with the name of    *)
(* its constraint, and every link column has an index [name, t, c].  Type, *)
(* NOT NULL and default are one attribute, ty.  The order within a phase,  *)
(* by name in the code, is left open, but for the tables to be dropped.    *)
(* Unique constraints, of which the referenced column has one, and checks  *)
(* are added like indexes and dropped never; range exclusions and foreign  *)
(* keys over several columns are left out.                                 *)
(***************************************************************************)
EXTENDS Naturals, FiniteSets

CONSTANTS
    Documents,      \* the schema documents that may be deployed
    EngineTables,   \* auth_* and files
    Foreign,        \* names of columns that only consumers add
    ForeignTable,   \* a table that only consumers add
    None,
    MaxDeploys,     \* bound: deploys of a behaviour
    MaxFaults       \* bound: statements that fail for reasons of their own

\* What the validator of documents has seen to: an old name is not declared, the
\* primary key is neither declared nor renamed, relations are between what is, and
\* a field has one relation.  What only consumers add, no document names.
ASSUME PlanAssumption ==
    /\ MaxDeploys \in Nat /\ MaxFaults \in Nat
    /\ ForeignTable \notin EngineTables /\ "id" \notin Foreign /\ None \notin Documents
    /\ \A s \in Documents :
          /\ ForeignTable \notin s.tables /\ s.tables \cap EngineTables = {}
          /\ \A t \in s.tables : s.from[t] \notin s.tables \cup {ForeignTable}
          /\ \A y \in s.cols : y.t \in s.tables /\ {y.c, y.from} \cap (Foreign \cup {"id"}) = {}
          /\ \A x, y \in s.cols : x.t = y.t => x.from # y.c /\ (x.c = y.c => x = y)
          /\ \A l \in s.links : /\ l.ref \in s.tables \cup EngineTables
                                /\ l.rc = "id" \/ \E y \in s.cols : y.t = l.ref /\ y.c = l.rc
                                /\ \E y \in s.cols : y.t = l.t /\ y.c = l.c
          /\ \A k, l \in s.links : k.t = l.t /\ k.c = l.c => k = l

VARIABLES
    db,         \* the tables as the statements so far left them
    base,       \* the committed tables
    todo,       \* the operations of the plan still to run, by phase
    doc,        \* the document being deployed
    approved,   \* the keys the operator enumerated
    start,      \* the tables when the deploy began
    history,    \* names that some deployed version declared
    outcome,    \* "running", or how the last deploy ended
    hit,        \* did a fault strike the deploy
    deploys, faults

vars == <<db, base, todo, doc, approved, start, history, outcome, hit, deploys, faults>>

\* The phases, in the order of OrderPlan; the last is applyForeignKeys.
Phases == <<"renameTable", "renameColumn", "dropFK", "dropColumn", "dropTable",
            "createTable", "addColumn", "alterColumn", "addIndex", "addFK">>

Idle == [renameTable |-> {}, renameColumn |-> {}, dropFK |-> {}, dropColumn |-> {},
         dropTable |-> {}, createTable |-> {}, addColumn |-> {}, alterColumn |-> {},
         addIndex |-> {}, addFK |-> {}, before |-> {}, replaced |-> {}]

TablesOf(d) == {x.t : x \in d.cols}
Column(d, t, c) == {x \in d.cols : x.t = t /\ x.c = c}
Ids(d) == {x.id : x \in d.cols}
SameColumn(x, y) == x.t = y.t /\ x.c = y.c
SameLink(k, l) == SameColumn(k, l) /\ k.ref = l.ref /\ k.rc = l.rc /\ k.act = l.act
SameConstraint(k, l) == SameColumn(k, l) /\ k.sym = l.sym

-----------------------------------------------------------------------------
(***************************************************************************)
(* Renames: an intent counts while the old name exists and the new one     *)
(* does not; the real model is then rewritten as PostgreSQL will rewrite   *)
(* it, so that a link that follows a rename is no difference.  Only the    *)
(* columns that links of other tables reference keep the live name in it:  *)
(* a link to a renamed column is a difference, and is replaced.            *)
(***************************************************************************)
\* The live table that the declared table t stands for.
Source(s, d, t) ==
    IF s.from[t] \in TablesOf(d) /\ t \notin TablesOf(d) THEN s.from[t] ELSE t

TableMoves(s, d) == {t \in s.tables : Source(s, d, t) # t}

\* Mutant: column renames are looked up under the table's new name only.
ColumnMovesInPlace(s, d) ==
    {y \in s.cols : /\ Column(d, y.t, y.from) # {}
                    /\ Column(d, y.t, y.c) = {}}

ColumnMoves(s, d) ==
    {y \in s.cols : /\ Column(d, Source(s, d, y.t), y.from) # {}
                    /\ Column(d, Source(s, d, y.t), y.c) = {}}

\* The name a live table, or a column of it, has once the renames have run.
Target(s, d, u) ==
    IF \E t \in TableMoves(s, d) : s.from[t] = u
    THEN CHOOSE t \in TableMoves(s, d) : s.from[t] = u ELSE u

ColumnTarget(s, d, t, c) ==
    IF \E y \in ColumnMoves(s, d) : y.t = t /\ y.from = c
    THEN (CHOOSE y \in ColumnMoves(s, d) : y.t = t /\ y.from = c).c ELSE c

\* Two names for one source, or a source that is a table of the engine, which Diff
\* does not see: it refuses to plan.
Ambiguous(s, d) ==
    \/ \E t \in TableMoves(s, d) : s.from[t] \in EngineTables
    \/ \E t, u \in TableMoves(s, d) : t # u /\ s.from[t] = s.from[u]
    \/ \E x, y \in ColumnMoves(s, d) : x # y /\ x.t = y.t /\ x.from = y.from

\* Renames that cannot run because both names exist: reported, not done.
Blocked(s, d) ==
    {[from |-> s.from[t], to |-> t] : t \in {t \in s.tables : {t, s.from[t]} \subseteq TablesOf(d)}}
    \cup {[t |-> y.t, from |-> y.from, to |-> y.c] :
            y \in {y \in s.cols : /\ Column(d, Source(s, d, y.t), y.from) # {}
                                  /\ Column(d, Source(s, d, y.t), y.c) # {}}}

Resolved(s, d) ==
    [cols  |-> {[x EXCEPT !.t = Target(s, d, @)] : x \in d.cols},
     links |-> {[l EXCEPT !.t = Target(s, d, @), !.ref = Target(s, d, @),
                          !.c = ColumnTarget(s, d, Target(s, d, l.t), @)] : l \in d.links},
     idx   |-> {[i EXCEPT !.t = Target(s, d, @),
                          !.c = ColumnTarget(s, d, Target(s, d, i.t), @)] : i \in d.idx}]

-----------------------------------------------------------------------------
(***************************************************************************)
(* Diff: the operations, by phase, under the names after the renames.      *)
(***************************************************************************)
\* The tables the diff may see.  The additive path, which does not see removed
\* tables either, plans as the approval path does when nothing is approved.
Managed(r) == TablesOf(r) \ EngineTables

\* The live name of a declared column, before its rename.
OldName(s, d, y) == IF y \in ColumnMoves(s, d) THEN y.from ELSE y.c

Diff(s, d) ==
    LET r == Resolved(s, d)
        current == Managed(r)
        matched == s.tables \cap current
        seen == {x \in r.cols : x.t \in matched /\ x.c # "id"}
        pairs == {p \in seen \X s.cols : p[1].t = p[2].t /\ p[1].c = OldName(s, d, p[2])}
    IN  [Idle EXCEPT
          !.renameTable = {[from |-> s.from[t], to |-> t] : t \in TableMoves(s, d)},
          !.renameColumn = {[t |-> y.t, from |-> y.from, to |-> y.c] : y \in ColumnMoves(s, d)},
          !.dropFK = {k \in r.links : k.t \in matched /\ ~\E l \in s.links : SameLink(k, l)},
          !.dropColumn = seen \ {p[1] : p \in pairs},
          !.dropTable = current \ s.tables,
          !.createTable = s.tables \ matched,
          !.addColumn = {y \in s.cols : y.t \in matched} \ {p[2] : p \in pairs},
          !.alterColumn = {p[2] : p \in {p \in pairs : p[1].ty # p[2].ty}},
          !.addIndex = {l \in s.links : ~\E i \in r.idx : SameColumn(i, l)},
          !.addFK = {l \in s.links : ~\E k \in r.links : SameLink(k, l)}]

\* What verifyApplied reports: every operation left that is no drop, and the
\* renames that are blocked.
Unapplied(s, d) ==
    LET plan == Diff(s, d)
    IN  UNION {Blocked(s, d), plan.renameTable, plan.renameColumn, plan.addColumn, plan.alterColumn,
               plan.addIndex, plan.addFK, {[t |-> t] : t \in plan.createTable}}

-----------------------------------------------------------------------------
(***************************************************************************)
(* The gate: consumer objects out, destructive drops by enumerated consent *)
(* only, and of the foreign keys those whose target goes or that the plan  *)
(* adds again.                                                             *)
(***************************************************************************)
\* The names a version owns: its tables and columns under old and new names.
Declares(s) ==
    LET Fields(t) == {"id"} \cup UNION {{y.c, y.from} : y \in {y \in s.cols : y.t = t}}
    IN  UNION {UNION {{<<u>>} \cup {<<u, c>> : c \in Fields(t)} : u \in {t, s.from[t]}}
               : t \in s.tables}

Readded(plan, k) == \E a \in plan.addFK : SameColumn(a, k)

\* Mutant: every safe drop stays as drift, the first half of a change included.
PartitionGatesReplaced(plan, owned, keys) ==
    LET tables == {t \in plan.dropTable : <<t>> \in owned \cap keys}
    IN  [plan EXCEPT
          !.dropTable = tables,
          !.dropColumn = {x \in @ : <<x.t, x.c>> \in owned \cap keys},
          !.dropFK = {k \in @ : k.ref \in tables}]

\* Mutant: any key approves any object.
PartitionAnyKey(plan, owned, keys) ==
    LET tables == {t \in plan.dropTable : <<t>> \in owned \cap keys}
    IN  [plan EXCEPT
          !.dropTable = tables,
          !.dropColumn = {x \in @ : \E key \in keys : key[1] = x.t},
          !.dropFK = {k \in @ : k.ref \in tables \/ Readded(plan, k)}]

Partition(plan, owned, keys) ==
    LET tables == {t \in plan.dropTable : <<t>> \in owned \cap keys}
    IN  [plan EXCEPT
          !.dropTable = tables,
          !.dropColumn = {x \in @ : <<x.t, x.c>> \in owned \cap keys},
          !.dropFK = {k \in @ : k.ref \in tables \/ Readded(plan, k)}]

\* Mutant: the pairs are not found, so drops and adds run apart.
SplitForeignKeysApart(plan) == plan

\* A drop that an add replaces leaves the executor's plan for that add.
SplitForeignKeys(plan) ==
    LET claimed == {k \in plan.dropFK : Readded(plan, k)}
    IN  [plan EXCEPT !.dropFK = @ \ claimed, !.replaced = claimed]

\* OrderPlan: a referencing table goes before the referenced one; tables that
\* reference each other lose those links first.
References(plan, links) ==
    {l \in links : {l.t, l.ref} \subseteq plan.dropTable /\ l.t # l.ref}

\* By way of these links, table t references u: u is in every set of tables that
\* holds t and what its members reference.
Reaches(plan, links, t, u) ==
    \A S \in SUBSET plan.dropTable :
        t \in S /\ (\A l \in References(plan, links) : l.t \in S => l.ref \in S) => u \in S

\* The pairs of tables of which the first must go before the second.
Before(plan, links) ==
    {p \in plan.dropTable \X plan.dropTable :
        Reaches(plan, links, p[1], p[2]) /\ ~Reaches(plan, links, p[2], p[1])}

\* Mutant: no cycle is looked for.
OrderAcyclic(plan, links) == [plan EXCEPT !.before = Before(plan, links)]

OrderPlan(plan, links) ==
    [plan EXCEPT
      !.dropFK = @ \cup {l \in References(plan, links) : Reaches(plan, links, l.ref, l.t)},
      !.before = Before(plan, links)]

Plan(s, d, owned, keys) ==
    OrderPlan(SplitForeignKeys(Partition(Diff(s, d), owned, keys)), Resolved(s, d).links)

-----------------------------------------------------------------------------
(***************************************************************************)
(* One deploy: plan, then statement by statement.  Everything before the   *)
(* indexes is one transaction, each index commits by itself, and each      *)
(* foreign key is one transaction with the drop it replaces.               *)
(***************************************************************************)
Init ==
    /\ db = [cols |-> {[t |-> t, c |-> "id", ty |-> 1, id |-> <<0, t, "id">>] : t \in EngineTables},
             links |-> {}, idx |-> {}]
    /\ base = db /\ start = db
    /\ todo = Idle /\ doc = None /\ approved = {} /\ history = {}
    /\ outcome = "none" /\ hit = FALSE
    /\ deploys = 0 /\ faults = 0

\* The keys a preview of the plan offers for approval.
Keys(plan) == {<<t>> : t \in plan.dropTable} \cup {<<x.t, x.c>> : x \in plan.dropColumn}

Deploy(s, keys) ==
    /\ deploys < MaxDeploys
    /\ deploys' = deploys + 1
    /\ doc' = s /\ approved' = keys /\ start' = db /\ hit' = FALSE
    /\ IF Ambiguous(s, db)
       THEN outcome' = "ambiguous" /\ todo' = Idle
       ELSE /\ outcome' = "running"
            /\ todo' = Plan(s, db, history \cup Declares(s), keys)
    /\ UNCHANGED <<db, base, history, faults>>

\* The consumer of a tenant adds a column of its own, or a table that
\* references one of the app's.
Consume(t) ==
    /\ outcome # "running"
    /\ t \in TablesOf(db) \ EngineTables
    /\ ForeignTable \notin TablesOf(db) /\ ~\E x \in db.cols : x.c \in Foreign
    /\ \/ \E c \in Foreign : db' = [db EXCEPT !.cols = @ \cup
              {[t |-> t, c |-> c, ty |-> 1, id |-> <<0, t, c>>]}]
       \/ db' = [db EXCEPT
              !.cols = @ \cup {[t |-> ForeignTable, c |-> c, ty |-> 1, id |-> <<0, ForeignTable, c>>]
                                : c \in {"id", "ref"}},
              !.links = @ \cup {[t |-> ForeignTable, c |-> "ref", ref |-> t, act |-> 1,
                                rc |-> "id", sym |-> <<ForeignTable, "ref">>]}]
    /\ base' = db' /\ start' = db'
    /\ doc' = None /\ outcome' = "none"
    /\ UNCHANGED <<todo, approved, history, hit, deploys, faults>>

\* A phase has its turn when the ones before it are done.
Turn(phase) ==
    /\ outcome = "running"
    /\ \E n \in DOMAIN Phases :
          Phases[n] = phase /\ \A m \in 1..(n - 1) : todo[Phases[m]] = {}

\* A statement of the transaction; PostgreSQL runs it if possible holds, and
\* otherwise the transaction is rolled back and the deploy has failed.
Statement(phase, o, possible, after) ==
    /\ Turn(phase) /\ o \in todo[phase]
    /\ IF possible
       THEN /\ db' = after
            /\ todo' = [todo EXCEPT ![phase] = @ \ {o}]
            /\ UNCHANGED outcome
       ELSE db' = base /\ todo' = Idle /\ outcome' = "refused"
    /\ UNCHANGED <<base, doc, approved, start, history, hit, deploys, faults>>

RenameTable(o) ==
    Statement("renameTable", o,
        o.from \in TablesOf(db) /\ o.to \notin TablesOf(db),
        [cols  |-> {[x EXCEPT !.t = IF @ = o.from THEN o.to ELSE @] : x \in db.cols},
         links |-> {[l EXCEPT !.t = IF @ = o.from THEN o.to ELSE @,
                              !.ref = IF @ = o.from THEN o.to ELSE @] : l \in db.links},
         idx   |-> {[i EXCEPT !.t = IF @ = o.from THEN o.to ELSE @] : i \in db.idx}])

RenameColumn(o) ==
    LET Name(t, c) == IF t = o.t /\ c = o.from THEN o.to ELSE c
    IN  Statement("renameColumn", o,
            Column(db, o.t, o.from) # {} /\ Column(db, o.t, o.to) = {},
            [cols  |-> {[x EXCEPT !.c = Name(x.t, @)] : x \in db.cols},
             links |-> {[l EXCEPT !.c = Name(l.t, @), !.rc = Name(l.ref, @)] : l \in db.links},
             idx   |-> {[i EXCEPT !.c = Name(i.t, @)] : i \in db.idx}])

DropForeignKey(k) ==
    Statement("dropFK", k, k \in db.links, [db EXCEPT !.links = @ \ {k}])

\* With the column go its link and its index; DROP COLUMN without CASCADE is
\* refused while another column references it.
DropColumn(x) ==
    Statement("dropColumn", x,
        /\ Column(db, x.t, x.c) # {}
        /\ ~\E l \in db.links : l.ref = x.t /\ l.rc = x.c /\ ~SameColumn(x, l),
        [cols  |-> {y \in db.cols : ~SameColumn(x, y)},
         links |-> {l \in db.links : ~SameColumn(x, l)},
         idx   |-> {i \in db.idx : ~SameColumn(x, i)}])

\* DROP TABLE without CASCADE: refused while another table references it.
DropTable(t) ==
    /\ ~\E u \in todo.dropTable : <<u, t>> \in todo.before
    /\ Statement("dropTable", t,
          t \in TablesOf(db) /\ ~\E l \in db.links : l.ref = t /\ l.t # t,
          [cols  |-> {x \in db.cols : x.t # t},
           links |-> {l \in db.links : l.t # t},
           idx   |-> {i \in db.idx : i.t # t}])

New(t, c, ty) == [t |-> t, c |-> c, ty |-> ty, id |-> <<deploys, t, c>>]

CreateTable(t) ==
    Statement("createTable", t,
        t \notin TablesOf(db),
        [db EXCEPT !.cols = @ \cup {New(t, "id", 1)}
                              \cup {New(t, y.c, y.ty) : y \in {y \in doc.cols : y.t = t}}])

AddColumn(y) ==
    Statement("addColumn", y,
        y.t \in TablesOf(db) /\ Column(db, y.t, y.c) = {},
        [db EXCEPT !.cols = @ \cup {New(y.t, y.c, y.ty)}])

AlterColumn(y) ==
    Statement("alterColumn", y,
        Column(db, y.t, y.c) # {},
        [db EXCEPT !.cols = {IF SameColumn(x, y) THEN [x EXCEPT !.ty = y.ty] ELSE x : x \in @}])

\* The batch before the first index, or before the end, is flushed.
Commit ==
    /\ Turn("addIndex") /\ base # db
    /\ base' = db
    /\ UNCHANGED <<db, todo, doc, approved, start, history, outcome, hit, deploys, faults>>

\* CREATE INDEX CONCURRENTLY commits by itself; index names are per schema.
AddIndex(l) ==
    /\ Turn("addIndex") /\ base = db /\ l \in todo.addIndex
    /\ IF \E i \in db.idx : i.name = <<l.t, l.c>>
       THEN todo' = Idle /\ outcome' = "refused" /\ UNCHANGED <<db, base>>
       ELSE /\ db' = [db EXCEPT !.idx = @ \cup {[name |-> <<l.t, l.c>>, t |-> l.t, c |-> l.c]}]
            /\ base' = db'
            /\ todo' = [todo EXCEPT !.addIndex = @ \ {l}]
            /\ UNCHANGED outcome
    /\ UNCHANGED <<doc, approved, start, history, hit, deploys, faults>>

\* One foreign key, with the drop of the constraint it replaces in the same
\* transaction.  One that PostgreSQL refuses is logged and skipped.
AddForeignKey(a) ==
    LET drops == {k \in todo.replaced : SameColumn(a, k)}
        old == {l \in db.links : \E k \in drops : SameConstraint(k, l)}
        sym == <<a.t, a.c>>
    IN  /\ Turn("addFK") /\ base = db /\ a \in todo.addFK
        /\ todo' = [todo EXCEPT !.addFK = @ \ {a}]
        /\ IF \/ \E k \in db.links \ old : k.t = a.t /\ k.sym = sym
              \/ Column(db, a.ref, a.rc) = {}
              \/ \E k \in drops : ~\E l \in db.links : SameConstraint(k, l)
           THEN UNCHANGED db
           ELSE db' = [db EXCEPT !.links = (@ \ old) \cup
                         {[t |-> a.t, c |-> a.c, ref |-> a.ref, rc |-> a.rc,
                           act |-> a.act, sym |-> sym]}]
        /\ base' = db'
        /\ UNCHANGED <<doc, approved, start, history, outcome, hit, deploys, faults>>

\* Mutant: the last batch is not flushed.
DoneUnflushed ==
    /\ outcome = "running" /\ \A n \in DOMAIN Phases : todo[Phases[n]] = {}
    /\ outcome' = "done"
    /\ history' = history \cup Declares(doc)
    /\ todo' = Idle
    /\ UNCHANGED <<db, base, doc, approved, start, hit, deploys, faults>>

\* The verification.  Only a deploy that left nothing to do is a version of the
\* history; of a partial one the control plane takes the record back.
Done ==
    LET complete == Unapplied(doc, db) = {}
    IN  /\ Turn("addFK") /\ todo.addFK = {} /\ base = db
        /\ outcome' = IF complete THEN "done" ELSE "partial"
        /\ history' = IF complete THEN history \cup Declares(doc) ELSE history
        /\ todo' = Idle
        /\ UNCHANGED <<db, base, doc, approved, start, hit, deploys, faults>>

\* A lock that is not granted in time, or a lost connection: the transaction
\* or the index fails the deploy, a foreign key is skipped.  The index may stay
\* behind INVALID, which the introspection takes for an index like the others.
Fault ==
    /\ outcome = "running" /\ faults < MaxFaults
    /\ faults' = faults + 1 /\ hit' = TRUE
    /\ \/ /\ Turn("addFK") /\ base = db
          /\ \E a \in todo.addFK : todo' = [todo EXCEPT !.addFK = @ \ {a}]
          /\ UNCHANGED <<db, base, outcome>>
       \/ /\ ~(Turn("addFK") /\ base = db)
          /\ db' = base /\ todo' = Idle /\ outcome' = "failed"
          /\ UNCHANGED base
       \/ /\ Turn("addIndex") /\ base = db
          /\ \E l \in todo.addIndex :
                /\ ~\E i \in db.idx : i.name = <<l.t, l.c>>
                /\ db' = [db EXCEPT !.idx = @ \cup {[name |-> <<l.t, l.c>>, t |-> l.t, c |-> l.c]}]
          /\ base' = db' /\ todo' = Idle /\ outcome' = "failed"
    /\ UNCHANGED <<doc, approved, start, history, deploys>>

Next ==
    \/ /\ outcome # "running" /\ deploys < MaxDeploys
       /\ \E s \in Documents : \E keys \in SUBSET Keys(Diff(s, db)) : Deploy(s, keys)
    \/ \E t \in TablesOf(db) : Consume(t)
    \/ \E o \in todo.renameTable : RenameTable(o)
    \/ \E o \in todo.renameColumn : RenameColumn(o)
    \/ \E k \in todo.dropFK : DropForeignKey(k)
    \/ \E x \in todo.dropColumn : DropColumn(x)
    \/ \E t \in todo.dropTable : DropTable(t)
    \/ \E t \in todo.createTable : CreateTable(t)
    \/ \E y \in todo.addColumn : AddColumn(y)
    \/ \E y \in todo.alterColumn : AlterColumn(y)
    \/ Commit
    \/ \E l \in todo.addIndex : AddIndex(l)
    \/ \E a \in todo.addFK : AddForeignKey(a)
    \/ Done
    \/ Fault

Spec == Init /\ [][Next]_vars

-----------------------------------------------------------------------------
(***************************************************************************)
(* Properties.                                                             *)
(***************************************************************************)
\* The names of tables in the documents and on the server.
NamesIn(s) == s.tables \cup {s.from[t] : t \in s.tables}
Names == (UNION {NamesIn(s) : s \in Documents}) \cup EngineTables \cup {ForeignTable}

\* Types; and a name is held by one column, one index and, on one table, one
\* constraint at most, which PostgreSQL insists on whatever the plan says.
TypeOK ==
    /\ doc \in {None} \cup Documents
    /\ TablesOf(db) \subseteq Names
    /\ \A x, y \in db.cols : SameColumn(x, y) \/ x.id = y.id => x = y
    /\ \A i, j \in db.idx : i.name = j.name => i = j
    /\ \A k, l \in db.links : k.t = l.t /\ k.sym = l.sym => k = l
    /\ \A l \in db.links : Column(db, l.t, l.c) # {} /\ Column(db, l.ref, l.rc) # {}
    /\ outcome \in {"none", "running", "done", "partial", "ambiguous", "refused", "failed"}
    /\ outcome # "running" => todo = Idle /\ db = base
    /\ hit \in BOOLEAN
    /\ deploys \in 0..MaxDeploys
    /\ faults \in 0..MaxFaults

\* A table approved for dropping that something will still reference when its
\* turn comes: a removed or a consumer's table that stays, or a link that the
\* same plan re-points, which is dropped only after the tables are.
StillReferenced ==
    \E l \in start.links :
        /\ <<l.ref>> \in approved /\ l.ref \notin doc.tables
        /\ LET t == Target(doc, start, l.t)
           IN  \/ t \notin doc.tables /\ <<t>> \notin approved \cap (history \cup Declares(doc))
              \/ \E a \in doc.links : a.t = t /\ a.c = ColumnTarget(doc, start, t, l.c)

\* A column approved for dropping that another column references.  The link goes
\* only with its own column, which may come later, or with its table, which does;
\* a removed link is left as drift, and one the plan re-points is dropped last.
ColumnReferenced ==
    \E l \in start.links :
        /\ <<Target(doc, start, l.ref), l.rc>> \in approved
        /\ l.t = l.ref => l.c # l.rc

\* A renamed table keeps the names of its indexes, so a new table under the old
\* name cannot have them.
NameTaken ==
    \E l \in doc.links : \E i \in start.idx :
        /\ i.name = <<l.t, l.c>>
        /\ Target(doc, start, i.t) # l.t \/ ColumnTarget(doc, start, l.t, i.c) # l.c

\* So does a renamed column with the name of its constraint, which a new column
\* under the old name then cannot have; the table's other constraints are free.
ConstraintTaken ==
    {l \in doc.links : \E k \in start.links :
        /\ Target(doc, start, k.t) = l.t /\ k.sym = <<l.t, l.c>>
        /\ ColumnTarget(doc, start, l.t, k.c) # l.c}

\* "The result is a Plan whose operations can be executed top-to-bottom without
\* a dependency error" (order.go), but for these: PostgreSQL refuses a statement
\* of a plan only because of StillReferenced, ColumnReferenced or NameTaken.
PlanExecutes == outcome = "refused" => StillReferenced \/ ColumnReferenced \/ NameTaken

\* Declared is applied: when every statement ran, the same comparison finds
\* nothing left to do, so that the next deploy of the document is a no-op; but
\* for the renames whose new name existed already and the constraints above.
Converges ==
    outcome \in {"done", "partial"} /\ ~hit =>
        Unapplied(doc, db) \subseteq Blocked(doc, start) \cup ConstraintTaken

\* Values are lost only to a drop the operator enumerated, under the name the
\* object has after the renames; never what the document declares, what the
\* engine owns, or, but with its whole table, what a consumer added.
LostByConsent ==
    \A x \in start.cols :
        x.id \notin Ids(db) =>
            LET t == Target(doc, start, x.t)
            IN  /\ x.t \notin EngineTables \cup {ForeignTable}
                /\ \/ <<t>> \in approved /\ t \notin doc.tables
                   \/ /\ <<t, x.c>> \in approved /\ x.c \notin Foreign
                      /\ ~\E y \in doc.cols : y.t = t /\ y.c = x.c

\* A declared rename moves the values: where only the old name existed, they
\* are under the new one when the deploy is done.
RenameMoves ==
    outcome \in {"done", "partial"} =>
        \A y \in doc.cols : \A x \in start.cols :
            /\ x.t = y.t \/ (x.t = doc.from[y.t] /\ y.t \notin TablesOf(start))
            /\ x.c = y.c \/ (x.c = y.from /\ Column(start, x.t, y.c) = {})
            => \E z \in db.cols : z.id = x.id /\ SameColumn(y, z)

\* A relation whose definition changes is never without a constraint in the
\* committed tables: it keeps the old one or has the new one.
RelationStaysGuarded ==
    doc # None =>
        \A l \in doc.links : \A k \in start.links :
            k.t = l.t /\ k.c = l.c => \E m \in base.links : SameColumn(l, m)

-----------------------------------------------------------------------------
\* What order.go says of a plan; not a property of this code.

\* "The result is a Plan whose operations can be executed top-to-bottom without a
\* dependency error" where the order is the only question: every column that
\* references one that is dropped goes in the same deploy, by itself or with its
\* table.  OrderPlan sorts tables by their references and columns not at all.
OrderedPlanRuns ==
    outcome = "refused" =>
        \/ StillReferenced \/ NameTaken
        \/ \E l \in start.links :
              LET t == Target(doc, start, l.t)
              IN  /\ <<Target(doc, start, l.ref), l.rc>> \in approved
                  /\ approved \cap {<<t>>, <<t, l.c>>} = {}
=============================================================================
