------------------------- MODULE MigrationPlanProofs -------------------------
(***************************************************************************)
(* What MigrationPlan promises about the values and the relations of a     *)
(* tenant, for every set of documents the validator lets through, every    *)
(* set of approvals, and any number of deploys and faults.                 *)
(*                                                                         *)
(* The invariant follows every column and every link of the tables a       *)
(* deploy began with through the plan: the name it has now, while some of  *)
(* the renames are still to run, or the consent under which it went.  It   *)
(* is stated on the document s, the tables d at the start, the rest p of   *)
(* the plan, the approved keys and the tables e of now, so that the lemma  *)
(* of a statement is about plans and tables and not about states.          *)
(*                                                                         *)
(* A second invariant, further down, says that the plan can run: what each *)
(* statement that is left needs is there and nothing is in its way, but    *)
(* for the names and the references that the theorems except.              *)
(***************************************************************************)
EXTENDS MigrationPlan, TLAPS

-----------------------------------------------------------------------------
(***************************************************************************)
(* The inductive invariant.                                                *)
(***************************************************************************)
Shaped(d) ==
    /\ d = [cols |-> d.cols, links |-> d.links, idx |-> d.idx]
    /\ \A x \in d.cols : x = [t |-> x.t, c |-> x.c, ty |-> x.ty, id |-> x.id]
    /\ \A l \in d.links : l = [t |-> l.t, c |-> l.c, ref |-> l.ref, rc |-> l.rc, act |-> l.act,
                               sym |-> l.sym]
    /\ \A i \in d.idx : i = [name |-> i.name, t |-> i.t, c |-> i.c]

\* A name and an id belong to one column, and every table has its key.
Columns(d) ==
    /\ \A x \in d.cols : x.t \in Names
    /\ \A x, y \in d.cols : SameColumn(x, y) \/ x.id = y.id => x = y
    /\ \A x \in d.cols : \E z \in d.cols : z.t = x.t /\ z.c = "id"

\* A name belongs to one index and, on one table, to one constraint.
NamedOnce(d) ==
    /\ \A i, j \in d.idx : i.name = j.name => i = j
    /\ \A k, l \in d.links : k.t = l.t /\ k.sym = l.sym => k = l

\* A link hangs between two columns that exist.
Attached(d) ==
    \A l \in d.links : /\ \E x \in d.cols : SameColumn(x, l)
                       /\ \E x \in d.cols : x.t = l.ref /\ x.c = l.rc

\* An id begins with the number of the deploy that made the column, or with 0;
\* the latter are the keys of the engine's tables and what consumers added,
\* and no rename reaches the names of those.
Numbered(n, d) ==
    \A x \in d.cols :
        /\ x.id = <<x.id[1], x.id[2], x.id[3]>> /\ x.id[1] \in 0..n
        /\ x.id[1] = 0 => /\ x.c = x.id[3]
                          /\ x.id[2] = ForeignTable => x.t = ForeignTable
                          /\ x.id[2] # ForeignTable => x.c \in Foreign \cup {"id"}

WellFormed(n, d) ==
    Shaped(d) /\ Columns(d) /\ NamedOnce(d) /\ Attached(d) /\ Numbered(n, d)

\* No consumer's name is among the names a version owns.
NotForeign(owned) ==
    /\ <<ForeignTable>> \notin owned
    /\ \A t \in Names : \A c \in Foreign : <<t, c>> \notin owned

PlanShape(p) ==
    DOMAIN p = {"renameTable", "renameColumn", "dropFK", "dropColumn", "dropTable", "createTable",
                "addColumn", "alterColumn", "addIndex", "addFK", "before", "replaced"}

\* The plan: where each operation that is left comes from.
Planned(s, d, keys, p) ==
    /\ PlanShape(p)
    /\ \A o \in p.renameTable : \E t \in TableMoves(s, d) : o = [from |-> s.from[t], to |-> t]
    /\ \A o \in p.renameColumn :
          \E y \in ColumnMoves(s, d) : o = [t |-> y.t, from |-> y.from, to |-> y.c]
    /\ \A k \in p.dropFK : \A l \in s.links :
          SameColumn(k, l) => /\ ~SameLink(k, l)
                              /\ \E j \in Resolved(s, d).links : SameLink(j, l)
    /\ \A x \in p.dropColumn :
          /\ x.t \in s.tables /\ x.c # "id" /\ x.c \notin Foreign /\ <<x.t, x.c>> \in keys
          /\ \A y \in s.cols : y.t = x.t => y.c # x.c /\ OldName(s, d, y) # x.c
          /\ \E z \in d.cols : Target(s, d, z.t) = x.t /\ z.c = x.c
    /\ \A t \in p.dropTable :
          t \notin s.tables \cup EngineTables \cup {ForeignTable} /\ <<t>> \in keys
    /\ p.createTable \subseteq s.tables /\ p.addColumn \subseteq s.cols
    /\ p.alterColumn \subseteq s.cols /\ p.addFK \subseteq s.links
    /\ \A a \in p.addFK : \A j \in Resolved(s, d).links : ~SameLink(j, a)

\* The names that a table and a column of the start have by now.
NowTable(s, d, p, t) == IF \E o \in p.renameTable : o.from = t THEN t ELSE Target(s, d, t)

NowColumn(s, d, p, t, c) ==
    LET u == Target(s, d, t)
    IN  IF \E o \in p.renameColumn : o.t = u /\ o.from = c THEN c ELSE ColumnTarget(s, d, u, c)

\* The operator gave up column x, or its table.
Forsaken(s, d, keys, x) ==
    LET t == Target(s, d, x.t)
    IN  /\ x.t \notin EngineTables \cup {ForeignTable}
        /\ \/ <<t>> \in keys /\ t \notin s.tables
           \/ /\ <<t, x.c>> \in keys /\ x.c \notin Foreign
              /\ \A y \in s.cols : y.t = t => y.c # x.c /\ OldName(s, d, y) # x.c

\* The values of the start are where the renames so far have put them.
Tracked(s, d, keys, p, e) ==
    \A x \in d.cols :
        \/ Forsaken(s, d, keys, x)
        \/ \E z \in e.cols : /\ z.id = x.id /\ z.t = NowTable(s, d, p, x.t)
                             /\ z.c = NowColumn(s, d, p, x.t, x.c)

\* Link k of the start is, after the renames, what l declares.
Follows(s, d, k, l) ==
    /\ Target(s, d, k.t) = l.t /\ ColumnTarget(s, d, Target(s, d, k.t), k.c) = l.c
    /\ Target(s, d, k.ref) = l.ref /\ k.rc = l.rc /\ k.act = l.act

\* The links that the document declares as they are stay.
Linked(s, d, p, e) ==
    \A k \in d.links : \A l \in s.links : Follows(s, d, k, l) =>
        \E m \in e.links :
            /\ m.t = NowTable(s, d, p, k.t) /\ m.c = NowColumn(s, d, p, k.t, k.c)
            /\ m.ref = NowTable(s, d, p, k.ref)
            /\ m.rc = NowColumn(s, d, p, k.ref, k.rc) /\ m.act = k.act

\* A declared column that had a link has one.
Guarded(s, d, e) ==
    \A l \in s.links : \A k \in d.links : k.t = l.t /\ k.c = l.c =>
        \E m \in e.links : SameColumn(l, m)

\* No table or column is any longer to be renamed or dropped.
Settled(p) ==
    /\ p.renameTable = {} /\ p.renameColumn = {} /\ p.dropColumn = {} /\ p.dropTable = {}

\* A declared column will be made, has been made, or was there at the start.
Provided(s, d, p, e) ==
    \A y \in s.cols :
        \/ y.t \in p.createTable
        \/ y \in p.addColumn
        \/ Settled(p) /\ \E z \in e.cols : SameColumn(y, z)
        \/ \E x \in d.cols : Target(s, d, x.t) = y.t /\ x.c = OldName(s, d, y)

\* A column this deploy made has the name it was made with.
Fresh(n, p, e) ==
    \A x \in e.cols : x.id[1] = n => x.t = x.id[2] /\ x.c = x.id[3] /\ Settled(p)

Deploying(s, d, keys, p, n, e) ==
    /\ Planned(s, d, keys, p) /\ Tracked(s, d, keys, p, e) /\ Linked(s, d, p, e)
    /\ Guarded(s, d, e) /\ Provided(s, d, p, e) /\ Fresh(n, p, e)

Live == outcome \in {"running", "done", "partial"}

Basics ==
    /\ doc \in {None} \cup Documents
    /\ outcome \in {"none", "running", "done", "partial", "ambiguous", "refused", "failed"}
    /\ outcome # "running" => todo = Idle /\ db = base
    /\ hit \in BOOLEAN
    /\ deploys \in 0..MaxDeploys
    /\ faults \in 0..MaxFaults

\* What a rollback would leave holds what the start held, but for consent.
Kept ==
    /\ \A x \in start.cols : x.id \in Ids(base) \/ Forsaken(doc, start, approved, x)
    /\ doc # None => Guarded(doc, start, base)

IInv ==
    /\ Basics
    /\ WellFormed(deploys, db) /\ WellFormed(deploys, base) /\ WellFormed(deploys, start)
    /\ NotForeign(history)
    /\ Kept
    /\ Live => /\ doc \in Documents /\ deploys > 0 /\ ~Ambiguous(doc, start)
               /\ Deploying(doc, start, approved, todo, deploys, db)

-----------------------------------------------------------------------------
(***************************************************************************)
(* Renames.                                                                *)
(***************************************************************************)
\* What the validator has seen to, for one document.
LEMMA DocumentFacts ==
    ASSUME NEW s \in Documents
    PROVE  /\ ForeignTable \notin s.tables /\ s.tables \cap EngineTables = {}
           /\ \A t \in s.tables : s.from[t] \notin s.tables /\ s.from[t] # ForeignTable
           /\ \A y \in s.cols : y.t \in s.tables /\ y.c \notin Foreign /\ y.c # "id"
                                /\ y.from \notin Foreign /\ y.from # "id"
           /\ \A x, y \in s.cols : x.t = y.t => x.from # y.c /\ (x.c = y.c => x = y)
           /\ \A l \in s.links : l.t \in s.tables /\ \E y \in s.cols : y.t = l.t /\ y.c = l.c
           /\ \A l \in s.links : l.ref \in s.tables \/ l.ref \in EngineTables
           /\ \A l \in s.links : l.rc = "id" \/ \E y \in s.cols : y.t = l.ref /\ y.c = l.rc
           /\ \A k, l \in s.links : k.t = l.t /\ k.c = l.c => k = l
           /\ \A t \in s.tables : t \in Names /\ s.from[t] \in Names
  <1>1. /\ ForeignTable \notin s.tables /\ s.tables \cap EngineTables = {}
        /\ \A t \in s.tables : s.from[t] \notin s.tables \cup {ForeignTable}
        /\ \A y \in s.cols : y.t \in s.tables /\ {y.c, y.from} \cap (Foreign \cup {"id"}) = {}
        /\ \A x, y \in s.cols : x.t = y.t => x.from # y.c /\ (x.c = y.c => x = y)
        /\ \A l \in s.links : /\ \E y \in s.cols : y.t = l.t /\ y.c = l.c
                              /\ l.ref \in s.tables \/ l.ref \in EngineTables
                              /\ l.rc = "id" \/ \E y \in s.cols : y.t = l.ref /\ y.c = l.rc
        /\ \A k, l \in s.links : k.t = l.t /\ k.c = l.c => k = l
    BY PlanAssumption
  <1>2. \A y \in s.cols : y.c \notin Foreign /\ y.c # "id" /\ y.from \notin Foreign /\ y.from # "id"
    BY <1>1
  <1>3. \A t \in s.tables : t \in Names /\ s.from[t] \in Names
    <2>1. NamesIn(s) \subseteq Names
      BY DEF Names
    <2> QED  BY <2>1 DEF NamesIn
  <1>4. \A l \in s.links : l.t \in s.tables
    BY <1>1
  <1> QED  BY <1>1, <1>2, <1>3, <1>4

LEMMA NamesFacts == ForeignTable \in Names /\ \A t \in EngineTables : t \in Names
  BY DEF Names

\* A table that moves had the old name only, and its source is the app's own.
LEMMA MoveFacts ==
    ASSUME NEW s \in Documents, NEW d, NEW t \in TableMoves(s, d)
    PROVE  /\ t \in s.tables /\ Source(s, d, t) = s.from[t] /\ s.from[t] # t
           /\ s.from[t] \in TablesOf(d) /\ t \notin TablesOf(d)
           /\ ~Ambiguous(s, d) => s.from[t] \notin EngineTables
  BY DocumentFacts DEF TableMoves, Source, Ambiguous

\* The new name of a live table.
LEMMA TargetCases ==
    ASSUME NEW s, NEW d, NEW u
    PROVE  \/ Target(s, d, u) = u /\ \A t \in TableMoves(s, d) : s.from[t] # u
           \/ \E t \in TableMoves(s, d) : s.from[t] = u /\ Target(s, d, u) = t
  <1>1. CASE \E t \in TableMoves(s, d) : s.from[t] = u
    <2>1. Target(s, d, u) = CHOOSE t \in TableMoves(s, d) : s.from[t] = u
      BY <1>1 DEF Target
    <2> QED  BY <1>1, <2>1
  <1>2. CASE ~\E t \in TableMoves(s, d) : s.from[t] = u
    BY <1>2 DEF Target
  <1> QED  BY <1>1, <1>2

LEMMA TargetOfMove ==
    ASSUME NEW s, NEW d, ~Ambiguous(s, d), NEW t \in TableMoves(s, d)
    PROVE  Target(s, d, s.from[t]) = t
  BY TargetCases DEF Ambiguous

\* Neither what is declared nor what is not the app's changes its name.
LEMMA TargetStays ==
    ASSUME NEW s \in Documents, NEW d, ~Ambiguous(s, d),
           NEW u \in s.tables \cup EngineTables \cup {ForeignTable}
    PROVE  Target(s, d, u) = u
  <1>1. \A t \in TableMoves(s, d) : s.from[t] # u
    BY MoveFacts, DocumentFacts
  <1> QED  BY <1>1, TargetCases

\* The new name leads back to the one live table behind it.
LEMMA TargetSource ==
    ASSUME NEW s \in Documents, NEW d, NEW u \in TablesOf(d), Target(s, d, u) \in s.tables
    PROVE  Source(s, d, Target(s, d, u)) = u
  BY TargetCases, MoveFacts DEF Source

\* The new name of a column.
LEMMA ColumnTargetCases ==
    ASSUME NEW s, NEW d, NEW t, NEW c
    PROVE  \/ /\ ColumnTarget(s, d, t, c) = c
              /\ ~\E y \in ColumnMoves(s, d) : y.t = t /\ y.from = c
           \/ \E y \in ColumnMoves(s, d) : y.t = t /\ y.from = c /\ ColumnTarget(s, d, t, c) = y.c
  <1>1. CASE \E y \in ColumnMoves(s, d) : y.t = t /\ y.from = c
    <2> DEFINE w == CHOOSE y \in ColumnMoves(s, d) : y.t = t /\ y.from = c
    <2>1. ColumnTarget(s, d, t, c) = w.c
      BY <1>1 DEF ColumnTarget
    <2>2. w \in ColumnMoves(s, d) /\ w.t = t /\ w.from = c
      BY <1>1
    <2> HIDE DEF w
    <2> QED  BY <2>1, <2>2
  <1>2. CASE ~\E y \in ColumnMoves(s, d) : y.t = t /\ y.from = c
    BY <1>2 DEF ColumnTarget
  <1> QED  BY <1>1, <1>2

LEMMA ColumnTargetOfMove ==
    ASSUME NEW s, NEW d, ~Ambiguous(s, d), NEW y \in ColumnMoves(s, d)
    PROVE  ColumnTarget(s, d, y.t, y.from) = y.c
  BY ColumnTargetCases DEF Ambiguous

\* A declared name is no old name, so it stays.
LEMMA ColumnTargetStays ==
    ASSUME NEW s \in Documents, NEW d, NEW y \in s.cols
    PROVE  ColumnTarget(s, d, y.t, y.c) = y.c
  BY ColumnTargetCases, DocumentFacts DEF ColumnMoves

\* The live name of a declared column becomes the declared one.
LEMMA ColumnTargetOldName ==
    ASSUME NEW s \in Documents, NEW d, ~Ambiguous(s, d), NEW y \in s.cols
    PROVE  ColumnTarget(s, d, y.t, OldName(s, d, y)) = y.c
  BY ColumnTargetOfMove, ColumnTargetStays DEF OldName

\* A column that moves had the old name only.
LEMMA ColumnMoveFacts ==
    ASSUME NEW s \in Documents, NEW d, NEW y \in ColumnMoves(s, d)
    PROVE  /\ y \in s.cols
           /\ \E x \in d.cols : x.t = Source(s, d, y.t) /\ x.c = y.from
           /\ \A x \in d.cols : x.t = Source(s, d, y.t) => x.c # y.c
  BY DEF ColumnMoves, Column

\* So no column of the start that stands for the same table has the new name.
LEMMA MoveTargetFree ==
    ASSUME NEW s \in Documents, NEW d, NEW y \in ColumnMoves(s, d),
           NEW x \in d.cols, Target(s, d, x.t) = y.t
    PROVE  x.c # y.c
  <1>1. x.t \in TablesOf(d) /\ y.t \in s.tables
    BY DocumentFacts, ColumnMoveFacts DEF TablesOf
  <1>2. Source(s, d, y.t) = x.t
    BY <1>1, TargetSource
  <1> QED  BY <1>2, ColumnMoveFacts

-----------------------------------------------------------------------------
(***************************************************************************)
(* A new plan.                                                             *)
(***************************************************************************)
\* The live model under the new names.
LEMMA ResolvedColumns ==
    ASSUME NEW s, NEW d, Shaped(d)
    PROVE  /\ \A x \in Resolved(s, d).cols :
                 \E z \in d.cols : x.t = Target(s, d, z.t) /\ x.c = z.c
           /\ \A z \in d.cols :
                 \E x \in Resolved(s, d).cols : x.t = Target(s, d, z.t) /\ x.c = z.c
  <1> DEFINE R(x) == [x EXCEPT !.t = Target(s, d, @)]
  <1>1. \A x \in d.cols : R(x).t = Target(s, d, x.t) /\ R(x).c = x.c
    BY DEF Shaped
  <1>2. Resolved(s, d).cols = {R(x) : x \in d.cols}
    BY DEF Resolved
  <1> HIDE DEF R
  <1> QED  BY <1>1, <1>2

LEMMA ResolvedLinks ==
    ASSUME NEW s, NEW d, Shaped(d)
    PROVE  /\ \A j \in Resolved(s, d).links : \E k \in d.links : \A l :
                 SameLink(j, l) <=> Follows(s, d, k, l)
           /\ \A k \in d.links : \E j \in Resolved(s, d).links : \A l :
                 SameLink(j, l) <=> Follows(s, d, k, l)
  <1> DEFINE R(k) == [k EXCEPT !.t = Target(s, d, @), !.ref = Target(s, d, @),
                               !.c = ColumnTarget(s, d, Target(s, d, k.t), @)]
  <1>1. ASSUME NEW k \in d.links
        PROVE  /\ R(k).t = Target(s, d, k.t) /\ R(k).ref = Target(s, d, k.ref)
               /\ R(k).c = ColumnTarget(s, d, Target(s, d, k.t), k.c) /\ R(k).act = k.act
               /\ R(k).rc = k.rc
    <2>1. k = [t |-> k.t, c |-> k.c, ref |-> k.ref, rc |-> k.rc, act |-> k.act, sym |-> k.sym]
      BY DEF Shaped
    <2> QED  BY <2>1
  <1>2. Resolved(s, d).links = {R(k) : k \in d.links}
    BY DEF Resolved
  <1> HIDE DEF R
  <1>3. ASSUME NEW k \in d.links, NEW l
        PROVE  SameLink(R(k), l) <=> Follows(s, d, k, l)
    BY <1>1 DEF SameLink, SameColumn, Follows
  <1> QED  BY <1>2, <1>3

LEMMA DiffFields ==
    ASSUME NEW s, NEW d
    PROVE  LET r == Resolved(s, d)
               matched == s.tables \cap Managed(r)
               seen == {x \in r.cols : x.t \in matched /\ x.c # "id"}
               p == Diff(s, d)
           IN  /\ PlanShape(p)
               /\ p.renameTable = {[from |-> s.from[t], to |-> t] : t \in TableMoves(s, d)}
               /\ p.renameColumn = {[t |-> y.t, from |-> y.from, to |-> y.c] : y \in ColumnMoves(s, d)}
               /\ p.dropFK = {k \in r.links : k.t \in matched /\ ~\E l \in s.links : SameLink(k, l)}
               /\ \A x \in p.dropColumn :
                     x \in seen /\ \A y \in s.cols : y.t = x.t => OldName(s, d, y) # x.c
               /\ p.dropTable = Managed(r) \ s.tables
               /\ p.createTable = s.tables \ matched
               /\ \A y : y \in p.addColumn <=>
                     /\ y \in s.cols /\ y.t \in matched
                     /\ ~\E x \in seen : x.t = y.t /\ x.c = OldName(s, d, y)
               /\ \A y : y \in p.alterColumn <=>
                     /\ y \in s.cols
                     /\ \E x \in seen : x.t = y.t /\ x.c = OldName(s, d, y) /\ x.ty # y.ty
               /\ p.addIndex = {l \in s.links : ~\E i \in r.idx : SameColumn(i, l)}
               /\ p.addFK = {l \in s.links : ~\E k \in r.links : SameLink(k, l)}
               /\ p.replaced = {}
  <1> DEFINE r == Resolved(s, d)
             matched == s.tables \cap Managed(r)
             seen == {x \in r.cols : x.t \in matched /\ x.c # "id"}
             pairs == {q \in seen \X s.cols : q[1].t = q[2].t /\ q[1].c = OldName(s, d, q[2])}
             p == Diff(s, d)
  <1>1. PlanShape(p)
    BY DEF PlanShape, Diff, Idle
  <1>2. /\ p.renameTable = {[from |-> s.from[t], to |-> t] : t \in TableMoves(s, d)}
        /\ p.renameColumn = {[t |-> y.t, from |-> y.from, to |-> y.c] : y \in ColumnMoves(s, d)}
        /\ p.dropFK = {k \in r.links : k.t \in matched /\ ~\E l \in s.links : SameLink(k, l)}
        /\ p.dropTable = Managed(r) \ s.tables
        /\ p.createTable = s.tables \ matched
        /\ p.addIndex = {l \in s.links : ~\E i \in r.idx : SameColumn(i, l)}
        /\ p.addFK = {l \in s.links : ~\E k \in r.links : SameLink(k, l)}
        /\ p.replaced = {}
    BY DEF Diff, Idle
  <1>3. /\ p.dropColumn = seen \ {q[1] : q \in pairs}
        /\ p.addColumn = {y \in s.cols : y.t \in matched} \ {q[2] : q \in pairs}
        /\ p.alterColumn = {q[2] : q \in {q \in pairs : q[1].ty # q[2].ty}}
    BY DEF Diff, Idle
  <1> HIDE DEF p, r, matched, seen
  <1>4. \A x, y : <<x, y>> \in pairs <=>
           x \in seen /\ y \in s.cols /\ x.t = y.t /\ x.c = OldName(s, d, y)
    OBVIOUS
  <1>5. ASSUME NEW x \in p.dropColumn
        PROVE  x \in seen /\ \A y \in s.cols : y.t = x.t => OldName(s, d, y) # x.c
    <2>1. x \in seen /\ x \notin {q[1] : q \in pairs}
      BY <1>3
    <2>2. ASSUME NEW y \in s.cols, y.t = x.t, OldName(s, d, y) = x.c
          PROVE  FALSE
      <3>1. <<x, y>> \in pairs
        BY <2>1, <2>2
      <3> QED  BY <2>1, <3>1
    <2> QED  BY <2>1, <2>2
  <1>6. ASSUME NEW y
        PROVE  /\ y \in p.addColumn <=>
                     /\ y \in s.cols /\ y.t \in matched
                     /\ ~\E x \in seen : x.t = y.t /\ x.c = OldName(s, d, y)
               /\ y \in p.alterColumn <=>
                     /\ y \in s.cols
                     /\ \E x \in seen : x.t = y.t /\ x.c = OldName(s, d, y) /\ x.ty # y.ty
    <2>1. y \in {q[2] : q \in pairs}
          <=> y \in s.cols /\ \E x \in seen : x.t = y.t /\ x.c = OldName(s, d, y)
      <3>1. ASSUME NEW q \in pairs, y = q[2]
            PROVE  y \in s.cols /\ \E x \in seen : x.t = y.t /\ x.c = OldName(s, d, y)
        BY <3>1
      <3>2. ASSUME y \in s.cols, NEW x \in seen, x.t = y.t, x.c = OldName(s, d, y)
            PROVE  y \in {q[2] : q \in pairs}
        <4>1. <<x, y>> \in pairs /\ <<x, y>>[2] = y
          BY <3>2, <1>4
        <4> HIDE DEF pairs
        <4> QED  BY <4>1
      <3> HIDE DEF pairs
      <3> QED  BY <3>1, <3>2
    <2>2. y \in {q[2] : q \in {q \in pairs : q[1].ty # q[2].ty}}
          <=> /\ y \in s.cols
              /\ \E x \in seen : x.t = y.t /\ x.c = OldName(s, d, y) /\ x.ty # y.ty
      <3>1. ASSUME NEW q \in pairs, q[1].ty # q[2].ty, y = q[2]
            PROVE  /\ y \in s.cols
                   /\ \E x \in seen : x.t = y.t /\ x.c = OldName(s, d, y) /\ x.ty # y.ty
        BY <3>1
      <3>2. ASSUME y \in s.cols, NEW x \in seen, x.t = y.t, x.c = OldName(s, d, y), x.ty # y.ty
            PROVE  y \in {q[2] : q \in {q \in pairs : q[1].ty # q[2].ty}}
        <4>1. <<x, y>> \in pairs /\ <<x, y>>[2] = y /\ <<x, y>>[1] = x
          BY <3>2, <1>4
        <4> HIDE DEF pairs
        <4> QED  BY <3>2, <4>1
      <3> HIDE DEF pairs
      <3> QED  BY <3>1, <3>2
    <2> HIDE DEF pairs
    <2> QED  BY <1>3, <2>1, <2>2
  <1> QED  BY <1>1, <1>2, <1>5, <1>6 DEF p, r, matched, seen

\* Which of the drops the gate lets through, which of them become one half of a
\* replacement, and which are for the order's sake.
LEMMA PlanFields ==
    ASSUME NEW s, NEW d, NEW owned, NEW keys
    PROVE  LET p == Diff(s, d)
               q == Plan(s, d, owned, keys)
               r == Resolved(s, d).links
           IN  /\ PlanShape(q)
               /\ q.renameTable = p.renameTable /\ q.renameColumn = p.renameColumn
               /\ \A t : t \in q.dropTable <=> t \in p.dropTable /\ <<t>> \in owned /\ <<t>> \in keys
               /\ \A x : x \in q.dropColumn <=>
                     x \in p.dropColumn /\ <<x.t, x.c>> \in owned /\ <<x.t, x.c>> \in keys
               /\ \A k : k \in q.dropFK <=>
                     \/ k \in p.dropFK /\ k.ref \in q.dropTable /\ ~Readded(p, k)
                     \/ k \in References(q, r) /\ Reaches(q, r, k.ref, k.t)
               /\ q.replaced = {k \in p.dropFK : Readded(p, k)}
               /\ q.before = Before(q, r)
               /\ q.createTable = p.createTable /\ q.addColumn = p.addColumn
               /\ q.alterColumn = p.alterColumn /\ q.addIndex = p.addIndex /\ q.addFK = p.addFK
  <1> DEFINE p == Diff(s, d)
             a == Partition(p, owned, keys)
             b == SplitForeignKeys(a)
             r == Resolved(s, d).links
             q == OrderPlan(b, r)
  <1>1. PlanShape(p)
    BY DiffFields
  <1> HIDE DEF p, r
  <1>2. /\ PlanShape(a)
        /\ a.renameTable = p.renameTable /\ a.renameColumn = p.renameColumn
        /\ a.dropTable = {t \in p.dropTable : <<t>> \in owned \cap keys}
        /\ a.dropColumn = {x \in p.dropColumn : <<x.t, x.c>> \in owned \cap keys}
        /\ a.dropFK = {k \in p.dropFK : k.ref \in a.dropTable \/ Readded(p, k)}
        /\ a.createTable = p.createTable /\ a.addColumn = p.addColumn
        /\ a.alterColumn = p.alterColumn /\ a.addIndex = p.addIndex /\ a.addFK = p.addFK
    BY <1>1 DEF Partition, PlanShape
  <1> HIDE DEF a
  <1>3. /\ PlanShape(b)
        /\ b.renameTable = a.renameTable /\ b.renameColumn = a.renameColumn
        /\ b.dropTable = a.dropTable /\ b.dropColumn = a.dropColumn
        /\ b.dropFK = a.dropFK \ {k \in a.dropFK : Readded(a, k)}
        /\ b.replaced = {k \in a.dropFK : Readded(a, k)}
        /\ b.createTable = a.createTable /\ b.addColumn = a.addColumn
        /\ b.alterColumn = a.alterColumn /\ b.addIndex = a.addIndex /\ b.addFK = a.addFK
    BY <1>2 DEF SplitForeignKeys, PlanShape
  <1> HIDE DEF b
  <1>4. /\ PlanShape(q)
        /\ q.renameTable = b.renameTable /\ q.renameColumn = b.renameColumn
        /\ q.dropTable = b.dropTable /\ q.dropColumn = b.dropColumn
        /\ q.dropFK = b.dropFK \cup {l \in References(b, r) : Reaches(b, r, l.ref, l.t)}
        /\ q.before = Before(b, r)
        /\ q.replaced = b.replaced
        /\ q.createTable = b.createTable /\ q.addColumn = b.addColumn
        /\ q.alterColumn = b.alterColumn /\ q.addIndex = b.addIndex /\ q.addFK = b.addFK
    BY <1>3 DEF OrderPlan, PlanShape
  <1>5. q = Plan(s, d, owned, keys)
    BY DEF Plan, p, a, b, r
  <1> HIDE DEF q
  <1>6. \A k : Readded(a, k) <=> Readded(p, k)
    BY <1>2 DEF Readded
  <1>7. /\ References(b, r) = References(q, r)
        /\ \A t, u : Reaches(b, r, t, u) <=> Reaches(q, r, t, u)
    <2>1. References(b, r) = References(q, r)
      BY <1>4 DEF References
    <2> QED  BY <1>4, <2>1 DEF Reaches
  <1>8. q.before = Before(q, r)
    BY <1>4, <1>7 DEF Before
  <1>9. \A k : k \in q.dropFK <=>
           \/ k \in p.dropFK /\ k.ref \in q.dropTable /\ ~Readded(p, k)
           \/ k \in References(q, r) /\ Reaches(q, r, k.ref, k.t)
    BY <1>2, <1>3, <1>4, <1>6, <1>7
  <1>10. q.replaced = {k \in p.dropFK : Readded(p, k)}
    BY <1>2, <1>3, <1>4, <1>6
  <1>11. /\ \A t : t \in q.dropTable <=> t \in p.dropTable /\ <<t>> \in owned /\ <<t>> \in keys
         /\ \A x : x \in q.dropColumn <=>
               x \in p.dropColumn /\ <<x.t, x.c>> \in owned /\ <<x.t, x.c>> \in keys
    BY <1>2, <1>3, <1>4
  <1> QED  BY <1>2, <1>3, <1>4, <1>5, <1>8, <1>9, <1>10, <1>11 DEF p, r

\* What the diff finds to drop is not declared, and the gate lets through what the
\* app owns and the operator enumerated.
LEMMA PlanIsPlanned ==
    ASSUME NEW s \in Documents, NEW d, NEW n, WellFormed(n, d), ~Ambiguous(s, d),
           NEW owned, NotForeign(owned), NEW keys
    PROVE  Planned(s, d, keys, Plan(s, d, owned, keys))
  <1> DEFINE p == Diff(s, d)
             q == Plan(s, d, owned, keys)
             r == Resolved(s, d)
  <1> USE DEF WellFormed
  <1>1. \A o \in q.renameTable : \E t \in TableMoves(s, d) : o = [from |-> s.from[t], to |-> t]
    BY PlanFields, DiffFields
  <1>2. \A o \in q.renameColumn :
           \E y \in ColumnMoves(s, d) : o = [t |-> y.t, from |-> y.from, to |-> y.c]
    BY PlanFields, DiffFields
  <1>3. ASSUME NEW t \in q.dropTable
        PROVE  t \notin s.tables \cup EngineTables \cup {ForeignTable} /\ <<t>> \in keys
    <2>1. t \in p.dropTable /\ <<t>> \in owned /\ <<t>> \in keys
      BY PlanFields
    <2>2. t \in Managed(r) \ s.tables
      BY <2>1, DiffFields
    <2> QED  BY <2>1, <2>2 DEF Managed, NotForeign
  <1>4. ASSUME NEW k \in q.dropFK, NEW l \in s.links, SameColumn(k, l)
        PROVE  ~SameLink(k, l) /\ \E j \in r.links : SameLink(j, l)
    <2>1. k.t \in s.tables
      BY <1>4, DocumentFacts DEF SameColumn
    <2>a. \/ k \in p.dropFK /\ ~Readded(p, k)
          \/ k \in References(q, r.links)
      BY PlanFields
    <2>2. k \in p.dropFK /\ ~Readded(p, k)
      BY <1>3, <2>1, <2>a DEF References
    <2>3. ~SameLink(k, l)
      BY <2>2, DiffFields
    <2>4. l \notin p.addFK
      BY <1>4, <2>2 DEF Readded, SameColumn
    <2> QED  BY <2>3, <2>4, DiffFields
  <1>5. ASSUME NEW x \in q.dropColumn
        PROVE  /\ x.t \in s.tables /\ x.c # "id" /\ x.c \notin Foreign /\ <<x.t, x.c>> \in keys
               /\ \A y \in s.cols : y.t = x.t => y.c # x.c /\ OldName(s, d, y) # x.c
               /\ \E z \in d.cols : Target(s, d, z.t) = x.t /\ z.c = x.c
    <2>1. x \in p.dropColumn /\ <<x.t, x.c>> \in owned /\ <<x.t, x.c>> \in keys
      BY PlanFields
    <2>2. /\ x \in r.cols /\ x.t \in s.tables /\ x.c # "id"
          /\ \A y \in s.cols : y.t = x.t => OldName(s, d, y) # x.c
      BY <2>1, DiffFields
    <2>3. PICK z \in d.cols : Target(s, d, z.t) = x.t /\ z.c = x.c
      BY <2>2, ResolvedColumns
    <2>4. \A y \in s.cols : y.t = x.t => y.c # x.c
      BY <2>2, <2>3, MoveTargetFree DEF OldName
    <2>5. x.c \notin Foreign
      BY <2>1, <2>2, DocumentFacts DEF NotForeign
    <2> QED  BY <2>1, <2>2, <2>3, <2>4, <2>5
  <1>6. \A a \in q.addFK : \A j \in r.links : ~SameLink(j, a)
    BY PlanFields, DiffFields
  <1>7. /\ q.createTable \subseteq s.tables /\ q.addColumn \subseteq s.cols
        /\ q.alterColumn \subseteq s.cols /\ q.addFK \subseteq s.links /\ PlanShape(q)
    BY PlanFields, DiffFields
  <1> HIDE DEF p, q, r
  <1>8. Planned(s, d, keys, q)
    BY <1>1, <1>2, <1>3, <1>4, <1>5, <1>6, <1>7 DEF Planned, r
  <1> QED  BY <1>8 DEF q

\* Before the first statement everything is where it was.
LEMMA PlanBegins ==
    ASSUME NEW s \in Documents, NEW d, NEW n \in Nat, WellFormed(n, d), ~Ambiguous(s, d),
           NEW owned, NotForeign(owned), NEW keys
    PROVE  Deploying(s, d, keys, Plan(s, d, owned, keys), n + 1, d)
  <1> DEFINE q == Plan(s, d, owned, keys)
             r == Resolved(s, d)
  <1>1. Planned(s, d, keys, q)
    BY PlanIsPlanned
  <1>2. /\ \A t \in TableMoves(s, d) : \E o \in q.renameTable : o.from = s.from[t]
        /\ \A y \in ColumnMoves(s, d) : \E o \in q.renameColumn : o.t = y.t /\ o.from = y.from
    <2>1. /\ q.renameTable = {[from |-> s.from[t], to |-> t] : t \in TableMoves(s, d)}
          /\ q.renameColumn = {[t |-> y.t, from |-> y.from, to |-> y.c] : y \in ColumnMoves(s, d)}
      BY PlanFields, DiffFields
    <2>2. ASSUME NEW t \in TableMoves(s, d)
          PROVE  [from |-> s.from[t], to |-> t] \in q.renameTable
      BY <2>1
    <2>3. ASSUME NEW y \in ColumnMoves(s, d)
          PROVE  [t |-> y.t, from |-> y.from, to |-> y.c] \in q.renameColumn
      BY <2>1
    <2> HIDE DEF q
    <2>4. ASSUME NEW t \in TableMoves(s, d)
          PROVE  \E o \in q.renameTable : o.from = s.from[t]
      BY <2>2
    <2>5. ASSUME NEW y \in ColumnMoves(s, d)
          PROVE  \E o \in q.renameColumn : o.t = y.t /\ o.from = y.from
      BY <2>3
    <2> QED  BY <2>4, <2>5
  <1>3. ASSUME NEW y \in s.cols
        PROVE  \/ y.t \in q.createTable
               \/ y \in q.addColumn
               \/ \E x \in d.cols : Target(s, d, x.t) = y.t /\ x.c = OldName(s, d, y)
    <2>1. CASE y.t \in s.tables \cap Managed(r)
      <3>1. \/ y \in q.addColumn
            \/ \E x \in r.cols : x.t = y.t /\ x.c = OldName(s, d, y)
        BY <2>1, PlanFields, DiffFields
      <3> QED  BY <3>1, ResolvedColumns DEF WellFormed
    <2>2. CASE y.t \notin Managed(r)
      BY <2>2, PlanFields, DiffFields, DocumentFacts
    <2> QED  BY <2>1, <2>2, DocumentFacts
  <1> HIDE DEF q, r
  <1>4. \A t : NowTable(s, d, q, t) = t
    BY <1>2, TargetCases DEF NowTable
  <1>5. \A t, c : NowColumn(s, d, q, t, c) = c
    BY <1>2, ColumnTargetCases DEF NowColumn
  <1>6. Tracked(s, d, keys, q, d)
    BY <1>4, <1>5 DEF Tracked
  <1>7. Linked(s, d, q, d)
    BY <1>4, <1>5 DEF Linked
  <1>8. Guarded(s, d, d)
    BY DEF Guarded, SameColumn
  <1>9. Provided(s, d, q, d)
    BY <1>3 DEF Provided
  <1>10. Fresh(n + 1, q, d)
    BY DEF Fresh, WellFormed, Numbered
  <1> QED  BY <1>1, <1>6, <1>7, <1>8, <1>9, <1>10 DEF Deploying, q

-----------------------------------------------------------------------------
(***************************************************************************)
(* The renames.                                                            *)
(***************************************************************************)
\* The rest of a plan when operation o of a phase has run.
Ran(p, phase, o) == [p EXCEPT ![phase] = @ \ {o}]

LEMMA PlannedShrinks ==
    ASSUME NEW s, NEW d, NEW keys, NEW p, NEW q, Planned(s, d, keys, p), PlanShape(q),
           q.renameTable \subseteq p.renameTable, q.renameColumn \subseteq p.renameColumn,
           q.dropFK \subseteq p.dropFK, q.dropColumn \subseteq p.dropColumn,
           q.dropTable \subseteq p.dropTable, q.createTable \subseteq p.createTable,
           q.addColumn \subseteq p.addColumn, q.alterColumn \subseteq p.alterColumn,
           q.addFK \subseteq p.addFK, q.replaced \subseteq p.replaced
    PROVE  Planned(s, d, keys, q)
  BY DEF Planned

LEMMA NowRenamed ==
    ASSUME NEW s, NEW d, NEW p, p.renameTable = {}
    PROVE  /\ \A t : NowTable(s, d, p, t) = Target(s, d, t)
           /\ p.renameColumn = {} => \A t, c : NowColumn(s, d, p, t, c)
                                               = ColumnTarget(s, d, Target(s, d, t), c)
  BY DEF NowTable, NowColumn

TableRenamed(e, o) ==
    [cols  |-> {[x EXCEPT !.t = IF @ = o.from THEN o.to ELSE @] : x \in e.cols},
     links |-> {[l EXCEPT !.t = IF @ = o.from THEN o.to ELSE @,
                          !.ref = IF @ = o.from THEN o.to ELSE @] : l \in e.links},
     idx   |-> {[i EXCEPT !.t = IF @ = o.from THEN o.to ELSE @] : i \in e.idx}]

\* A rename of a table, field by field.
LEMMA TableRenamedForm ==
    ASSUME NEW e, Shaped(e), NEW o
    PROVE  LET M(t) == IF t = o.from THEN o.to ELSE t
           IN  TableRenamed(e, o) =
                 [cols |-> {[t |-> M(x.t), c |-> x.c, ty |-> x.ty, id |-> x.id] : x \in e.cols},
                  links |-> {[t |-> M(l.t), c |-> l.c, ref |-> M(l.ref), rc |-> l.rc, act |-> l.act,
                              sym |-> l.sym] : l \in e.links},
                  idx |-> {[name |-> i.name, t |-> M(i.t), c |-> i.c] : i \in e.idx}]
  <1> DEFINE M(t) == IF t = o.from THEN o.to ELSE t
             C(x) == [x EXCEPT !.t = IF @ = o.from THEN o.to ELSE @]
             L(l) == [l EXCEPT !.t = IF @ = o.from THEN o.to ELSE @,
                               !.ref = IF @ = o.from THEN o.to ELSE @]
             D(x) == [t |-> M(x.t), c |-> x.c, ty |-> x.ty, id |-> x.id]
             K(l) == [t |-> M(l.t), c |-> l.c, ref |-> M(l.ref), rc |-> l.rc, act |-> l.act,
                      sym |-> l.sym]
             J(i) == [name |-> i.name, t |-> M(i.t), c |-> i.c]
  <1>1. ASSUME NEW x \in e.cols
        PROVE  C(x) = D(x)
    <2>1. x = [t |-> x.t, c |-> x.c, ty |-> x.ty, id |-> x.id]
      BY DEF Shaped
    <2> QED  BY <2>1
  <1>2. ASSUME NEW l \in e.links
        PROVE  L(l) = K(l)
    <2>1. l = [t |-> l.t, c |-> l.c, ref |-> l.ref, rc |-> l.rc, act |-> l.act, sym |-> l.sym]
      BY DEF Shaped
    <2>2. L(l) = [l EXCEPT !.t = M(l.t), !.ref = M(l.ref)]
      BY <2>1
    <2> HIDE DEF M
    <2>3. [l EXCEPT !.t = M(l.t), !.ref = M(l.ref)] = [[l EXCEPT !.t = M(l.t)] EXCEPT !.ref = M(l.ref)]
      BY <2>1
    <2>4. [l EXCEPT !.t = M(l.t)]
          = [t |-> M(l.t), c |-> l.c, ref |-> l.ref, rc |-> l.rc, act |-> l.act, sym |-> l.sym]
      BY <2>1
    <2>5. [[t |-> M(l.t), c |-> l.c, ref |-> l.ref, rc |-> l.rc, act |-> l.act, sym |-> l.sym]
             EXCEPT !.ref = M(l.ref)] = K(l)
      OBVIOUS
    <2> QED  BY <2>2, <2>3, <2>4, <2>5, Zenon
  <1>3. ASSUME NEW i \in e.idx
        PROVE  C(i) = J(i)
    <2>1. i = [name |-> i.name, t |-> i.t, c |-> i.c]
      BY DEF Shaped
    <2> QED  BY <2>1
  <1>4. TableRenamed(e, o) = [cols |-> {C(x) : x \in e.cols}, links |-> {L(l) : l \in e.links},
                              idx |-> {C(i) : i \in e.idx}]
    BY DEF TableRenamed
  <1> HIDE DEF C, L, D, K, J
  <1>5. /\ {C(x) : x \in e.cols} = {D(x) : x \in e.cols}
        /\ {L(l) : l \in e.links} = {K(l) : l \in e.links}
        /\ {C(i) : i \in e.idx} = {J(i) : i \in e.idx}
    BY <1>1, <1>2, <1>3
  <1>6. TableRenamed(e, o) = [cols |-> {D(x) : x \in e.cols}, links |-> {K(l) : l \in e.links},
                              idx |-> {J(i) : i \in e.idx}]
    BY <1>4, <1>5
  <1> QED  BY <1>6, Zenon DEF D, K, J

\* What a rename of a table does: the columns and links of the table go over
\* together, and nothing else has the old name.
LEMMA RenameTableStep ==
    ASSUME NEW s \in Documents, NEW d, ~Ambiguous(s, d), NEW keys, NEW p, NEW n \in Nat, NEW e,
           Deploying(s, d, keys, p, n, e), WellFormed(n, e),
           NEW o \in p.renameTable, o.to \notin TablesOf(e),
           NEW q, q = Ran(p, "renameTable", o),
           NEW f, f = TableRenamed(e, o)
    PROVE  Deploying(s, d, keys, q, n, f) /\ WellFormed(n, f)
  <1> DEFINE M(t) == IF t = o.from THEN o.to ELSE t
             D(x) == [t |-> M(x.t), c |-> x.c, ty |-> x.ty, id |-> x.id]
             K(l) == [t |-> M(l.t), c |-> l.c, ref |-> M(l.ref), rc |-> l.rc, act |-> l.act,
                      sym |-> l.sym]
             J(i) == [name |-> i.name, t |-> M(i.t), c |-> i.c]
  <1>1. /\ f.cols = {D(x) : x \in e.cols} /\ f.links = {K(l) : l \in e.links}
        /\ f.idx = {J(i) : i \in e.idx}
        /\ f = [cols |-> f.cols, links |-> f.links, idx |-> f.idx]
    <2>1. Shaped(e)
      BY DEF WellFormed
    <2>2. f = [cols |-> {D(x) : x \in e.cols}, links |-> {K(l) : l \in e.links},
               idx |-> {J(i) : i \in e.idx}]
      BY <2>1, TableRenamedForm, Zenon
    <2> HIDE DEF D, K, J
    <2> QED  BY <2>2
  <1>2. PICK t0 \in TableMoves(s, d) : o = [from |-> s.from[t0], to |-> t0]
    BY DEF Deploying, Planned
  <1>3. /\ o.from = s.from[t0] /\ o.to = t0 /\ t0 \in s.tables /\ o.from \notin s.tables
        /\ o.from # ForeignTable /\ o.to \in Names /\ Target(s, d, o.from) = o.to
    BY <1>2, MoveFacts, DocumentFacts, TargetOfMove
  <1>4. /\ PlanShape(q) /\ q.renameTable = p.renameTable \ {o} /\ q.renameColumn = p.renameColumn
        /\ q.dropFK = p.dropFK /\ q.dropColumn = p.dropColumn /\ q.dropTable = p.dropTable
        /\ q.createTable = p.createTable /\ q.addColumn = p.addColumn
        /\ q.alterColumn = p.alterColumn /\ q.addFK = p.addFK /\ q.replaced = p.replaced
    BY DEF Deploying, Planned, PlanShape, Ran
  <1>5. Planned(s, d, keys, q)
    BY <1>4, PlannedShrinks DEF Deploying
  <1>6. ASSUME NEW t
        PROVE  NowTable(s, d, q, t) = M(NowTable(s, d, p, t))
    <2>1. \A r \in p.renameTable : \E u \in TableMoves(s, d) : r = [from |-> s.from[u], to |-> u]
      BY DEF Deploying, Planned
    <2>2. \A r \in q.renameTable : r.from # o.from
      BY <1>2, <1>4, <2>1 DEF Ambiguous
    <2>3. CASE t = o.from
      BY <1>3, <2>2, <2>3 DEF NowTable
    <2>4. CASE t # o.from
      <3>1. NowTable(s, d, q, t) = NowTable(s, d, p, t)
        BY <1>4, <2>4 DEF NowTable
      <3>2. Target(s, d, t) # o.from
        BY <1>3, <2>4, TargetCases, MoveFacts
      <3> QED  BY <2>4, <3>1, <3>2 DEF NowTable
    <2> QED  BY <2>3, <2>4
  <1>7. \A t, c : NowColumn(s, d, q, t, c) = NowColumn(s, d, p, t, c)
    BY <1>4 DEF NowColumn
  <1> HIDE DEF M
  <1>8. Tracked(s, d, keys, q, f)
    <2> SUFFICES ASSUME NEW x \in d.cols, ~Forsaken(s, d, keys, x)
                 PROVE  \E z \in f.cols : /\ z.id = x.id /\ z.t = NowTable(s, d, q, x.t)
                                          /\ z.c = NowColumn(s, d, q, x.t, x.c)
      BY DEF Tracked
    <2>1. PICK z \in e.cols : /\ z.id = x.id /\ z.t = NowTable(s, d, p, x.t)
                              /\ z.c = NowColumn(s, d, p, x.t, x.c)
      BY DEF Deploying, Tracked
    <2>2. D(z) \in f.cols
      BY <1>1
    <2> QED  BY <1>6, <1>7, <2>1, <2>2
  <1>9. Linked(s, d, q, f)
    <2> SUFFICES ASSUME NEW k \in d.links, NEW l \in s.links, Follows(s, d, k, l)
                 PROVE  \E m \in f.links :
                          /\ m.t = NowTable(s, d, q, k.t) /\ m.c = NowColumn(s, d, q, k.t, k.c)
                          /\ m.ref = NowTable(s, d, q, k.ref)
                          /\ m.rc = NowColumn(s, d, q, k.ref, k.rc) /\ m.act = k.act
      BY DEF Linked
    <2>1. PICK m \in e.links :
            /\ m.t = NowTable(s, d, p, k.t) /\ m.c = NowColumn(s, d, p, k.t, k.c)
            /\ m.ref = NowTable(s, d, p, k.ref)
            /\ m.rc = NowColumn(s, d, p, k.ref, k.rc) /\ m.act = k.act
      BY DEF Deploying, Linked
    <2>2. K(m) \in f.links
      BY <1>1
    <2> QED  BY <1>6, <1>7, <2>1, <2>2
  <1>10. Guarded(s, d, f)
    <2> SUFFICES ASSUME NEW l \in s.links, NEW k \in d.links, k.t = l.t /\ k.c = l.c
                 PROVE  \E m \in f.links : SameColumn(l, m)
      BY DEF Guarded
    <2>1. PICK m \in e.links : SameColumn(l, m)
      BY DEF Deploying, Guarded
    <2>2. K(m) \in f.links /\ M(m.t) = m.t
      BY <1>1, <1>3, <2>1, DocumentFacts DEF SameColumn, M
    <2> QED  BY <2>1, <2>2 DEF SameColumn
  <1>11. Provided(s, d, q, f)
    BY <1>4 DEF Deploying, Provided, Settled
  <1>12. Fresh(n, q, f)
    BY <1>1 DEF Deploying, Fresh, Settled
  <1>13. Shaped(f)
    BY <1>1 DEF Shaped
  <1>14. Columns(f)
    <2>1. \A x \in e.cols : x.t # o.to
      BY DEF TablesOf
    <2>2. \A x, y \in e.cols : M(x.t) = M(y.t) => x.t = y.t
      BY <2>1 DEF M
    <2>3. \A x \in e.cols : D(x).t \in Names
      BY <1>3 DEF WellFormed, Columns, M
    <2>4. ASSUME NEW x \in e.cols, NEW y \in e.cols, SameColumn(D(x), D(y)) \/ D(x).id = D(y).id
          PROVE  D(x) = D(y)
      BY <2>2, <2>4 DEF WellFormed, Columns, SameColumn
    <2>5. ASSUME NEW x \in e.cols
          PROVE  \E z \in e.cols : D(z).t = D(x).t /\ D(z).c = "id"
      BY DEF WellFormed, Columns
    <2> HIDE DEF D
    <2> QED  BY <1>1, <2>3, <2>4, <2>5 DEF Columns
  <1>15. NamedOnce(f)
    <2>1. \A k \in e.links : k.t # o.to
      BY DEF WellFormed, Attached, SameColumn, TablesOf
    <2>2. ASSUME NEW k \in e.links, NEW l \in e.links, K(k).t = K(l).t, K(k).sym = K(l).sym
          PROVE  K(k) = K(l)
      BY <2>1, <2>2 DEF WellFormed, NamedOnce, M
    <2>3. \A i, j \in f.idx : i.name = j.name => i = j
      BY <1>1 DEF WellFormed, NamedOnce
    <2> HIDE DEF K
    <2> QED  BY <1>1, <2>2, <2>3 DEF NamedOnce
  <1>16. Attached(f)
    <2> SUFFICES ASSUME NEW l \in e.links
                 PROVE  /\ \E x \in f.cols : SameColumn(x, K(l))
                        /\ \E x \in f.cols : x.t = M(l.ref) /\ x.c = l.rc
      BY <1>1 DEF Attached
    <2>1. PICK x \in e.cols : SameColumn(x, l)
      BY DEF WellFormed, Attached
    <2>2. PICK y \in e.cols : y.t = l.ref /\ y.c = l.rc
      BY DEF WellFormed, Attached
    <2>3. D(x) \in f.cols /\ D(y) \in f.cols
      BY <1>1
    <2> QED  BY <2>1, <2>2, <2>3 DEF SameColumn
  <1>17. Numbered(n, f)
    <2> SUFFICES ASSUME NEW x \in e.cols
                 PROVE  /\ x.id = <<x.id[1], x.id[2], x.id[3]>> /\ x.id[1] \in 0..n
                        /\ x.id[1] = 0 => /\ x.c = x.id[3]
                                          /\ x.id[2] = ForeignTable => M(x.t) = ForeignTable
                                          /\ x.id[2] # ForeignTable => x.c \in Foreign \cup {"id"}
      BY <1>1 DEF Numbered
    <2> QED  BY <1>3 DEF WellFormed, Numbered, M
  <1> QED  BY <1>5, <1>8, <1>9, <1>10, <1>11, <1>12, <1>13, <1>14, <1>15, <1>16, <1>17
           DEF Deploying, WellFormed

\* The name of a column when rename o has run.
After(o, t, c) == IF t = o.t /\ c = o.from THEN o.to ELSE c

ColumnRenamed(e, o) ==
    LET Name(t, c) == IF t = o.t /\ c = o.from THEN o.to ELSE c
    IN  [cols  |-> {[x EXCEPT !.c = Name(x.t, @)] : x \in e.cols},
         links |-> {[l EXCEPT !.c = Name(l.t, @), !.rc = Name(l.ref, @)] : l \in e.links},
         idx   |-> {[i EXCEPT !.c = Name(i.t, @)] : i \in e.idx}]

LEMMA ColumnRenamedForm ==
    ASSUME NEW e, Shaped(e), NEW o
    PROVE  ColumnRenamed(e, o) =
                 [cols |-> {[t |-> x.t, c |-> After(o, x.t, x.c), ty |-> x.ty, id |-> x.id]
                              : x \in e.cols},
                  links |-> {[t |-> l.t, c |-> After(o, l.t, l.c), ref |-> l.ref,
                      rc |-> After(o, l.ref, l.rc), act |-> l.act, sym |-> l.sym] : l \in e.links},
                  idx |-> {[name |-> i.name, t |-> i.t, c |-> After(o, i.t, i.c)] : i \in e.idx}]
  <1> DEFINE Name(t, c) == IF t = o.t /\ c = o.from THEN o.to ELSE c
             R(x) == [x EXCEPT !.c = Name(x.t, @)]
             L(l) == [l EXCEPT !.c = Name(l.t, @), !.rc = Name(l.ref, @)]
             D(x) == [t |-> x.t, c |-> After(o, x.t, x.c), ty |-> x.ty, id |-> x.id]
             K(l) == [t |-> l.t, c |-> After(o, l.t, l.c), ref |-> l.ref,
                      rc |-> After(o, l.ref, l.rc), act |-> l.act, sym |-> l.sym]
             J(i) == [name |-> i.name, t |-> i.t, c |-> After(o, i.t, i.c)]
  <1>1. ASSUME NEW x \in e.cols
        PROVE  R(x) = D(x)
    <2>1. x = [t |-> x.t, c |-> x.c, ty |-> x.ty, id |-> x.id]
      BY DEF Shaped
    <2> QED  BY <2>1 DEF After
  <1>2. ASSUME NEW l \in e.links
        PROVE  L(l) = K(l)
    <2> DEFINE g == After(o, l.t, l.c)
               h == After(o, l.ref, l.rc)
    <2>1. l = [t |-> l.t, c |-> l.c, ref |-> l.ref, rc |-> l.rc, act |-> l.act, sym |-> l.sym]
      BY DEF Shaped
    <2>2. L(l) = [l EXCEPT !.c = g, !.rc = h]
      BY <2>1 DEF After
    <2> HIDE DEF g, h
    <2>3. [l EXCEPT !.c = g, !.rc = h] = [[l EXCEPT !.c = g] EXCEPT !.rc = h]
      BY <2>1
    <2>4. [l EXCEPT !.c = g]
          = [t |-> l.t, c |-> g, ref |-> l.ref, rc |-> l.rc, act |-> l.act, sym |-> l.sym]
      BY <2>1
    <2>5. [[t |-> l.t, c |-> g, ref |-> l.ref, rc |-> l.rc, act |-> l.act, sym |-> l.sym]
             EXCEPT !.rc = h]
          = [t |-> l.t, c |-> g, ref |-> l.ref, rc |-> h, act |-> l.act, sym |-> l.sym]
      OBVIOUS
    <2> QED  BY <2>2, <2>3, <2>4, <2>5, Zenon DEF g, h
  <1>3. ASSUME NEW i \in e.idx
        PROVE  R(i) = J(i)
    <2>1. i = [name |-> i.name, t |-> i.t, c |-> i.c]
      BY DEF Shaped
    <2> QED  BY <2>1 DEF After
  <1>4. ColumnRenamed(e, o) = [cols |-> {R(x) : x \in e.cols}, links |-> {L(l) : l \in e.links},
                               idx |-> {R(i) : i \in e.idx}]
    BY DEF ColumnRenamed
  <1> HIDE DEF R, L, D, K, J
  <1>5. /\ {R(x) : x \in e.cols} = {D(x) : x \in e.cols}
        /\ {L(l) : l \in e.links} = {K(l) : l \in e.links}
        /\ {R(i) : i \in e.idx} = {J(i) : i \in e.idx}
    BY <1>1, <1>2, <1>3
  <1>6. ColumnRenamed(e, o) = [cols |-> {D(x) : x \in e.cols}, links |-> {K(l) : l \in e.links},
                               idx |-> {J(i) : i \in e.idx}]
    BY <1>4, <1>5
  <1> QED  BY <1>6, Zenon DEF D, K, J

\* A rename of a column, after those of the tables.
LEMMA RenameColumnStep ==
    ASSUME NEW s \in Documents, NEW d, ~Ambiguous(s, d), NEW keys, NEW p, NEW n \in Nat, NEW e,
           Deploying(s, d, keys, p, n, e), WellFormed(n, e), p.renameTable = {},
           NEW o \in p.renameColumn, Column(e, o.t, o.to) = {},
           NEW q, q = Ran(p, "renameColumn", o),
           NEW f, f = ColumnRenamed(e, o)
    PROVE  Deploying(s, d, keys, q, n, f) /\ WellFormed(n, f)
  <1> DEFINE D(x) == [t |-> x.t, c |-> After(o, x.t, x.c), ty |-> x.ty, id |-> x.id]
             K(l) == [t |-> l.t, c |-> After(o, l.t, l.c), ref |-> l.ref,
                      rc |-> After(o, l.ref, l.rc), act |-> l.act, sym |-> l.sym]
             J(i) == [name |-> i.name, t |-> i.t, c |-> After(o, i.t, i.c)]
  <1>1. /\ f.cols = {D(x) : x \in e.cols} /\ f.links = {K(l) : l \in e.links}
        /\ f.idx = {J(i) : i \in e.idx}
        /\ f = [cols |-> f.cols, links |-> f.links, idx |-> f.idx]
    <2>1. Shaped(e)
      BY DEF WellFormed
    <2>2. f = [cols |-> {D(x) : x \in e.cols}, links |-> {K(l) : l \in e.links},
               idx |-> {J(i) : i \in e.idx}]
      BY <2>1, ColumnRenamedForm
    <2> HIDE DEF D, K, J
    <2> QED  BY <2>2
  <1>2. PICK y0 \in ColumnMoves(s, d) : o = [t |-> y0.t, from |-> y0.from, to |-> y0.c]
    BY DEF Deploying, Planned
  <1>3. /\ o.t = y0.t /\ o.from = y0.from /\ o.to = y0.c /\ y0 \in s.cols /\ o.t \in s.tables
        /\ o.t # ForeignTable /\ o.from \notin Foreign \cup {"id"}
        /\ \A y \in s.cols : y.t = o.t => y.c # o.from
        /\ ColumnTarget(s, d, o.t, o.from) = o.to
    BY <1>2, ColumnMoveFacts, DocumentFacts, ColumnTargetOfMove
  <1>4. /\ PlanShape(q) /\ q.renameColumn = p.renameColumn \ {o} /\ q.renameTable = p.renameTable
        /\ q.dropFK = p.dropFK /\ q.dropColumn = p.dropColumn /\ q.dropTable = p.dropTable
        /\ q.createTable = p.createTable /\ q.addColumn = p.addColumn
        /\ q.alterColumn = p.alterColumn /\ q.addFK = p.addFK /\ q.replaced = p.replaced
    BY DEF Deploying, Planned, PlanShape, Ran
  <1>5. Planned(s, d, keys, q)
    BY <1>4, PlannedShrinks DEF Deploying
  <1>6. \A t : /\ NowTable(s, d, q, t) = Target(s, d, t)
               /\ NowTable(s, d, p, t) = Target(s, d, t)
    BY <1>4, NowRenamed
  <1>7. ASSUME NEW t, NEW c
        PROVE  NowColumn(s, d, q, t, c) = After(o, Target(s, d, t), NowColumn(s, d, p, t, c))
    <2>1. \A r \in p.renameColumn :
             \E y \in ColumnMoves(s, d) : r = [t |-> y.t, from |-> y.from, to |-> y.c]
      BY DEF Deploying, Planned
    <2>2. \A r \in q.renameColumn : ~(r.t = o.t /\ r.from = o.from)
      BY <1>2, <1>4, <2>1 DEF Ambiguous
    <2>3. CASE Target(s, d, t) = o.t /\ c = o.from
      BY <1>3, <2>2, <2>3 DEF NowColumn, After
    <2>4. CASE ~(Target(s, d, t) = o.t /\ c = o.from)
      <3>1. NowColumn(s, d, q, t, c) = NowColumn(s, d, p, t, c)
        BY <1>4, <2>4 DEF NowColumn
      <3>2. Target(s, d, t) = o.t => ColumnTarget(s, d, Target(s, d, t), c) # o.from
        BY <1>3, <2>4, ColumnTargetCases, ColumnMoveFacts
      <3> QED  BY <2>4, <3>1, <3>2 DEF NowColumn, After
    <2> QED  BY <2>3, <2>4
  <1>8. Tracked(s, d, keys, q, f)
    <2> SUFFICES ASSUME NEW x \in d.cols, ~Forsaken(s, d, keys, x)
                 PROVE  \E z \in f.cols : /\ z.id = x.id /\ z.t = NowTable(s, d, q, x.t)
                                          /\ z.c = NowColumn(s, d, q, x.t, x.c)
      BY DEF Tracked
    <2>1. PICK z \in e.cols : /\ z.id = x.id /\ z.t = NowTable(s, d, p, x.t)
                              /\ z.c = NowColumn(s, d, p, x.t, x.c)
      BY DEF Deploying, Tracked
    <2>2. D(z) \in f.cols /\ D(z).id = z.id /\ D(z).t = z.t /\ D(z).c = After(o, z.t, z.c)
      BY <1>1
    <2>3. After(o, z.t, z.c) = NowColumn(s, d, q, x.t, x.c)
      BY <1>6, <1>7, <2>1
    <2> HIDE DEF D
    <2> QED  BY <1>6, <2>1, <2>2, <2>3
  <1>9. Linked(s, d, q, f)
    <2> SUFFICES ASSUME NEW k \in d.links, NEW l \in s.links, Follows(s, d, k, l)
                 PROVE  \E m \in f.links :
                          /\ m.t = NowTable(s, d, q, k.t) /\ m.c = NowColumn(s, d, q, k.t, k.c)
                          /\ m.ref = NowTable(s, d, q, k.ref)
                          /\ m.rc = NowColumn(s, d, q, k.ref, k.rc) /\ m.act = k.act
      BY DEF Linked
    <2>1. PICK m \in e.links :
            /\ m.t = NowTable(s, d, p, k.t) /\ m.c = NowColumn(s, d, p, k.t, k.c)
            /\ m.ref = NowTable(s, d, p, k.ref)
            /\ m.rc = NowColumn(s, d, p, k.ref, k.rc) /\ m.act = k.act
      BY DEF Deploying, Linked
    <2>2. /\ K(m) \in f.links /\ K(m).t = m.t /\ K(m).c = After(o, m.t, m.c)
          /\ K(m).ref = m.ref /\ K(m).rc = After(o, m.ref, m.rc) /\ K(m).act = m.act
      BY <1>1
    <2>3. /\ After(o, m.t, m.c) = NowColumn(s, d, q, k.t, k.c)
          /\ After(o, m.ref, m.rc) = NowColumn(s, d, q, k.ref, k.rc)
      BY <1>6, <1>7, <2>1
    <2> HIDE DEF K
    <2> QED  BY <1>6, <2>1, <2>2, <2>3
  <1>10. Guarded(s, d, f)
    <2> SUFFICES ASSUME NEW l \in s.links, NEW k \in d.links, k.t = l.t /\ k.c = l.c
                 PROVE  \E m \in f.links : SameColumn(l, m)
      BY DEF Guarded
    <2>1. PICK m \in e.links : SameColumn(l, m)
      BY DEF Deploying, Guarded
    <2>2. K(m) \in f.links /\ K(m).t = m.t /\ K(m).c = After(o, m.t, m.c)
      BY <1>1
    <2>3. PICK y \in s.cols : y.t = m.t /\ y.c = m.c
      BY <2>1, DocumentFacts DEF SameColumn
    <2>4. After(o, m.t, m.c) = m.c
      BY <1>3, <2>3 DEF After
    <2> HIDE DEF K
    <2> QED  BY <2>1, <2>2, <2>4 DEF SameColumn
  <1>11. Provided(s, d, q, f)
    BY <1>4 DEF Deploying, Provided, Settled
  <1>12. Fresh(n, q, f)
    BY <1>1 DEF Deploying, Fresh, Settled
  <1>13. Shaped(f)
    BY <1>1 DEF Shaped
  <1>14. Columns(f)
    <2>1. \A x \in e.cols : x.t = o.t => x.c # o.to
      BY DEF Column
    <2>2. \A x, y \in e.cols : x.t = y.t /\ After(o, x.t, x.c) = After(o, y.t, y.c) => x.c = y.c
      BY <2>1 DEF After
    <2>3. \A x \in e.cols : D(x).t \in Names
      BY DEF WellFormed, Columns
    <2>4. ASSUME NEW x \in e.cols, NEW y \in e.cols, SameColumn(D(x), D(y)) \/ D(x).id = D(y).id
          PROVE  D(x) = D(y)
      BY <2>2, <2>4 DEF WellFormed, Columns, SameColumn
    <2>5. ASSUME NEW x \in e.cols
          PROVE  \E z \in e.cols : D(z).t = D(x).t /\ D(z).c = "id"
      BY <1>3 DEF WellFormed, Columns, After
    <2> HIDE DEF D
    <2> QED  BY <1>1, <2>3, <2>4, <2>5 DEF Columns
  <1>15. NamedOnce(f)
    <2>1. ASSUME NEW k \in e.links, NEW l \in e.links, K(k).t = K(l).t, K(k).sym = K(l).sym
          PROVE  K(k) = K(l)
      BY <2>1 DEF WellFormed, NamedOnce
    <2>2. \A i, j \in f.idx : i.name = j.name => i = j
      BY <1>1 DEF WellFormed, NamedOnce
    <2> HIDE DEF K
    <2> QED  BY <1>1, <2>1, <2>2 DEF NamedOnce
  <1>16. Attached(f)
    <2> SUFFICES ASSUME NEW l \in e.links
                 PROVE  /\ \E x \in f.cols : SameColumn(x, K(l))
                        /\ \E x \in f.cols : x.t = l.ref /\ x.c = After(o, l.ref, l.rc)
      BY <1>1 DEF Attached
    <2>1. PICK x \in e.cols : SameColumn(x, l)
      BY DEF WellFormed, Attached
    <2>2. PICK y \in e.cols : y.t = l.ref /\ y.c = l.rc
      BY DEF WellFormed, Attached
    <2>3. D(x) \in f.cols /\ D(y) \in f.cols
      BY <1>1
    <2> QED  BY <2>1, <2>2, <2>3 DEF SameColumn
  <1>17. Numbered(n, f)
    <2> SUFFICES ASSUME NEW x \in e.cols
                 PROVE  /\ x.id = <<x.id[1], x.id[2], x.id[3]>> /\ x.id[1] \in 0..n
                        /\ x.id[1] = 0 =>
                             /\ After(o, x.t, x.c) = x.id[3]
                             /\ x.id[2] = ForeignTable => x.t = ForeignTable
                             /\ x.id[2] # ForeignTable => After(o, x.t, x.c) \in Foreign \cup {"id"}
      BY <1>1 DEF Numbered
    <2> QED  BY <1>3 DEF WellFormed, Numbered, After
  <1> QED  BY <1>5, <1>8, <1>9, <1>10, <1>11, <1>12, <1>13, <1>14, <1>15, <1>16, <1>17
           DEF Deploying, WellFormed

-----------------------------------------------------------------------------
(***************************************************************************)
(* The drops.                                                              *)
(***************************************************************************)
ForeignKeyDropped(e, k) == [e EXCEPT !.links = @ \ {k}]

ColumnDropped(e, o) ==
    [cols  |-> {y \in e.cols : ~SameColumn(o, y)},
     links |-> {l \in e.links : ~SameColumn(o, l)},
     idx   |-> {i \in e.idx : ~SameColumn(o, i)}]

TableDropped(e, o) ==
    [cols  |-> {x \in e.cols : x.t # o},
     links |-> {l \in e.links : l.t # o},
     idx   |-> {i \in e.idx : i.t # o}]

\* A link that follows a declared one references a column that is not renamed.
LEMMA ReferenceStays ==
    ASSUME NEW s \in Documents, NEW d, NEW k, NEW l \in s.links, Follows(s, d, k, l)
    PROVE  ColumnTarget(s, d, Target(s, d, k.ref), k.rc) = k.rc
  <1>1. CASE l.rc = "id"
    BY <1>1, ColumnTargetCases, ColumnMoveFacts, DocumentFacts DEF Follows
  <1>2. CASE l.rc # "id"
    <2>1. PICK y \in s.cols : y.t = l.ref /\ y.c = l.rc
      BY <1>2, DocumentFacts
    <2> QED  BY <2>1, ColumnTargetStays DEF Follows
  <1> QED  BY <1>1, <1>2

\* What a link that follows a declared one is called after the renames.
LEMMA LinkedNow ==
    ASSUME NEW s \in Documents, NEW d, NEW p, NEW e, Linked(s, d, p, e),
           p.renameTable = {}, p.renameColumn = {}
    PROVE  \A k \in d.links : \A l \in s.links :
              Follows(s, d, k, l) => \E m \in e.links : SameLink(m, l)
  <1> SUFFICES ASSUME NEW k \in d.links, NEW l \in s.links, Follows(s, d, k, l)
               PROVE  \E m \in e.links : SameLink(m, l)
    OBVIOUS
  <1>1. ColumnTarget(s, d, Target(s, d, k.ref), k.rc) = k.rc
    BY ReferenceStays
  <1> QED  BY <1>1, NowRenamed DEF Linked, Follows, SameLink, SameColumn

LEMMA LinkedStays ==
    ASSUME NEW s \in Documents, NEW d, NEW p, NEW q, NEW e, NEW f, Linked(s, d, p, e),
           p.renameTable = {}, p.renameColumn = {}, q.renameTable = {}, q.renameColumn = {},
           \A m \in e.links : \A l \in s.links : SameLink(m, l) => m \in f.links
    PROVE  Linked(s, d, q, f)
  <1> SUFFICES ASSUME NEW k \in d.links, NEW l \in s.links, Follows(s, d, k, l)
               PROVE  \E m \in f.links :
                        /\ m.t = NowTable(s, d, q, k.t) /\ m.c = NowColumn(s, d, q, k.t, k.c)
                        /\ m.ref = NowTable(s, d, q, k.ref)
                        /\ m.rc = NowColumn(s, d, q, k.ref, k.rc) /\ m.act = k.act
    BY DEF Linked
  <1>1. PICK m \in e.links : SameLink(m, l)
    BY LinkedNow
  <1>2. m \in f.links
    BY <1>1
  <1>3. ColumnTarget(s, d, Target(s, d, k.ref), k.rc) = k.rc
    BY ReferenceStays
  <1> QED  BY <1>1, <1>2, <1>3, NowRenamed DEF Follows, SameLink, SameColumn

\* A constraint goes only from a column that keeps a declared one, or from one
\* that is not declared to have any.
LEMMA DropForeignKeyStep ==
    ASSUME NEW s \in Documents, NEW d, Shaped(d), NEW keys, NEW p, NEW n \in Nat, NEW e,
           Deploying(s, d, keys, p, n, e), WellFormed(n, e),
           p.renameTable = {}, p.renameColumn = {},
           NEW k \in p.dropFK,
           NEW q, q = Ran(p, "dropFK", k),
           NEW f, f = ForeignKeyDropped(e, k)
    PROVE  Deploying(s, d, keys, q, n, f) /\ WellFormed(n, f)
  <1>1. /\ f.cols = e.cols /\ f.links = e.links \ {k} /\ f.idx = e.idx
        /\ f = [cols |-> f.cols, links |-> f.links, idx |-> f.idx]
    BY DEF WellFormed, Shaped, ForeignKeyDropped
  <1>2. /\ PlanShape(q) /\ q.dropFK = p.dropFK \ {k}
        /\ q.renameTable = p.renameTable /\ q.renameColumn = p.renameColumn
        /\ q.dropColumn = p.dropColumn /\ q.dropTable = p.dropTable
        /\ q.createTable = p.createTable /\ q.addColumn = p.addColumn
        /\ q.alterColumn = p.alterColumn /\ q.addFK = p.addFK /\ q.replaced = p.replaced
    BY DEF Deploying, Planned, PlanShape, Ran
  <1>3. Planned(s, d, keys, q)
    BY <1>2, PlannedShrinks DEF Deploying
  <1>4. ASSUME NEW l \in s.links, SameColumn(k, l)
        PROVE  ~SameLink(k, l) /\ \E m \in e.links : m # k /\ SameLink(m, l)
    <2>1. ~SameLink(k, l) /\ \E j \in Resolved(s, d).links : SameLink(j, l)
      BY <1>4 DEF Deploying, Planned
    <2>2. \E j \in d.links : Follows(s, d, j, l)
      BY <2>1, ResolvedLinks
    <2>3. \E m \in e.links : SameLink(m, l)
      BY <2>2, LinkedNow DEF Deploying
    <2> QED  BY <2>1, <2>3
  <1>5. Tracked(s, d, keys, q, f)
    <2>1. /\ \A t : NowTable(s, d, q, t) = NowTable(s, d, p, t)
          /\ \A t, c : NowColumn(s, d, q, t, c) = NowColumn(s, d, p, t, c)
      BY <1>2 DEF NowTable, NowColumn
    <2> QED  BY <1>1, <2>1 DEF Deploying, Tracked
  <1>6. Linked(s, d, q, f)
    <2>1. \A m \in e.links : \A l \in s.links : SameLink(m, l) => m \in f.links
      BY <1>1, <1>4 DEF SameLink
    <2>2. Linked(s, d, p, e) /\ q.renameTable = {} /\ q.renameColumn = {}
      BY <1>2 DEF Deploying
    <2> QED  BY <2>1, <2>2, LinkedStays
  <1>7. Guarded(s, d, f)
    <2> SUFFICES ASSUME NEW l \in s.links, NEW j \in d.links, j.t = l.t /\ j.c = l.c
                 PROVE  \E m \in f.links : SameColumn(l, m)
      BY DEF Guarded
    <2>1. PICK m \in e.links : SameColumn(l, m)
      BY DEF Deploying, Guarded
    <2>2. CASE m = k
      BY <1>1, <1>4, <2>1, <2>2 DEF SameColumn, SameLink
    <2> QED  BY <1>1, <2>1, <2>2
  <1>8. Provided(s, d, q, f)
    BY <1>1, <1>2 DEF Deploying, Provided, Settled
  <1>9. Fresh(n, q, f)
    BY <1>1, <1>2 DEF Deploying, Fresh, Settled
  <1>10. WellFormed(n, f)
    BY <1>1 DEF WellFormed, Shaped, Columns, NamedOnce, Attached, Numbered
  <1> QED  BY <1>3, <1>5, <1>6, <1>7, <1>8, <1>9, <1>10 DEF Deploying

\* The column that goes is the one the operator enumerated: nothing was renamed
\* to its name meanwhile.
LEMMA DropColumnStep ==
    ASSUME NEW s \in Documents, NEW d, ~Ambiguous(s, d), NEW keys, NEW p, NEW n \in Nat, NEW e,
           Deploying(s, d, keys, p, n, e), WellFormed(n, e),
           p.renameTable = {}, p.renameColumn = {},
           NEW o \in p.dropColumn,
           ~\E l \in e.links : l.ref = o.t /\ l.rc = o.c /\ ~SameColumn(o, l),
           NEW q, q = Ran(p, "dropColumn", o),
           NEW f, f = ColumnDropped(e, o)
    PROVE  Deploying(s, d, keys, q, n, f) /\ WellFormed(n, f)
  <1>1. /\ f.cols = {y \in e.cols : ~SameColumn(o, y)}
        /\ f.links = {l \in e.links : ~SameColumn(o, l)}
        /\ f.idx = {i \in e.idx : ~SameColumn(o, i)}
        /\ f = [cols |-> f.cols, links |-> f.links, idx |-> f.idx]
    BY DEF ColumnDropped
  <1>2. /\ PlanShape(q) /\ q.dropColumn = p.dropColumn \ {o}
        /\ q.renameTable = p.renameTable /\ q.renameColumn = p.renameColumn
        /\ q.dropFK = p.dropFK /\ q.dropTable = p.dropTable
        /\ q.createTable = p.createTable /\ q.addColumn = p.addColumn
        /\ q.alterColumn = p.alterColumn /\ q.addFK = p.addFK /\ q.replaced = p.replaced
    BY DEF Deploying, Planned, PlanShape, Ran
  <1>3. Planned(s, d, keys, q)
    BY <1>2, PlannedShrinks DEF Deploying
  <1>4. /\ o.t \in s.tables /\ o.c # "id" /\ o.c \notin Foreign /\ <<o.t, o.c>> \in keys
        /\ \A y \in s.cols : y.t = o.t => y.c # o.c /\ OldName(s, d, y) # o.c
        /\ \E z \in d.cols : Target(s, d, z.t) = o.t /\ z.c = o.c
    BY DEF Deploying, Planned
  <1>5. \A l \in s.links : ~(o.t = l.t /\ o.c = l.c)
    BY <1>4, DocumentFacts
  <1>6. Tracked(s, d, keys, q, f)
    <2> SUFFICES ASSUME NEW x \in d.cols, ~Forsaken(s, d, keys, x)
                 PROVE  \E z \in f.cols : /\ z.id = x.id /\ z.t = NowTable(s, d, q, x.t)
                                          /\ z.c = NowColumn(s, d, q, x.t, x.c)
      BY DEF Tracked
    <2>1. PICK z \in e.cols : /\ z.id = x.id /\ z.t = NowTable(s, d, p, x.t)
                              /\ z.c = NowColumn(s, d, p, x.t, x.c)
      BY DEF Deploying, Tracked
    <2>2. z.t = Target(s, d, x.t) /\ z.c = ColumnTarget(s, d, Target(s, d, x.t), x.c)
      BY <2>1, NowRenamed
    <2>3. ASSUME SameColumn(o, z)
          PROVE  FALSE
      <3>1. Target(s, d, x.t) = o.t /\ ColumnTarget(s, d, o.t, x.c) = o.c
        BY <2>2, <2>3 DEF SameColumn
      <3>2. x.c = o.c
        BY <1>4, <3>1, ColumnTargetCases, MoveTargetFree
      <3>3. x.t \notin EngineTables \cup {ForeignTable}
        BY <1>4, <3>1, TargetStays, DocumentFacts
      <3> QED  BY <1>4, <3>1, <3>2, <3>3 DEF Forsaken
    <2>4. /\ NowTable(s, d, q, x.t) = NowTable(s, d, p, x.t)
          /\ NowColumn(s, d, q, x.t, x.c) = NowColumn(s, d, p, x.t, x.c)
      BY <1>2 DEF NowTable, NowColumn
    <2> QED  BY <1>1, <2>1, <2>3, <2>4
  <1>7. Linked(s, d, q, f)
    <2>1. \A m \in e.links : \A l \in s.links : SameLink(m, l) => m \in f.links
      BY <1>1, <1>5 DEF SameLink, SameColumn
    <2>2. Linked(s, d, p, e) /\ q.renameTable = {} /\ q.renameColumn = {}
      BY <1>2 DEF Deploying
    <2> QED  BY <2>1, <2>2, LinkedStays
  <1>8. Guarded(s, d, f)
    BY <1>1, <1>5 DEF Deploying, Guarded, SameColumn
  <1>9. Provided(s, d, q, f)
    BY <1>2 DEF Deploying, Provided, Settled
  <1>10. Fresh(n, q, f)
    BY <1>1 DEF Deploying, Fresh, Settled
  <1>11. Shaped(f) /\ NamedOnce(f) /\ Numbered(n, f)
    BY <1>1 DEF WellFormed, Shaped, NamedOnce, Numbered
  <1>12. \A x \in e.cols : \E z \in f.cols : z.t = x.t /\ z.c = "id"
    BY <1>1, <1>4 DEF WellFormed, Columns, SameColumn
  <1>13. Columns(f)
    BY <1>1, <1>12 DEF WellFormed, Columns
  <1>14. Attached(f)
    BY <1>1, <1>12 DEF WellFormed, Attached, SameColumn
  <1> QED  BY <1>3, <1>6, <1>7, <1>8, <1>9, <1>10, <1>11, <1>13, <1>14 DEF Deploying, WellFormed

\* A table that goes is neither declared nor the target of a rename.
LEMMA DropTableStep ==
    ASSUME NEW s \in Documents, NEW d, ~Ambiguous(s, d), NEW keys, NEW p, NEW n \in Nat, NEW e,
           Deploying(s, d, keys, p, n, e), WellFormed(n, e),
           p.renameTable = {}, p.renameColumn = {},
           NEW o \in p.dropTable, ~\E l \in e.links : l.ref = o /\ l.t # o,
           NEW q, q = Ran(p, "dropTable", o),
           NEW f, f = TableDropped(e, o)
    PROVE  Deploying(s, d, keys, q, n, f) /\ WellFormed(n, f)
  <1>1. /\ f.cols = {x \in e.cols : x.t # o}
        /\ f.links = {l \in e.links : l.t # o}
        /\ f.idx = {i \in e.idx : i.t # o}
        /\ f = [cols |-> f.cols, links |-> f.links, idx |-> f.idx]
    BY DEF TableDropped
  <1>2. /\ PlanShape(q) /\ q.dropTable = p.dropTable \ {o}
        /\ q.renameTable = p.renameTable /\ q.renameColumn = p.renameColumn
        /\ q.dropFK = p.dropFK /\ q.dropColumn = p.dropColumn
        /\ q.createTable = p.createTable /\ q.addColumn = p.addColumn
        /\ q.alterColumn = p.alterColumn /\ q.addFK = p.addFK /\ q.replaced = p.replaced
    BY DEF Deploying, Planned, PlanShape, Ran
  <1>3. Planned(s, d, keys, q)
    BY <1>2, PlannedShrinks DEF Deploying
  <1>4. o \notin s.tables \cup EngineTables \cup {ForeignTable} /\ <<o>> \in keys
    BY DEF Deploying, Planned
  <1>5. \A l \in s.links : l.t # o
    BY <1>4, DocumentFacts
  <1>6. Tracked(s, d, keys, q, f)
    <2> SUFFICES ASSUME NEW x \in d.cols, ~Forsaken(s, d, keys, x)
                 PROVE  \E z \in f.cols : /\ z.id = x.id /\ z.t = NowTable(s, d, q, x.t)
                                          /\ z.c = NowColumn(s, d, q, x.t, x.c)
      BY DEF Tracked
    <2>1. PICK z \in e.cols : /\ z.id = x.id /\ z.t = NowTable(s, d, p, x.t)
                              /\ z.c = NowColumn(s, d, p, x.t, x.c)
      BY DEF Deploying, Tracked
    <2>2. z.t = Target(s, d, x.t)
      BY <2>1, NowRenamed
    <2>3. z.t # o
      <3>1. Target(s, d, x.t) = o => x.t = o
        BY <1>4, TargetCases, MoveFacts
      <3> QED  BY <1>4, <2>2, <3>1 DEF Forsaken
    <2>4. /\ NowTable(s, d, q, x.t) = NowTable(s, d, p, x.t)
          /\ NowColumn(s, d, q, x.t, x.c) = NowColumn(s, d, p, x.t, x.c)
      BY <1>2 DEF NowTable, NowColumn
    <2> QED  BY <1>1, <2>1, <2>3, <2>4
  <1>7. Linked(s, d, q, f)
    <2>1. \A m \in e.links : \A l \in s.links : SameLink(m, l) => m \in f.links
      BY <1>1, <1>5 DEF SameLink, SameColumn
    <2>2. Linked(s, d, p, e) /\ q.renameTable = {} /\ q.renameColumn = {}
      BY <1>2 DEF Deploying
    <2> QED  BY <2>1, <2>2, LinkedStays
  <1>8. Guarded(s, d, f)
    BY <1>1, <1>5 DEF Deploying, Guarded, SameColumn
  <1>9. Provided(s, d, q, f)
    BY <1>2 DEF Deploying, Provided, Settled
  <1>10. Fresh(n, q, f)
    BY <1>1 DEF Deploying, Fresh, Settled
  <1>11. Shaped(f) /\ NamedOnce(f) /\ Numbered(n, f)
    BY <1>1 DEF WellFormed, Shaped, NamedOnce, Numbered
  <1>12. Columns(f)
    BY <1>1 DEF WellFormed, Columns
  <1>13. Attached(f)
    BY <1>1 DEF WellFormed, Attached, SameColumn
  <1> QED  BY <1>3, <1>6, <1>7, <1>8, <1>9, <1>10, <1>11, <1>12, <1>13 DEF Deploying, WellFormed

-----------------------------------------------------------------------------
(***************************************************************************)
(* What the document adds.                                                 *)
(***************************************************************************)
Made(n, t, c, ty) == [t |-> t, c |-> c, ty |-> ty, id |-> <<n, t, c>>]

\* The columns new are added to the tables e.
Extended(e, new) == [e EXCEPT !.cols = @ \cup new]

\* Columns that are made under names which are free disturb nothing.
LEMMA ExtendedStep ==
    ASSUME NEW s \in Documents, NEW d, NEW keys, NEW p, NEW n \in Nat, n > 0, NEW e,
           Deploying(s, d, keys, p, n, e), WellFormed(n, e), Settled(p),
           NEW new,
           \A x \in new : /\ x = Made(n, x.t, x.c, x.ty) /\ x.t \in Names
                          /\ \A z \in e.cols : ~SameColumn(x, z)
                          /\ \E z \in e.cols \cup new : z.t = x.t /\ z.c = "id",
           \A x, y \in new : x.t = y.t /\ x.c = y.c => x = y,
           NEW q, Planned(s, d, keys, q), Settled(q),
           \A y \in s.cols :
              y.t \in p.createTable => y.t \in q.createTable \/ \E z \in new : SameColumn(y, z),
           \A y \in s.cols :
              y \in p.addColumn => y \in q.addColumn \/ \E z \in new : SameColumn(y, z),
           NEW f, f = Extended(e, new)
    PROVE  Deploying(s, d, keys, q, n, f) /\ WellFormed(n, f)
  <1>1. /\ f.cols = e.cols \cup new /\ f.links = e.links /\ f.idx = e.idx
        /\ f = [cols |-> f.cols, links |-> f.links, idx |-> f.idx]
    BY DEF WellFormed, Shaped, Extended
  <1>2. \A x \in new : x.id = <<n, x.t, x.c>> /\ x.id[1] = n /\ x.id[2] = x.t /\ x.id[3] = x.c
                       /\ x = [t |-> x.t, c |-> x.c, ty |-> x.ty, id |-> x.id]
    BY DEF Made
  <1>3. Tracked(s, d, keys, q, f)
    <2> SUFFICES ASSUME NEW x \in d.cols, ~Forsaken(s, d, keys, x)
                 PROVE  \E z \in f.cols : /\ z.id = x.id /\ z.t = NowTable(s, d, q, x.t)
                                          /\ z.c = NowColumn(s, d, q, x.t, x.c)
      BY DEF Tracked
    <2>1. PICK z \in e.cols : /\ z.id = x.id /\ z.t = NowTable(s, d, p, x.t)
                              /\ z.c = NowColumn(s, d, p, x.t, x.c)
      BY DEF Deploying, Tracked
    <2>2. /\ NowTable(s, d, q, x.t) = NowTable(s, d, p, x.t)
          /\ NowColumn(s, d, q, x.t, x.c) = NowColumn(s, d, p, x.t, x.c)
      BY DEF NowTable, NowColumn, Settled
    <2> QED  BY <1>1, <2>1, <2>2
  <1>4. Linked(s, d, q, f)
    <2>1. /\ Linked(s, d, p, e) /\ p.renameTable = {} /\ p.renameColumn = {}
          /\ q.renameTable = {} /\ q.renameColumn = {}
      BY DEF Deploying, Settled
    <2>2. \A m \in e.links : \A l \in s.links : SameLink(m, l) => m \in f.links
      BY <1>1
    <2> QED  BY <2>1, <2>2, LinkedStays
  <1>5. Guarded(s, d, f)
    BY <1>1 DEF Deploying, Guarded
  <1>6. Provided(s, d, q, f)
    <2> SUFFICES ASSUME NEW y \in s.cols
                 PROVE  \/ y.t \in q.createTable
                        \/ y \in q.addColumn
                        \/ \E z \in f.cols : SameColumn(y, z)
                        \/ \E x \in d.cols : Target(s, d, x.t) = y.t /\ x.c = OldName(s, d, y)
      BY DEF Provided
    <2>1. \/ y.t \in p.createTable
          \/ y \in p.addColumn
          \/ \E z \in e.cols : SameColumn(y, z)
          \/ \E x \in d.cols : Target(s, d, x.t) = y.t /\ x.c = OldName(s, d, y)
      BY DEF Deploying, Provided
    <2> QED  BY <1>1, <2>1
  <1>7. Fresh(n, q, f)
    BY <1>1, <1>2 DEF Deploying, Fresh
  <1>8. Shaped(f)
    BY <1>1, <1>2 DEF WellFormed, Shaped
  <1>9. Columns(f)
    <2>1. \A x \in f.cols : x.t \in Names
      BY <1>1 DEF WellFormed, Columns
    <2>2. ASSUME NEW x \in new, NEW z \in e.cols, SameColumn(x, z) \/ x.id = z.id
          PROVE  FALSE
      <3>1. x.id = z.id
        BY <2>2
      <3>2. z.t = x.t /\ z.c = x.c
        BY <1>2, <3>1 DEF Deploying, Fresh
      <3> QED  BY <3>2 DEF SameColumn
    <2>3. ASSUME NEW x \in new, NEW y \in new, SameColumn(x, y) \/ x.id = y.id
          PROVE  x = y
      BY <1>2, <2>3 DEF SameColumn
    <2>4. ASSUME NEW x \in f.cols, NEW y \in f.cols, SameColumn(x, y) \/ x.id = y.id
          PROVE  x = y
      <3>1. CASE x \in new
        BY <1>1, <2>2, <2>3, <2>4, <3>1
      <3>2. CASE y \in new
        BY <1>1, <2>2, <2>3, <2>4, <3>2 DEF SameColumn
      <3>3. CASE x \in e.cols /\ y \in e.cols
        BY <2>4, <3>3 DEF WellFormed, Columns
      <3> QED  BY <1>1, <3>1, <3>2, <3>3
    <2>5. \A x \in f.cols : \E z \in f.cols : z.t = x.t /\ z.c = "id"
      BY <1>1 DEF WellFormed, Columns
    <2> QED  BY <2>1, <2>4, <2>5 DEF Columns
  <1>10. NamedOnce(f)
    BY <1>1 DEF WellFormed, NamedOnce
  <1>11. Attached(f)
    BY <1>1 DEF WellFormed, Attached
  <1>12. Numbered(n, f)
    BY <1>1, <1>2 DEF WellFormed, Numbered
  <1> QED  BY <1>3, <1>4, <1>5, <1>6, <1>7, <1>8, <1>9, <1>10, <1>11, <1>12
           DEF Deploying, WellFormed

\* A table is created with its key and every column the document declares.
LEMMA CreateTableStep ==
    ASSUME NEW s \in Documents, NEW d, NEW keys, NEW p, NEW n \in Nat, n > 0, NEW e,
           Deploying(s, d, keys, p, n, e), WellFormed(n, e), Settled(p),
           NEW t \in p.createTable, t \notin TablesOf(e),
           NEW q, q = Ran(p, "createTable", t),
           NEW f, f = Extended(e, {Made(n, t, "id", 1)}
                                  \cup {Made(n, t, y.c, y.ty) : y \in {y \in s.cols : y.t = t}})
    PROVE  Deploying(s, d, keys, q, n, f) /\ WellFormed(n, f)
  <1> DEFINE new == {Made(n, t, "id", 1)} \cup {Made(n, t, y.c, y.ty) : y \in {y \in s.cols : y.t = t}}
  <1>1. /\ PlanShape(q) /\ q.createTable = p.createTable \ {t}
        /\ q.renameTable = p.renameTable /\ q.renameColumn = p.renameColumn
        /\ q.dropFK = p.dropFK /\ q.dropColumn = p.dropColumn /\ q.dropTable = p.dropTable
        /\ q.addColumn = p.addColumn
        /\ q.alterColumn = p.alterColumn /\ q.addFK = p.addFK /\ q.replaced = p.replaced
    BY DEF Deploying, Planned, PlanShape, Ran
  <1>2. Planned(s, d, keys, q)
    BY <1>1, PlannedShrinks DEF Deploying
  <1>3. Settled(q)
    BY <1>1 DEF Settled
  <1>4. \A c, ty : /\ Made(n, t, c, ty).t = t /\ Made(n, t, c, ty).c = c
                   /\ Made(n, t, c, ty).ty = ty
    BY DEF Made
  <1>5. t \in Names
    BY DocumentFacts DEF Deploying, Planned
  <1>6. ASSUME NEW x \in new
        PROVE  /\ x = Made(n, x.t, x.c, x.ty) /\ x.t = t
               /\ \/ x.c = "id" /\ x.ty = 1
                  \/ \E y \in s.cols : y.t = t /\ x.c = y.c /\ x.ty = y.ty
    <2>1. CASE x = Made(n, t, "id", 1)
      BY <1>4, <2>1
    <2>2. CASE \E y \in s.cols : y.t = t /\ x = Made(n, t, y.c, y.ty)
      BY <1>4, <2>2
    <2> QED  BY <2>1, <2>2
  <1>7. \A x, y \in new : x.t = y.t /\ x.c = y.c => x = y
    <2> SUFFICES ASSUME NEW x \in new, NEW y \in new, x.t = y.t, x.c = y.c
                 PROVE  x = y
      OBVIOUS
    <2>1. x.ty = y.ty
      BY <1>6, DocumentFacts
    <2> QED  BY <1>6, <2>1
  <1>8. Made(n, t, "id", 1) \in new
    OBVIOUS
  <1>9. ASSUME NEW y \in s.cols, y.t = t
        PROVE  \E z \in new : SameColumn(y, z)
    <2>1. Made(n, t, y.c, y.ty) \in new
      BY <1>9
    <2> HIDE DEF new
    <2> QED  BY <1>4, <1>9, <2>1 DEF SameColumn
  <1> HIDE DEF new
  <1>10. \A x \in new : /\ x = Made(n, x.t, x.c, x.ty) /\ x.t \in Names
                        /\ \A z \in e.cols : ~SameColumn(x, z)
                        /\ \E z \in e.cols \cup new : z.t = x.t /\ z.c = "id"
    BY <1>4, <1>5, <1>6, <1>8 DEF TablesOf, SameColumn
  <1>11. /\ \A y \in s.cols :
              y.t \in p.createTable => y.t \in q.createTable \/ \E z \in new : SameColumn(y, z)
         /\ \A y \in s.cols :
              y \in p.addColumn => y \in q.addColumn \/ \E z \in new : SameColumn(y, z)
    BY <1>1, <1>9
  <1>12. f = Extended(e, new)
    BY DEF new
  <1> QED  BY <1>2, <1>3, <1>7, <1>10, <1>11, <1>12, ExtendedStep

LEMMA AddColumnStep ==
    ASSUME NEW s \in Documents, NEW d, NEW keys, NEW p, NEW n \in Nat, n > 0, NEW e,
           Deploying(s, d, keys, p, n, e), WellFormed(n, e), Settled(p),
           NEW y \in p.addColumn, y.t \in TablesOf(e), Column(e, y.t, y.c) = {},
           NEW q, q = Ran(p, "addColumn", y),
           NEW f, f = Extended(e, {Made(n, y.t, y.c, y.ty)})
    PROVE  Deploying(s, d, keys, q, n, f) /\ WellFormed(n, f)
  <1> DEFINE new == {Made(n, y.t, y.c, y.ty)}
  <1>1. /\ PlanShape(q) /\ q.addColumn = p.addColumn \ {y}
        /\ q.renameTable = p.renameTable /\ q.renameColumn = p.renameColumn
        /\ q.dropFK = p.dropFK /\ q.dropColumn = p.dropColumn /\ q.dropTable = p.dropTable
        /\ q.createTable = p.createTable
        /\ q.alterColumn = p.alterColumn /\ q.addFK = p.addFK /\ q.replaced = p.replaced
    BY DEF Deploying, Planned, PlanShape, Ran
  <1>2. Planned(s, d, keys, q)
    BY <1>1, PlannedShrinks DEF Deploying
  <1>3. Settled(q)
    BY <1>1 DEF Settled
  <1>4. \A x \in new : x = Made(n, x.t, x.c, x.ty) /\ x.t = y.t /\ x.c = y.c
    BY DEF Made
  <1>5. \A x \in new : /\ x = Made(n, x.t, x.c, x.ty) /\ x.t \in Names
                       /\ \A z \in e.cols : ~SameColumn(x, z)
                       /\ \E z \in e.cols \cup new : z.t = x.t /\ z.c = "id"
    <2>1. \E z \in e.cols : z.t = y.t /\ z.c = "id"
      BY DEF TablesOf, WellFormed, Columns
    <2>2. y.t \in Names
      BY DEF TablesOf, WellFormed, Columns
    <2>3. \A z \in e.cols : ~(z.t = y.t /\ z.c = y.c)
      BY DEF Column
    <2> HIDE DEF new
    <2> QED  BY <1>4, <2>1, <2>2, <2>3 DEF SameColumn
  <1>6. \A x, z \in new : x.t = z.t /\ x.c = z.c => x = z
    OBVIOUS
  <1>7. \E z \in new : SameColumn(y, z)
    BY <1>4 DEF SameColumn
  <1>8. /\ \A v \in s.cols :
              v.t \in p.createTable => v.t \in q.createTable \/ \E z \in new : SameColumn(v, z)
        /\ \A v \in s.cols :
              v \in p.addColumn => v \in q.addColumn \/ \E z \in new : SameColumn(v, z)
    BY <1>1, <1>7
  <1> HIDE DEF new
  <1>9. f = Extended(e, new)
    BY DEF new
  <1> QED  BY <1>2, <1>3, <1>5, <1>6, <1>8, <1>9, ExtendedStep

Altered(e, y) ==
    [e EXCEPT !.cols = {IF SameColumn(x, y) THEN [x EXCEPT !.ty = y.ty] ELSE x : x \in @}]

\* Another type: names and values stay.
LEMMA AlterColumnStep ==
    ASSUME NEW s, NEW d, NEW keys, NEW p, NEW n \in Nat, NEW e,
           Deploying(s, d, keys, p, n, e), WellFormed(n, e), NEW y,
           NEW q, q = Ran(p, "alterColumn", y),
           NEW f, f = Altered(e, y)
    PROVE  Deploying(s, d, keys, q, n, f) /\ WellFormed(n, f)
  <1> DEFINE D(x) == [t |-> x.t, c |-> x.c, ty |-> IF SameColumn(x, y) THEN y.ty ELSE x.ty,
                      id |-> x.id]
             A(x) == IF SameColumn(x, y) THEN [x EXCEPT !.ty = y.ty] ELSE x
  <1>1. /\ f.cols = {D(x) : x \in e.cols} /\ f.links = e.links /\ f.idx = e.idx
        /\ f = [cols |-> f.cols, links |-> f.links, idx |-> f.idx]
    <2>1. ASSUME NEW x \in e.cols
          PROVE  A(x) = D(x)
      <3>1. x = [t |-> x.t, c |-> x.c, ty |-> x.ty, id |-> x.id]
        BY DEF WellFormed, Shaped
      <3> QED  BY <3>1
    <2>2. f = [e EXCEPT !.cols = {A(x) : x \in e.cols}]
      BY DEF Altered
    <2> HIDE DEF A, D
    <2>3. {A(x) : x \in e.cols} = {D(x) : x \in e.cols}
      BY <2>1
    <2>4. e = [cols |-> e.cols, links |-> e.links, idx |-> e.idx]
      BY DEF WellFormed, Shaped
    <2> QED  BY <2>2, <2>3, <2>4
  <1>2. /\ PlanShape(q) /\ q.alterColumn = p.alterColumn \ {y}
        /\ q.renameTable = p.renameTable /\ q.renameColumn = p.renameColumn
        /\ q.dropFK = p.dropFK /\ q.dropColumn = p.dropColumn /\ q.dropTable = p.dropTable
        /\ q.createTable = p.createTable /\ q.addColumn = p.addColumn
        /\ q.addFK = p.addFK /\ q.replaced = p.replaced
    BY DEF Deploying, Planned, PlanShape, Ran
  <1>3. Planned(s, d, keys, q)
    BY <1>2, PlannedShrinks DEF Deploying
  <1>4. /\ \A t : NowTable(s, d, q, t) = NowTable(s, d, p, t)
        /\ \A t, c : NowColumn(s, d, q, t, c) = NowColumn(s, d, p, t, c)
    BY <1>2 DEF NowTable, NowColumn
  <1>5. \A x : D(x).t = x.t /\ D(x).c = x.c /\ D(x).id = x.id
               /\ D(x) = [t |-> D(x).t, c |-> D(x).c, ty |-> D(x).ty, id |-> D(x).id]
    OBVIOUS
  <1>6. \A x, z : x = z => D(x) = D(z)
    OBVIOUS
  <1> HIDE DEF D
  <1>7. Tracked(s, d, keys, q, f)
    <2> SUFFICES ASSUME NEW x \in d.cols, ~Forsaken(s, d, keys, x)
                 PROVE  \E z \in f.cols : /\ z.id = x.id /\ z.t = NowTable(s, d, q, x.t)
                                          /\ z.c = NowColumn(s, d, q, x.t, x.c)
      BY DEF Tracked
    <2>1. PICK z \in e.cols : /\ z.id = x.id /\ z.t = NowTable(s, d, p, x.t)
                              /\ z.c = NowColumn(s, d, p, x.t, x.c)
      BY DEF Deploying, Tracked
    <2>2. D(z) \in f.cols
      BY <1>1
    <2> QED  BY <1>4, <1>5, <2>1, <2>2
  <1>8. Linked(s, d, q, f)
    BY <1>1, <1>4 DEF Deploying, Linked
  <1>9. Guarded(s, d, f)
    BY <1>1 DEF Deploying, Guarded
  <1>10. Provided(s, d, q, f)
    <2> SUFFICES ASSUME NEW v \in s.cols, NEW z \in e.cols, SameColumn(v, z)
                 PROVE  \E w \in f.cols : SameColumn(v, w)
      BY <1>2 DEF Deploying, Provided, Settled
    <2>1. D(z) \in f.cols
      BY <1>1
    <2> QED  BY <1>5, <2>1 DEF SameColumn
  <1>11. Fresh(n, q, f)
    BY <1>1, <1>2, <1>5 DEF Deploying, Fresh, Settled
  <1>12. Shaped(f)
    BY <1>1, <1>5 DEF WellFormed, Shaped
  <1>13. Columns(f)
    <2>1. ASSUME NEW x \in e.cols, NEW z \in e.cols, SameColumn(D(x), D(z)) \/ D(x).id = D(z).id
          PROVE  D(x) = D(z)
      BY <1>5, <1>6, <2>1 DEF WellFormed, Columns, SameColumn
    <2>2. \A x \in e.cols : D(x).t \in Names
      BY <1>5 DEF WellFormed, Columns
    <2>3. \A x \in e.cols : \E z \in e.cols : D(z).t = D(x).t /\ D(z).c = "id"
      BY <1>5 DEF WellFormed, Columns
    <2> QED  BY <1>1, <2>1, <2>2, <2>3 DEF Columns
  <1>14. NamedOnce(f)
    BY <1>1 DEF WellFormed, NamedOnce
  <1>15. Attached(f)
    <2> SUFFICES ASSUME NEW l \in e.links
                 PROVE  /\ \E x \in f.cols : SameColumn(x, l)
                        /\ \E x \in f.cols : x.t = l.ref /\ x.c = l.rc
      BY <1>1 DEF Attached
    <2>1. PICK x \in e.cols : SameColumn(x, l)
      BY DEF WellFormed, Attached
    <2>2. PICK z \in e.cols : z.t = l.ref /\ z.c = l.rc
      BY DEF WellFormed, Attached
    <2>3. D(x) \in f.cols /\ D(z) \in f.cols
      BY <1>1
    <2> QED  BY <1>5, <2>1, <2>2, <2>3 DEF SameColumn
  <1>16. Numbered(n, f)
    BY <1>1, <1>5 DEF WellFormed, Numbered
  <1> QED  BY <1>3, <1>7, <1>8, <1>9, <1>10, <1>11, <1>12, <1>13, <1>14, <1>15, <1>16
           DEF Deploying, WellFormed

Indexed(e, l) == [e EXCEPT !.idx = @ \cup {[name |-> <<l.t, l.c>>, t |-> l.t, c |-> l.c]}]

LEMMA AddIndexStep ==
    ASSUME NEW s, NEW d, NEW keys, NEW p, NEW n \in Nat, NEW e,
           Deploying(s, d, keys, p, n, e), WellFormed(n, e),
           NEW l, ~\E i \in e.idx : i.name = <<l.t, l.c>>,
           NEW q, q = Ran(p, "addIndex", l),
           NEW f, f = Indexed(e, l)
    PROVE  Deploying(s, d, keys, q, n, f) /\ WellFormed(n, f)
  <1>1. /\ f.cols = e.cols /\ f.links = e.links
        /\ f.idx = e.idx \cup {[name |-> <<l.t, l.c>>, t |-> l.t, c |-> l.c]}
        /\ f = [cols |-> f.cols, links |-> f.links, idx |-> f.idx]
    BY DEF WellFormed, Shaped, Indexed
  <1>2. /\ PlanShape(q) /\ q.addFK = p.addFK
        /\ q.renameTable = p.renameTable /\ q.renameColumn = p.renameColumn
        /\ q.dropFK = p.dropFK /\ q.dropColumn = p.dropColumn /\ q.dropTable = p.dropTable
        /\ q.createTable = p.createTable /\ q.addColumn = p.addColumn
        /\ q.alterColumn = p.alterColumn /\ q.replaced = p.replaced
    BY DEF Deploying, Planned, PlanShape, Ran
  <1>3. Planned(s, d, keys, q)
    BY <1>2, PlannedShrinks DEF Deploying
  <1>4. /\ \A t : NowTable(s, d, q, t) = NowTable(s, d, p, t)
        /\ \A t, c : NowColumn(s, d, q, t, c) = NowColumn(s, d, p, t, c)
    BY <1>2 DEF NowTable, NowColumn
  <1>5. Tracked(s, d, keys, q, f)
    BY <1>1, <1>4 DEF Deploying, Tracked
  <1>6. Linked(s, d, q, f)
    BY <1>1, <1>4 DEF Deploying, Linked
  <1>7. Guarded(s, d, f)
    BY <1>1 DEF Deploying, Guarded
  <1>8. Provided(s, d, q, f)
    BY <1>1, <1>2 DEF Deploying, Provided, Settled
  <1>9. Fresh(n, q, f)
    BY <1>1, <1>2 DEF Deploying, Fresh, Settled
  <1>10. Shaped(f) /\ NamedOnce(f)
    BY <1>1 DEF WellFormed, Shaped, NamedOnce
  <1>11. Columns(f) /\ Attached(f) /\ Numbered(n, f)
    BY <1>1 DEF WellFormed, Columns, Attached, Numbered
  <1> QED  BY <1>3, <1>5, <1>6, <1>7, <1>8, <1>9, <1>10, <1>11 DEF Deploying, WellFormed

\* A foreign key that is skipped leaves the tables as they are.
LEMMA SkipForeignKeyStep ==
    ASSUME NEW s, NEW d, NEW keys, NEW p, NEW n, NEW e, NEW a, NEW q,
           Deploying(s, d, keys, p, n, e), q = Ran(p, "addFK", a)
    PROVE  Deploying(s, d, keys, q, n, e)
  <1>1. /\ PlanShape(q) /\ q.addFK = p.addFK \ {a}
        /\ q.renameTable = p.renameTable /\ q.renameColumn = p.renameColumn
        /\ q.dropFK = p.dropFK /\ q.dropColumn = p.dropColumn /\ q.dropTable = p.dropTable
        /\ q.createTable = p.createTable /\ q.addColumn = p.addColumn
        /\ q.alterColumn = p.alterColumn /\ q.replaced = p.replaced
    BY DEF Deploying, Planned, PlanShape, Ran
  <1>2. Planned(s, d, keys, q)
    BY <1>1, PlannedShrinks DEF Deploying
  <1>3. /\ \A t : NowTable(s, d, q, t) = NowTable(s, d, p, t)
        /\ \A t, c : NowColumn(s, d, q, t, c) = NowColumn(s, d, p, t, c)
    BY <1>1 DEF NowTable, NowColumn
  <1>4. Tracked(s, d, keys, q, e)
    BY <1>3 DEF Deploying, Tracked
  <1>5. Linked(s, d, q, e)
    BY <1>3 DEF Deploying, Linked
  <1>6. Guarded(s, d, e)
    BY DEF Deploying
  <1>7. Provided(s, d, q, e) /\ Fresh(n, q, e)
    BY <1>1 DEF Deploying, Provided, Fresh, Settled
  <1> QED  BY <1>2, <1>4, <1>5, <1>6, <1>7 DEF Deploying

\* When only foreign keys are left, every declared column exists.
LEMMA DeclaredExist ==
    ASSUME NEW s \in Documents, NEW d, ~Ambiguous(s, d), NEW keys, NEW p, NEW n, NEW e,
           Deploying(s, d, keys, p, n, e), Settled(p), p.createTable = {}, p.addColumn = {},
           NEW y \in s.cols
    PROVE  \E z \in e.cols : SameColumn(y, z)
  <1>1. CASE \E x \in d.cols : Target(s, d, x.t) = y.t /\ x.c = OldName(s, d, y)
    <2>1. PICK x \in d.cols : Target(s, d, x.t) = y.t /\ x.c = OldName(s, d, y)
      BY <1>1
    <2>2. ~Forsaken(s, d, keys, x)
      BY <2>1, DocumentFacts DEF Forsaken
    <2>3. PICK z \in e.cols : /\ z.id = x.id /\ z.t = NowTable(s, d, p, x.t)
                              /\ z.c = NowColumn(s, d, p, x.t, x.c)
      BY <2>2 DEF Deploying, Tracked
    <2>4. z.t = y.t /\ z.c = ColumnTarget(s, d, y.t, OldName(s, d, y))
      BY <2>1, <2>3, NowRenamed DEF Settled
    <2>5. z.c = y.c
      BY <2>4, ColumnTargetOldName
    <2> QED  BY <2>4, <2>5 DEF SameColumn
  <1> QED  BY <1>1 DEF Deploying, Provided

\* The links whose constraints the transaction of a drops.
Superseded(e, p, a) ==
    {l \in e.links : \E k \in {k \in p.replaced : SameColumn(a, k)} : SameConstraint(k, l)}

LinkAdded(e, p, a) ==
    [e EXCEPT !.links = (@ \ Superseded(e, p, a)) \cup
        {[t |-> a.t, c |-> a.c, ref |-> a.ref, rc |-> a.rc, act |-> a.act, sym |-> <<a.t, a.c>>]}]

\* The link that is added guards the column of the one it replaces.
LEMMA AddForeignKeyStep ==
    ASSUME NEW s \in Documents, NEW d, Shaped(d), ~Ambiguous(s, d),
           NEW keys, NEW p, NEW n \in Nat, NEW e,
           Deploying(s, d, keys, p, n, e), WellFormed(n, e),
           Settled(p), p.createTable = {}, p.addColumn = {},
           NEW a \in p.addFK, Column(e, a.ref, a.rc) # {},
           ~\E k \in e.links \ Superseded(e, p, a) : k.t = a.t /\ k.sym = <<a.t, a.c>>,
           NEW q, q = Ran(p, "addFK", a),
           NEW f, f = LinkAdded(e, p, a)
    PROVE  Deploying(s, d, keys, q, n, f) /\ WellFormed(n, f)
  <1> DEFINE old == Superseded(e, p, a)
             new == [t |-> a.t, c |-> a.c, ref |-> a.ref, rc |-> a.rc, act |-> a.act,
                     sym |-> <<a.t, a.c>>]
  <1>1. /\ f.cols = e.cols /\ f.links = (e.links \ old) \cup {new} /\ f.idx = e.idx
        /\ f = [cols |-> f.cols, links |-> f.links, idx |-> f.idx]
    BY DEF WellFormed, Shaped, LinkAdded
  <1>2. Deploying(s, d, keys, q, n, e)
    BY SkipForeignKeyStep
  <1>3. a \in s.links /\ \A k \in d.links : ~Follows(s, d, k, a)
    <2>1. a \in s.links /\ \A j \in Resolved(s, d).links : ~SameLink(j, a)
      BY DEF Deploying, Planned
    <2> QED  BY <2>1, ResolvedLinks
  <1>4. /\ new = [t |-> new.t, c |-> new.c, ref |-> new.ref, rc |-> new.rc, act |-> new.act,
                  sym |-> new.sym]
        /\ SameColumn(a, new) /\ new.ref = a.ref /\ new.rc = a.rc /\ new.sym = <<a.t, a.c>>
        /\ new.t = a.t
    BY DEF SameColumn
  <1>5. \A k \in old : SameColumn(a, k)
    BY DEF Superseded, SameConstraint, SameColumn
  <1> HIDE DEF old, new
  <1>6. Tracked(s, d, keys, q, f)
    BY <1>1, <1>2 DEF Deploying, Tracked
  <1>7. Linked(s, d, q, f)
    <2> SUFFICES ASSUME NEW k \in d.links, NEW l \in s.links, Follows(s, d, k, l)
                 PROVE  \E m \in f.links :
                          /\ m.t = NowTable(s, d, q, k.t) /\ m.c = NowColumn(s, d, q, k.t, k.c)
                          /\ m.ref = NowTable(s, d, q, k.ref)
                          /\ m.rc = NowColumn(s, d, q, k.ref, k.rc) /\ m.act = k.act
      BY DEF Linked
    <2>1. PICK m \in e.links :
             /\ m.t = NowTable(s, d, q, k.t) /\ m.c = NowColumn(s, d, q, k.t, k.c)
             /\ m.ref = NowTable(s, d, q, k.ref)
             /\ m.rc = NowColumn(s, d, q, k.ref, k.rc) /\ m.act = k.act
      BY <1>2 DEF Deploying, Linked
    <2>2. q.renameTable = {} /\ q.renameColumn = {}
      BY DEF Deploying, Planned, PlanShape, Ran, Settled
    <2>3. m.t = l.t /\ m.c = l.c
      BY <2>1, <2>2, NowRenamed DEF Follows
    <2>4. m \notin old
      BY <1>3, <1>5, <2>3, DocumentFacts DEF SameColumn
    <2> QED  BY <1>1, <2>1, <2>4
  <1>8. Guarded(s, d, f)
    <2> SUFFICES ASSUME NEW l \in s.links, NEW k \in d.links, k.t = l.t /\ k.c = l.c
                 PROVE  \E m \in f.links : SameColumn(l, m)
      BY DEF Guarded
    <2>1. PICK m \in e.links : SameColumn(l, m)
      BY DEF Deploying, Guarded
    <2>2. CASE m \in old
      BY <1>1, <1>4, <1>5, <2>1, <2>2 DEF SameColumn
    <2> QED  BY <1>1, <2>1, <2>2
  <1>9. Provided(s, d, q, f) /\ Fresh(n, q, f) /\ Planned(s, d, keys, q)
    BY <1>1, <1>2 DEF Deploying, Provided, Fresh
  <1>10. Attached(f)
    <2>1. PICK y \in s.cols : y.t = a.t /\ y.c = a.c
      BY <1>3, DocumentFacts
    <2>2. PICK z \in e.cols : SameColumn(y, z)
      BY <2>1, DeclaredExist
    <2>3. SameColumn(z, new) /\ \E x \in e.cols : x.t = new.ref /\ x.c = new.rc
      BY <1>4, <2>1, <2>2 DEF SameColumn, Column
    <2>4. Attached(e)
      BY DEF WellFormed
    <2> QED  BY <1>1, <2>2, <2>3, <2>4 DEF Attached
  <1>11. Shaped(f) /\ Columns(f) /\ Numbered(n, f)
    BY <1>1, <1>4 DEF WellFormed, Shaped, Columns, Numbered
  <1>12. NamedOnce(f)
    <2>1. \A k \in f.links : k = new \/ (k \in e.links /\ ~(k.t = new.t /\ k.sym = new.sym))
      BY <1>1, <1>4 DEF old
    <2>2. NamedOnce(e)
      BY DEF WellFormed
    <2> QED  BY <1>1, <2>1, <2>2 DEF NamedOnce
  <1> QED  BY <1>6, <1>7, <1>8, <1>9, <1>10, <1>11, <1>12 DEF Deploying, WellFormed

-----------------------------------------------------------------------------
(***************************************************************************)
(* The steps of the specification.                                         *)
(***************************************************************************)
LEMMA DeclaresNotForeign ==
    ASSUME NEW s \in Documents
    PROVE  NotForeign(Declares(s))
  <1> DEFINE Fields(t) == {"id"} \cup UNION {{y.c, y.from} : y \in {y \in s.cols : y.t = t}}
             Part(u, t) == {<<u>>} \cup {<<u, c>> : c \in Fields(t)}
  <1>1. \A t : \A c \in Fields(t) : c \notin Foreign
    BY DocumentFacts, PlanAssumption
  <1>2. Declares(s) = UNION {UNION {Part(u, t) : u \in {t, s.from[t]}} : t \in s.tables}
    BY DEF Declares
  <1> HIDE DEF Fields
  <1>3. \A t, u : \A h \in Part(u, t) : h = <<u>> \/ \E c \in Fields(t) : h = <<u, c>>
    OBVIOUS
  <1> HIDE DEF Part
  <1>4. \A h \in Declares(s) : \E t \in s.tables : \E u \in {t, s.from[t]} : h \in Part(u, t)
    BY <1>2
  <1>5. \A h \in Declares(s) : \E t \in s.tables : \E u \in {t, s.from[t]} :
           h = <<u>> \/ \E c \in Fields(t) : h = <<u, c>>
    BY <1>3, <1>4
  <1>6. <<ForeignTable>> \notin Declares(s)
    BY <1>5, DocumentFacts
  <1>7. ASSUME NEW t, NEW c \in Foreign, <<t, c>> \in Declares(s)
        PROVE  FALSE
    BY <1>1, <1>5, <1>7
  <1> QED  BY <1>6, <1>7 DEF NotForeign

LEMMA NotForeignUnion ==
    ASSUME NEW a, NEW b, NotForeign(a), NotForeign(b)
    PROVE  NotForeign(a \cup b)
  BY DEF NotForeign

LEMMA TurnFacts ==
    /\ Turn("renameColumn") => todo.renameTable = {}
    /\ Turn("dropFK") => todo.renameTable = {} /\ todo.renameColumn = {}
    /\ Turn("dropColumn") => todo.renameTable = {} /\ todo.renameColumn = {}
    /\ Turn("dropTable") => todo.renameTable = {} /\ todo.renameColumn = {}
    /\ Turn("createTable") => Settled(todo)
    /\ Turn("addColumn") => Settled(todo)
    /\ Turn("addFK") => Settled(todo) /\ todo.createTable = {} /\ todo.addColumn = {}
  <1>1. Turn("renameColumn") => todo.renameTable = {}
    BY DEF Turn, Phases
  <1>2. Turn("dropFK") => todo.renameTable = {} /\ todo.renameColumn = {}
    BY DEF Turn, Phases
  <1>3. Turn("dropColumn") => todo.renameTable = {} /\ todo.renameColumn = {}
    BY DEF Turn, Phases
  <1>4. Turn("dropTable") => todo.renameTable = {} /\ todo.renameColumn = {}
    BY DEF Turn, Phases
  <1>5. Turn("createTable") => Settled(todo)
    BY DEF Turn, Phases, Settled
  <1>6. Turn("addColumn") => Settled(todo)
    BY DEF Turn, Phases, Settled
  <1>7. Turn("addFK") => Settled(todo) /\ todo.createTable = {} /\ todo.addColumn = {}
    BY DEF Turn, Phases, Settled
  <1> QED  BY <1>1, <1>2, <1>3, <1>4, <1>5, <1>6, <1>7

\* Nothing is left of a plan that has run.
LEMMA IdleIsDeploying ==
    ASSUME NEW s, NEW d, NEW keys, NEW p, NEW n, NEW e, Deploying(s, d, keys, p, n, e),
           Settled(p), p.createTable = {}, p.addColumn = {}
    PROVE  Deploying(s, d, keys, Idle, n, e)
  <1>1. /\ PlanShape(Idle) /\ Idle.renameTable = {} /\ Idle.renameColumn = {}
        /\ Idle.dropFK = {} /\ Idle.dropColumn = {} /\ Idle.dropTable = {}
        /\ Idle.createTable = {} /\ Idle.addColumn = {} /\ Idle.alterColumn = {}
        /\ Idle.addFK = {} /\ Idle.replaced = {}
    BY DEF Idle, PlanShape
  <1>2. Planned(s, d, keys, Idle)
    BY <1>1 DEF Planned
  <1>3. /\ \A t : NowTable(s, d, Idle, t) = NowTable(s, d, p, t)
        /\ \A t, c : NowColumn(s, d, Idle, t, c) = NowColumn(s, d, p, t, c)
    BY <1>1 DEF NowTable, NowColumn, Settled
  <1>4. Tracked(s, d, keys, Idle, e)
    BY <1>3 DEF Deploying, Tracked
  <1>5. Linked(s, d, Idle, e)
    BY <1>3 DEF Deploying, Linked
  <1>6. Guarded(s, d, e)
    BY DEF Deploying
  <1>7. Provided(s, d, Idle, e) /\ Fresh(n, Idle, e)
    BY <1>1 DEF Deploying, Provided, Fresh, Settled
  <1> QED  BY <1>2, <1>4, <1>5, <1>6, <1>7 DEF Deploying

LEMMA InitIInv ==
    ASSUME Init
    PROVE  IInv
  <1> DEFINE K(t) == [t |-> t, c |-> "id", ty |-> 1, id |-> <<0, t, "id">>]
  <1>1. /\ db.cols = {K(t) : t \in EngineTables} /\ db.links = {} /\ db.idx = {}
        /\ db = [cols |-> db.cols, links |-> db.links, idx |-> db.idx]
    BY DEF Init
  <1>2. \A x \in db.cols : \E t \in EngineTables :
           /\ x = K(t) /\ x.t = t /\ x.c = "id"
           /\ x.id = <<0, t, "id">> /\ x.id[1] = 0 /\ x.id[2] = t /\ x.id[3] = "id"
           /\ x = [t |-> x.t, c |-> x.c, ty |-> x.ty, id |-> x.id]
           /\ x.id = <<x.id[1], x.id[2], x.id[3]>>
    BY <1>1
  <1> HIDE DEF K
  <1>3. deploys = 0
    BY DEF Init
  <1>4. Shaped(db) /\ NamedOnce(db) /\ Attached(db)
    BY <1>1, <1>2 DEF Shaped, NamedOnce, Attached
  <1>5. Columns(db)
    <2>1. \A x \in db.cols : x.t \in Names
      BY <1>2, NamesFacts
    <2>2. \A x, y \in db.cols : SameColumn(x, y) \/ x.id = y.id => x = y
      BY <1>2 DEF SameColumn
    <2> QED  BY <1>2, <2>1, <2>2 DEF Columns
  <1>6. Numbered(deploys, db)
    BY <1>2, <1>3, PlanAssumption DEF Numbered
  <1>7. WellFormed(deploys, db)
    BY <1>4, <1>5, <1>6 DEF WellFormed
  <1>8. Basics
    <2>1. deploys \in 0..MaxDeploys /\ faults \in 0..MaxFaults
      BY PlanAssumption DEF Init
    <2>2. /\ doc = None /\ outcome = "none" /\ todo = Idle /\ db = base /\ hit = FALSE
      BY DEF Init
    <2> QED  BY <2>1, <2>2 DEF Basics
  <1>9. NotForeign(history)
    BY DEF Init, NotForeign
  <1>10. Kept
    BY DEF Init, Kept, Ids
  <1> QED  BY <1>7, <1>8, <1>9, <1>10 DEF Init, IInv, Live

\* A statement that ran, or was skipped, and what it may have committed.
LEMMA StepKeepsIInv ==
    ASSUME IInv, outcome = "running",
           Deploying(doc, start, approved, todo', deploys, db'), WellFormed(deploys, db'),
           base' = base \/ base' = db', outcome' = "running", hit' \in BOOLEAN, faults' \in 0..MaxFaults,
           UNCHANGED <<doc, approved, start, history, deploys>>
    PROVE  IInv'
  <1>1. Basics'
    BY DEF IInv, Basics
  <1>2. WellFormed(deploys', db') /\ WellFormed(deploys', base') /\ WellFormed(deploys', start')
    BY DEF IInv
  <1>3. NotForeign(history')
    BY DEF IInv
  <1>4. Kept'
    <2>1. CASE base' = base
      BY <2>1 DEF IInv, Kept
    <2>2. CASE base' = db'
      <3>1. ASSUME NEW x \in start.cols
            PROVE  x.id \in Ids(base') \/ Forsaken(doc, start, approved, x)
        BY <2>2 DEF Deploying, Tracked, Ids
      <3>2. Guarded(doc, start, base')
        BY <2>2 DEF Deploying
      <3> QED  BY <3>1, <3>2 DEF Kept
    <2> QED  BY <2>1, <2>2
  <1>5. doc' \in Documents /\ deploys' > 0 /\ ~Ambiguous(doc', start')
    BY DEF IInv, Live
  <1>6. Deploying(doc', start', approved', todo', deploys', db')
    OBVIOUS
  <1> QED  BY <1>1, <1>2, <1>3, <1>4, <1>5, <1>6 DEF IInv

\* A deploy that fails leaves the committed tables.
LEMMA RollbackKeepsIInv ==
    ASSUME IInv, db' = base, todo' = Idle, outcome' \in {"refused", "failed"},
           hit' \in BOOLEAN, faults' \in 0..MaxFaults,
           UNCHANGED <<base, doc, approved, start, history, deploys>>
    PROVE  IInv'
  <1>1. Basics' /\ ~Live'
    BY DEF IInv, Basics, Live
  <1>2. WellFormed(deploys', db') /\ WellFormed(deploys', base') /\ WellFormed(deploys', start')
    BY DEF IInv
  <1>3. NotForeign(history')
    BY DEF IInv
  <1>4. Kept'
    BY DEF IInv, Kept
  <1> QED  BY <1>1, <1>2, <1>3, <1>4 DEF IInv

\* The plan of a new deploy begins with the tables as they are.
LEMMA DeployStep ==
    ASSUME IInv, outcome # "running", NEW s \in Documents, NEW keys, Deploy(s, keys)
    PROVE  IInv'
  <1>1. /\ doc' = s /\ approved' = keys /\ start' = db /\ hit' = FALSE /\ deploys' = deploys + 1
        /\ db' = db /\ base' = base /\ history' = history /\ faults' = faults
        /\ deploys < MaxDeploys
    BY DEF Deploy
  <1>2. todo = Idle /\ db = base /\ deploys \in Nat /\ deploys' \in 0..MaxDeploys /\ deploys' > 0
    BY <1>1, PlanAssumption DEF IInv, Basics
  <1>3. ASSUME NEW d, WellFormed(deploys, d)
        PROVE  WellFormed(deploys', d)
    BY <1>1, <1>2, <1>3 DEF WellFormed, Numbered
  <1>4. WellFormed(deploys', db') /\ WellFormed(deploys', base') /\ WellFormed(deploys', start')
    BY <1>1, <1>3 DEF IInv
  <1>5. NotForeign(history')
    BY <1>1 DEF IInv
  <1>6. Kept'
    <2>1. \A x \in start'.cols : x.id \in Ids(base')
      BY <1>1, <1>2 DEF Ids
    <2>2. Guarded(doc', start', base')
      BY <1>1, <1>2 DEF Guarded, SameColumn
    <2> QED  BY <2>1, <2>2 DEF Kept
  <1>7. CASE Ambiguous(s, db)
    <2>1. outcome' = "ambiguous" /\ todo' = Idle
      BY <1>7 DEF Deploy
    <2>2. Basics' /\ ~Live'
      BY <1>1, <1>2, <2>1 DEF IInv, Basics, Live
    <2> QED  BY <1>4, <1>5, <1>6, <2>2 DEF IInv
  <1>8. CASE ~Ambiguous(s, db)
    <2>1. outcome' = "running" /\ todo' = Plan(s, db, history \cup Declares(s), keys)
      BY <1>8 DEF Deploy
    <2>2. Basics'
      BY <1>1, <1>2, <2>1 DEF IInv, Basics
    <2>3. NotForeign(history \cup Declares(s))
      BY DeclaresNotForeign, NotForeignUnion DEF IInv
    <2>4. Deploying(s, db, keys, todo', deploys + 1, db)
      BY <1>2, <1>8, <2>1, <2>3, PlanBegins DEF IInv
    <2>5. Deploying(doc', start', approved', todo', deploys', db')
      BY <1>1, <2>4
    <2>6. doc' \in Documents /\ deploys' > 0 /\ ~Ambiguous(doc', start')
      BY <1>1, <1>2, <1>8
    <2> QED  BY <1>4, <1>5, <1>6, <2>2, <2>5, <2>6 DEF IInv
  <1> QED  BY <1>7, <1>8

\* Tables e with the columns new and the links lks.
Joined(e, new, lks) == [cols |-> e.cols \cup new, links |-> e.links \cup lks, idx |-> e.idx]

LEMMA JoinedWellFormed ==
    ASSUME NEW n \in Nat, NEW e, WellFormed(n, e), NEW new, NEW lks, NEW f, f = Joined(e, new, lks),
           ForeignTable \notin TablesOf(e), \A x \in e.cols : x.c \notin Foreign,
           \A x \in new : /\ x = [t |-> x.t, c |-> x.c, ty |-> x.ty, id |-> <<0, x.t, x.c>>]
                          /\ x.t \in Names
                          /\ \A z \in e.cols : ~SameColumn(x, z)
                          /\ \E z \in e.cols \cup new : z.t = x.t /\ z.c = "id"
                          /\ x.t = ForeignTable \/ x.c \in Foreign,
           \A x, y \in new : x.t = y.t /\ x.c = y.c => x = y,
           \A l \in lks : /\ l = [t |-> l.t, c |-> l.c, ref |-> l.ref, rc |-> l.rc, act |-> l.act,
                                sym |-> l.sym]
                          /\ l.t = ForeignTable /\ \E x \in new : SameColumn(x, l)
                          /\ \E x \in e.cols : x.t = l.ref /\ x.c = l.rc,
           \A k, l \in lks : k = l
    PROVE  WellFormed(n, f)
  <1>1. /\ f.cols = e.cols \cup new /\ f.links = e.links \cup lks /\ f.idx = e.idx
        /\ f = [cols |-> f.cols, links |-> f.links, idx |-> f.idx]
    BY DEF Joined
  <1>2. \A x \in new : /\ x.id = <<0, x.t, x.c>>
                       /\ x.id[1] = 0 /\ x.id[2] = x.t /\ x.id[3] = x.c
                       /\ x.id = <<x.id[1], x.id[2], x.id[3]>>
                       /\ x = [t |-> x.t, c |-> x.c, ty |-> x.ty, id |-> x.id]
    OBVIOUS
  <1>3. Shaped(f)
    BY <1>1, <1>2 DEF WellFormed, Shaped
  <1>4. Columns(f)
    <2>1. \A x \in f.cols : x.t \in Names
      BY <1>1 DEF WellFormed, Columns
    <2>2. ASSUME NEW x \in new, NEW z \in e.cols, SameColumn(x, z) \/ x.id = z.id
          PROVE  FALSE
      <3>1. x.id = z.id
        BY <2>2
      <3>2. /\ z.c = x.c
            /\ x.t = ForeignTable => z.t = ForeignTable
        BY <1>2, <3>1 DEF WellFormed, Numbered
      <3> QED  BY <3>2 DEF TablesOf
    <2>3. ASSUME NEW x \in new, NEW y \in new, SameColumn(x, y) \/ x.id = y.id
          PROVE  x = y
      BY <1>2, <2>3 DEF SameColumn
    <2>4. ASSUME NEW x \in f.cols, NEW y \in f.cols, SameColumn(x, y) \/ x.id = y.id
          PROVE  x = y
      <3>1. CASE x \in new
        BY <1>1, <2>2, <2>3, <2>4, <3>1
      <3>2. CASE y \in new
        BY <1>1, <2>2, <2>3, <2>4, <3>2 DEF SameColumn
      <3>3. CASE x \in e.cols /\ y \in e.cols
        BY <2>4, <3>3 DEF WellFormed, Columns
      <3> QED  BY <1>1, <3>1, <3>2, <3>3
    <2>5. \A x \in f.cols : \E z \in f.cols : z.t = x.t /\ z.c = "id"
      BY <1>1 DEF WellFormed, Columns
    <2> QED  BY <2>1, <2>4, <2>5 DEF WellFormed, Columns
  <1>5. Attached(f)
    <2>1. Attached(e)
      BY DEF WellFormed
    <2> QED  BY <1>1, <2>1 DEF Attached
  <1>6. NamedOnce(f)
    <2>1. \A k \in e.links : k.t # ForeignTable
      BY DEF WellFormed, Attached, SameColumn, TablesOf
    <2>2. NamedOnce(e)
      BY DEF WellFormed
    <2> QED  BY <1>1, <2>1, <2>2 DEF NamedOnce
  <1>7. Numbered(n, f)
    <2>1. 0 \in 0..n
      OBVIOUS
    <2>2. \A x \in new : x.id[2] # ForeignTable => x.c \in Foreign \cup {"id"}
      BY <1>2
    <2> QED  BY <1>1, <1>2, <2>1, <2>2 DEF WellFormed, Numbered
  <1> QED  BY <1>3, <1>4, <1>5, <1>6, <1>7 DEF WellFormed

\* What a consumer adds has names of its own.
LEMMA ConsumeStep ==
    ASSUME IInv, NEW t, Consume(t)
    PROVE  IInv'
  <1>1. /\ outcome # "running" /\ t \in TablesOf(db) \ EngineTables
        /\ ForeignTable \notin TablesOf(db) /\ \A x \in db.cols : x.c \notin Foreign
        /\ base' = db' /\ start' = db' /\ doc' = None /\ outcome' = "none"
        /\ todo' = todo /\ approved' = approved /\ history' = history /\ hit' = hit
        /\ deploys' = deploys /\ faults' = faults
    BY DEF Consume
  <1>2. Basics' /\ ~Live' /\ deploys \in Nat
    BY <1>1, PlanAssumption DEF IInv, Basics, Live
  <1>3. NotForeign(history')
    BY <1>1 DEF IInv
  <1>4. Kept'
    BY <1>1 DEF Kept, Ids
  <1>5. /\ Shaped(db) /\ Columns(db) /\ NamedOnce(db) /\ Attached(db) /\ Numbered(deploys, db)
        /\ db = [cols |-> db.cols, links |-> db.links, idx |-> db.idx]
    BY DEF IInv, WellFormed, Shaped
  <1>6. WellFormed(deploys, db)
    BY DEF IInv
  <1>7. t \in Names /\ t # ForeignTable /\ ForeignTable \in Names
        /\ \E z \in db.cols : z.t = t /\ z.c = "id"
    <2>1. PICK z \in db.cols : z.t = t
      BY <1>1 DEF TablesOf
    <2> QED  BY <1>1, <1>5, <2>1, NamesFacts DEF Columns
  <1>8. ASSUME NEW c \in Foreign,
               db' = [db EXCEPT !.cols = @ \cup {[t |-> t, c |-> c, ty |-> 1, id |-> <<0, t, c>>]}]
        PROVE  WellFormed(deploys, db')
    <2> DEFINE x == [t |-> t, c |-> c, ty |-> 1, id |-> <<0, t, c>>]
    <2>1. db' = Joined(db, {x}, {})
      BY <1>5, <1>8 DEF Joined
    <2>2. x.t = t /\ x.c = c /\ x = [t |-> x.t, c |-> x.c, ty |-> x.ty, id |-> <<0, x.t, x.c>>]
      OBVIOUS
    <2> HIDE DEF x
    <2>3. /\ x.t \in Names /\ x.c \in Foreign
          /\ \A z \in db.cols : ~SameColumn(x, z)
          /\ \E z \in db.cols \cup {x} : z.t = x.t /\ z.c = "id"
      BY <1>1, <1>7, <2>2 DEF SameColumn
    <2> QED  BY <1>1, <1>2, <1>6, <2>1, <2>2, <2>3, JoinedWellFormed
  <1>9. ASSUME db' = [db EXCEPT
              !.cols = @ \cup {[t |-> ForeignTable, c |-> c, ty |-> 1, id |-> <<0, ForeignTable, c>>]
                                : c \in {"id", "ref"}},
              !.links = @ \cup {[t |-> ForeignTable, c |-> "ref", ref |-> t, act |-> 1, rc |-> "id",
                                sym |-> <<ForeignTable, "ref">>]}]
        PROVE  WellFormed(deploys, db')
    <2> DEFINE K(c) == [t |-> ForeignTable, c |-> c, ty |-> 1, id |-> <<0, ForeignTable, c>>]
               new == {K(c) : c \in {"id", "ref"}}
               l == [t |-> ForeignTable, c |-> "ref", ref |-> t, act |-> 1, rc |-> "id",
                     sym |-> <<ForeignTable, "ref">>]
    <2>1. db' = Joined(db, new, {l})
      BY <1>5, <1>9 DEF Joined
    <2>2. \A c : /\ K(c).t = ForeignTable /\ K(c).c = c
                 /\ K(c) = [t |-> K(c).t, c |-> K(c).c, ty |-> K(c).ty, id |-> <<0, K(c).t, K(c).c>>]
      OBVIOUS
    <2>3. /\ l = [t |-> l.t, c |-> l.c, ref |-> l.ref, rc |-> l.rc, act |-> l.act, sym |-> l.sym]
          /\ l.t = ForeignTable /\ l.c = "ref" /\ l.ref = t /\ l.rc = "id"
      OBVIOUS
    <2> HIDE DEF K, l
    <2>4. K("id") \in new /\ K("ref") \in new /\ \A x \in new : \E c : x = K(c)
      OBVIOUS
    <2> HIDE DEF new
    <2>5. \A x \in new : /\ x = [t |-> x.t, c |-> x.c, ty |-> x.ty, id |-> <<0, x.t, x.c>>]
                         /\ x.t = ForeignTable /\ x = K(x.c)
      BY <2>2, <2>4
    <2>6. \A x \in new : /\ x.t \in Names
                         /\ \A z \in db.cols : ~SameColumn(x, z)
                         /\ \E z \in db.cols \cup new : z.t = x.t /\ z.c = "id"
      BY <1>1, <1>7, <2>2, <2>4, <2>5 DEF TablesOf, SameColumn
    <2>7. \A x, y \in new : x.t = y.t /\ x.c = y.c => x = y
      BY <2>5
    <2>8. \E x \in new : SameColumn(x, l)
      BY <2>2, <2>3, <2>4 DEF SameColumn
    <2> QED  BY <1>1, <1>2, <1>6, <1>7, <2>1, <2>3, <2>5, <2>6, <2>7, <2>8, JoinedWellFormed
  <1>10. WellFormed(deploys, db')
    BY <1>8, <1>9 DEF Consume
  <1> QED  BY <1>1, <1>2, <1>3, <1>4, <1>10 DEF IInv

\* What holds of a deploy under way.
LEMMA RunningFacts ==
    ASSUME IInv, outcome = "running"
    PROVE  /\ doc \in Documents /\ ~Ambiguous(doc, start) /\ deploys \in Nat /\ deploys > 0
           /\ Deploying(doc, start, approved, todo, deploys, db)
           /\ WellFormed(deploys, db) /\ Shaped(start)
           /\ hit \in BOOLEAN /\ faults \in 0..MaxFaults
  BY PlanAssumption DEF IInv, Live, Basics, WellFormed

\* A deploy that fails at an index may leave it behind.
LEMMA IndexLeftKeepsIInv ==
    ASSUME IInv, outcome = "running",
           NEW l \in todo.addIndex, ~\E i \in db.idx : i.name = <<l.t, l.c>>,
           db' = Indexed(db, l), base' = db', todo' = Idle, outcome' = "failed",
           hit' \in BOOLEAN, faults' \in 0..MaxFaults,
           UNCHANGED <<doc, approved, start, history, deploys>>
    PROVE  IInv'
  <1>1. /\ Deploying(doc, start, approved, Ran(todo, "addIndex", l), deploys, db')
        /\ WellFormed(deploys, db')
    BY RunningFacts, AddIndexStep
  <1>2. Basics' /\ ~Live'
    BY DEF IInv, Basics, Live
  <1>3. WellFormed(deploys', db') /\ WellFormed(deploys', base') /\ WellFormed(deploys', start')
    BY <1>1 DEF IInv
  <1>4. NotForeign(history')
    BY DEF IInv
  <1>5. Kept'
    <2>1. ASSUME NEW x \in start.cols
          PROVE  x.id \in Ids(base') \/ Forsaken(doc, start, approved, x)
      BY <1>1 DEF Deploying, Tracked, Ids
    <2>2. Guarded(doc, start, base')
      BY <1>1 DEF Deploying
    <2> QED  BY <2>1, <2>2 DEF Kept
  <1> QED  BY <1>2, <1>3, <1>4, <1>5 DEF IInv

\* A statement of the transaction keeps the invariant if the tables it leaves do.
LEMMA StatementStep ==
    ASSUME IInv, NEW phase, NEW o, NEW possible, NEW after, Statement(phase, o, possible, after),
           possible => /\ Deploying(doc, start, approved, Ran(todo, phase, o), deploys, after)
                       /\ WellFormed(deploys, after)
    PROVE  IInv'
  <1>1. /\ outcome = "running"
        /\ UNCHANGED <<base, doc, approved, start, history, hit, deploys, faults>>
    BY DEF Statement, Turn
  <1>2. CASE possible
    <2>1. db' = after /\ todo' = Ran(todo, phase, o) /\ outcome' = "running"
      BY <1>1, <1>2 DEF Statement, Ran
    <2> QED  BY <1>1, <1>2, <2>1, RunningFacts, StepKeepsIInv
  <1>3. CASE ~possible
    <2>1. db' = base /\ todo' = Idle /\ outcome' = "refused"
      BY <1>3 DEF Statement
    <2> QED  BY <1>1, <2>1, RunningFacts, RollbackKeepsIInv
  <1> QED  BY <1>2, <1>3

LEMMA NextIInv ==
    ASSUME IInv, [Next]_vars
    PROVE  IInv'
  <1>1. CASE /\ outcome # "running"
             /\ \E s \in Documents : \E keys \in SUBSET Keys(Diff(s, db)) : Deploy(s, keys)
    BY <1>1, DeployStep
  <1>2. CASE \E t \in TablesOf(db) : Consume(t)
    BY <1>2, ConsumeStep
  <1>3. ASSUME NEW o \in todo.renameTable, RenameTable(o)
        PROVE  IInv'
    <2>1. Statement("renameTable", o, o.from \in TablesOf(db) /\ o.to \notin TablesOf(db),
                    TableRenamed(db, o))
      BY <1>3 DEF RenameTable, TableRenamed
    <2>2. outcome = "running"
      BY <2>1 DEF Statement, Turn
    <2>3. o.to \notin TablesOf(db) =>
             /\ Deploying(doc, start, approved, Ran(todo, "renameTable", o), deploys, TableRenamed(db, o))
             /\ WellFormed(deploys, TableRenamed(db, o))
      BY <2>2, RunningFacts, RenameTableStep
    <2> QED  BY <2>1, <2>3, StatementStep
  <1>4. ASSUME NEW o \in todo.renameColumn, RenameColumn(o)
        PROVE  IInv'
    <2>1. Statement("renameColumn", o, Column(db, o.t, o.from) # {} /\ Column(db, o.t, o.to) = {},
                    ColumnRenamed(db, o))
      BY <1>4 DEF RenameColumn, ColumnRenamed
    <2>2. outcome = "running" /\ todo.renameTable = {}
      BY <2>1, TurnFacts DEF Statement, Turn
    <2>3. Column(db, o.t, o.to) = {} =>
             /\ Deploying(doc, start, approved, Ran(todo, "renameColumn", o), deploys, ColumnRenamed(db, o))
             /\ WellFormed(deploys, ColumnRenamed(db, o))
      BY <2>2, RunningFacts, RenameColumnStep
    <2> QED  BY <2>1, <2>3, StatementStep
  <1>5. ASSUME NEW k \in todo.dropFK, DropForeignKey(k)
        PROVE  IInv'
    <2>1. Statement("dropFK", k, k \in db.links, ForeignKeyDropped(db, k))
      BY <1>5 DEF DropForeignKey, ForeignKeyDropped
    <2>2. outcome = "running" /\ todo.renameTable = {} /\ todo.renameColumn = {}
      BY <2>1, TurnFacts DEF Statement, Turn
    <2>3. /\ Deploying(doc, start, approved, Ran(todo, "dropFK", k), deploys, ForeignKeyDropped(db, k))
          /\ WellFormed(deploys, ForeignKeyDropped(db, k))
      BY <2>2, RunningFacts, DropForeignKeyStep
    <2> QED  BY <2>1, <2>3, StatementStep
  <1>6. ASSUME NEW x \in todo.dropColumn, DropColumn(x)
        PROVE  IInv'
    <2> DEFINE possible ==
                 /\ Column(db, x.t, x.c) # {}
                 /\ ~\E l \in db.links : l.ref = x.t /\ l.rc = x.c /\ ~SameColumn(x, l)
    <2>1. Statement("dropColumn", x, possible, ColumnDropped(db, x))
      BY <1>6 DEF DropColumn, ColumnDropped
    <2>2. outcome = "running" /\ todo.renameTable = {} /\ todo.renameColumn = {}
      BY <2>1, TurnFacts DEF Statement, Turn
    <2>3. possible =>
             /\ Deploying(doc, start, approved, Ran(todo, "dropColumn", x), deploys, ColumnDropped(db, x))
             /\ WellFormed(deploys, ColumnDropped(db, x))
      BY <2>2, RunningFacts, DropColumnStep
    <2> HIDE DEF possible
    <2> QED  BY <2>1, <2>3, StatementStep
  <1>7. ASSUME NEW t \in todo.dropTable, DropTable(t)
        PROVE  IInv'
    <2> DEFINE possible == t \in TablesOf(db) /\ ~\E l \in db.links : l.ref = t /\ l.t # t
    <2>1. Statement("dropTable", t, possible, TableDropped(db, t))
      BY <1>7 DEF DropTable, TableDropped
    <2>2. outcome = "running" /\ todo.renameTable = {} /\ todo.renameColumn = {}
      BY <2>1, TurnFacts DEF Statement, Turn
    <2>3. possible =>
             /\ Deploying(doc, start, approved, Ran(todo, "dropTable", t), deploys, TableDropped(db, t))
             /\ WellFormed(deploys, TableDropped(db, t))
      BY <2>2, RunningFacts, DropTableStep
    <2> HIDE DEF possible
    <2> QED  BY <2>1, <2>3, StatementStep
  <1>8. ASSUME NEW t \in todo.createTable, CreateTable(t)
        PROVE  IInv'
    <2> DEFINE new == {Made(deploys, t, "id", 1)}
                      \cup {Made(deploys, t, y.c, y.ty) : y \in {y \in doc.cols : y.t = t}}
    <2>1. Statement("createTable", t, t \notin TablesOf(db), Extended(db, new))
      BY <1>8 DEF CreateTable, Extended, New, Made
    <2>2. outcome = "running" /\ Settled(todo)
      BY <2>1, TurnFacts DEF Statement, Turn
    <2>3. t \notin TablesOf(db) =>
             /\ Deploying(doc, start, approved, Ran(todo, "createTable", t), deploys, Extended(db, new))
             /\ WellFormed(deploys, Extended(db, new))
      BY <2>2, RunningFacts, CreateTableStep
    <2> HIDE DEF new
    <2> QED  BY <2>1, <2>3, StatementStep
  <1>9. ASSUME NEW y \in todo.addColumn, AddColumn(y)
        PROVE  IInv'
    <2> DEFINE new == {Made(deploys, y.t, y.c, y.ty)}
               possible == y.t \in TablesOf(db) /\ Column(db, y.t, y.c) = {}
    <2>1. Statement("addColumn", y, possible, Extended(db, new))
      BY <1>9 DEF AddColumn, Extended, New, Made
    <2>2. outcome = "running" /\ Settled(todo)
      BY <2>1, TurnFacts DEF Statement, Turn
    <2>3. possible =>
             /\ Deploying(doc, start, approved, Ran(todo, "addColumn", y), deploys, Extended(db, new))
             /\ WellFormed(deploys, Extended(db, new))
      BY <2>2, RunningFacts, AddColumnStep
    <2> HIDE DEF new, possible
    <2> QED  BY <2>1, <2>3, StatementStep
  <1>10. ASSUME NEW y \in todo.alterColumn, AlterColumn(y)
         PROVE  IInv'
    <2>1. Statement("alterColumn", y, Column(db, y.t, y.c) # {}, Altered(db, y))
      BY <1>10 DEF AlterColumn, Altered
    <2>2. outcome = "running"
      BY <2>1 DEF Statement, Turn
    <2>3. /\ Deploying(doc, start, approved, Ran(todo, "alterColumn", y), deploys, Altered(db, y))
          /\ WellFormed(deploys, Altered(db, y))
      BY <2>2, RunningFacts, AlterColumnStep
    <2> QED  BY <2>1, <2>3, StatementStep
  <1>11. CASE Commit
    <2>1. /\ outcome = "running" /\ base' = db' /\ db' = db /\ todo' = todo /\ outcome' = outcome
          /\ UNCHANGED <<doc, approved, start, history, hit, deploys, faults>>
      BY <1>11 DEF Commit, Turn
    <2> QED  BY <2>1, RunningFacts, StepKeepsIInv
  <1>12. ASSUME NEW l \in todo.addIndex, AddIndex(l)
         PROVE  IInv'
    <2>1. /\ outcome = "running" /\ base = db
          /\ UNCHANGED <<doc, approved, start, history, hit, deploys, faults>>
      BY <1>12 DEF AddIndex, Turn
    <2>2. CASE \E i \in db.idx : i.name = <<l.t, l.c>>
      <3>1. todo' = Idle /\ outcome' = "refused" /\ db' = base /\ base' = base
        BY <1>12, <2>1, <2>2 DEF AddIndex
      <3> QED  BY <2>1, <3>1, RunningFacts, RollbackKeepsIInv
    <2>3. CASE ~\E i \in db.idx : i.name = <<l.t, l.c>>
      <3>1. /\ db' = Indexed(db, l) /\ base' = db' /\ outcome' = outcome
            /\ todo' = Ran(todo, "addIndex", l)
        BY <1>12, <2>3 DEF AddIndex, Indexed, Ran
      <3>2. Deploying(doc, start, approved, todo', deploys, db') /\ WellFormed(deploys, db')
        BY <2>1, <2>3, <3>1, RunningFacts, AddIndexStep
      <3> QED  BY <2>1, <3>1, <3>2, RunningFacts, StepKeepsIInv
    <2> QED  BY <2>2, <2>3
  <1>13. ASSUME NEW a \in todo.addFK, AddForeignKey(a)
         PROVE  IInv'
    <2>1. /\ outcome = "running" /\ base = db /\ base' = db' /\ outcome' = outcome
          /\ UNCHANGED <<doc, approved, start, history, hit, deploys, faults>>
          /\ todo' = Ran(todo, "addFK", a)
          /\ Settled(todo) /\ todo.createTable = {} /\ todo.addColumn = {}
      BY <1>13, TurnFacts DEF AddForeignKey, Turn, Ran
    <2> DEFINE free == ~\E k \in db.links \ Superseded(db, todo, a) : k.t = a.t /\ k.sym = <<a.t, a.c>>
    <2>2. \/ db' = db
          \/ free /\ Column(db, a.ref, a.rc) # {} /\ db' = LinkAdded(db, todo, a)
      BY <1>13 DEF AddForeignKey, LinkAdded, Superseded
    <2>3. CASE db' = db
      <3>1. Deploying(doc, start, approved, todo', deploys, db') /\ WellFormed(deploys, db')
        BY <2>1, <2>3, RunningFacts, SkipForeignKeyStep
      <3> QED  BY <2>1, <3>1, RunningFacts, StepKeepsIInv
    <2>4. CASE free /\ Column(db, a.ref, a.rc) # {} /\ db' = LinkAdded(db, todo, a)
      <3>1. Deploying(doc, start, approved, todo', deploys, db') /\ WellFormed(deploys, db')
        BY <2>1, <2>4, RunningFacts, AddForeignKeyStep
      <3> QED  BY <2>1, <3>1, RunningFacts, StepKeepsIInv
    <2> QED  BY <2>2, <2>3, <2>4
  <1>14. CASE Done
    <2>1. /\ outcome = "running" /\ base = db /\ outcome' \in {"done", "partial"}
          /\ history' \in {history, history \cup Declares(doc)} /\ todo' = Idle
          /\ UNCHANGED <<db, base, doc, approved, start, hit, deploys, faults>>
          /\ Settled(todo) /\ todo.createTable = {} /\ todo.addColumn = {}
      BY <1>14, TurnFacts DEF Done, Turn
    <2>2. NotForeign(history')
      BY <2>1, RunningFacts, DeclaresNotForeign, NotForeignUnion DEF IInv
    <2>3. Deploying(doc, start, approved, Idle, deploys, db)
      BY <2>1, RunningFacts, IdleIsDeploying
    <2>4. Basics'
      BY <2>1 DEF IInv, Basics
    <2>5. Kept'
      BY <2>1 DEF IInv, Kept
    <2>6. WellFormed(deploys', db') /\ WellFormed(deploys', base') /\ WellFormed(deploys', start')
      BY <2>1 DEF IInv
    <2>7. /\ doc' \in Documents /\ deploys' > 0 /\ ~Ambiguous(doc', start')
          /\ Deploying(doc', start', approved', todo', deploys', db')
      BY <2>1, <2>3, RunningFacts
    <2> QED  BY <2>2, <2>4, <2>5, <2>6, <2>7 DEF IInv
  <1>15. CASE Fault
    <2>1. /\ outcome = "running" /\ faults' \in 0..MaxFaults /\ hit' \in BOOLEAN
          /\ UNCHANGED <<doc, approved, start, history, deploys>>
      BY <1>15, PlanAssumption DEF Fault, IInv, Basics
    <2>2. CASE /\ \E a \in todo.addFK : todo' = [todo EXCEPT !.addFK = @ \ {a}]
               /\ UNCHANGED <<db, base, outcome>>
      <3>1. PICK a \in todo.addFK : todo' = Ran(todo, "addFK", a)
        BY <2>2 DEF Ran
      <3>2. Deploying(doc, start, approved, todo', deploys, db') /\ WellFormed(deploys, db')
        BY <2>1, <2>2, <3>1, RunningFacts, SkipForeignKeyStep
      <3> QED  BY <2>1, <2>2, <3>2, StepKeepsIInv
    <2>3. CASE db' = base /\ todo' = Idle /\ outcome' = "failed" /\ base' = base
      BY <2>1, <2>3, RollbackKeepsIInv
    <2>4. CASE /\ \E l \in todo.addIndex : /\ ~\E i \in db.idx : i.name = <<l.t, l.c>>
                                          /\ db' = Indexed(db, l)
               /\ base' = db' /\ todo' = Idle /\ outcome' = "failed"
      BY <2>1, <2>4, IndexLeftKeepsIInv
    <2> QED  BY <1>15, <2>2, <2>3, <2>4 DEF Fault, Indexed
  <1>16. CASE UNCHANGED vars
    BY <1>16 DEF vars, IInv, Basics, Kept, Live
  <1> QED  BY <1>1, <1>2, <1>3, <1>4, <1>5, <1>6, <1>7, <1>8, <1>9, <1>10, <1>11, <1>12, <1>13,
              <1>14, <1>15, <1>16 DEF Next

-----------------------------------------------------------------------------
(***************************************************************************)
(* The invariant of a plan that runs.  A statement is refused for what is  *)
(* missing or for what is in its way, so both directions are followed: all *)
(* there is now stems from the start or from a statement that has run, and *)
(* all that a later statement needs is there.                              *)
(***************************************************************************)
\* A link and an index of the start, as they are called by now.
NowLink(s, d, p, j) ==
    [t |-> NowTable(s, d, p, j.t), c |-> NowColumn(s, d, p, j.t, j.c),
     ref |-> NowTable(s, d, p, j.ref), rc |-> NowColumn(s, d, p, j.ref, j.rc),
     act |-> j.act, sym |-> j.sym]

NowIndex(s, d, p, i) ==
    [name |-> i.name, t |-> NowTable(s, d, p, i.t), c |-> NowColumn(s, d, p, i.t, i.c)]

\* A link as it is called after the renames, and as the plan calls it, which does
\* not follow a rename of the referenced column.
EndLink(s, d, j) ==
    [t |-> Target(s, d, j.t), c |-> ColumnTarget(s, d, Target(s, d, j.t), j.c),
     ref |-> Target(s, d, j.ref), rc |-> ColumnTarget(s, d, Target(s, d, j.ref), j.rc),
     act |-> j.act, sym |-> j.sym]

NewLink(s, d, j) ==
    [t |-> Target(s, d, j.t), c |-> ColumnTarget(s, d, Target(s, d, j.t), j.c),
     ref |-> Target(s, d, j.ref), rc |-> j.rc, act |-> j.act, sym |-> j.sym]

Heads(s, d, i, l) ==
    Target(s, d, i.t) = l.t /\ ColumnTarget(s, d, Target(s, d, i.t), i.c) = l.c

\* What a declared link is made as.
LinkMade(a) ==
    [t |-> a.t, c |-> a.c, ref |-> a.ref, rc |-> a.rc, act |-> a.act, sym |-> <<a.t, a.c>>]
IndexMade(a) == [name |-> <<a.t, a.c>>, t |-> a.t, c |-> a.c]

\* A live column that the declared column y stands for.
StandsFor(s, d, x, y) == Target(s, d, x.t) = y.t /\ x.c = OldName(s, d, y)

\* What the plan adds is not there at the start, what it alters is; what stands in
\* the place of a new constraint is replaced by it; what it drops, it drops once.
Drawn(s, d, keys, p) ==
    /\ \A t \in p.createTable : \A x \in d.cols : Target(s, d, x.t) # t
    /\ \A y \in p.addColumn : /\ \E x \in d.cols : Target(s, d, x.t) = y.t
                              /\ \A x \in d.cols : ~StandsFor(s, d, x, y)
    /\ \A y \in p.alterColumn : \E x \in d.cols : StandsFor(s, d, x, y)
    /\ \A l \in p.addIndex : l \in s.links /\ \A i \in d.idx : ~Heads(s, d, i, l)
    /\ \A a \in p.addFK : \A j \in d.links : Heads(s, d, j, a) => NewLink(s, d, j) \in p.replaced
    /\ \A x, y \in p.dropColumn : SameColumn(x, y) => x = y
    /\ \A o \in p.renameTable : o.from \notin p.dropTable
    /\ p.dropFK \cap p.replaced = {}
    /\ \A k \in p.dropFK : k.ref \notin s.tables
    /\ \A t : <<t, "id">> \notin keys

\* Every column, link and index of now was there at the start, or is declared and
\* was made.
BackedColumn(s, d, p, z) ==
    \/ \E x \in d.cols :
          /\ z.t = NowTable(s, d, p, x.t) /\ z.c = NowColumn(s, d, p, x.t, x.c)
          /\ z.ty = x.ty \/ (Settled(p) /\ \E y \in s.cols : SameColumn(y, z) /\ z.ty = y.ty)
    \/ /\ Settled(p) /\ z.t \in s.tables /\ z.t \notin p.createTable
       /\ z.c = "id" \/ \E y \in s.cols : y \notin p.addColumn /\ SameColumn(y, z) /\ z.ty = y.ty

BackedLink(s, d, p, m) ==
    \/ \E j \in d.links : m = NowLink(s, d, p, j)
    \/ Settled(p) /\ \E a \in s.links : a \notin p.addFK /\ m = LinkMade(a)

BackedIndex(s, d, p, i) ==
    \/ \E j \in d.idx : i = NowIndex(s, d, p, j)
    \/ Settled(p) /\ \E a \in s.links : a \notin p.addIndex /\ i = IndexMade(a)

Backed(s, d, p, e) ==
    /\ \A z \in e.cols : BackedColumn(s, d, p, z)
    /\ \A m \in e.links : BackedLink(s, d, p, m)
    /\ \A i \in e.idx : BackedIndex(s, d, p, i)

\* What is to be dropped or replaced is there, and so are declared indexes.
LinkInPlace(s, d, p, e, k) ==
    \E j \in d.links : k = NewLink(s, d, j) /\ NowLink(s, d, p, j) \in e.links

InPlace(s, d, p, e) ==
    /\ \A k \in p.dropFK : LinkInPlace(s, d, p, e, k)
    /\ \A k \in p.replaced : \A a \in p.addFK : SameColumn(a, k) => LinkInPlace(s, d, p, e, k)
    /\ \A x \in p.dropColumn : \E z \in e.cols : \E w \in d.cols :
          Target(s, d, w.t) = x.t /\ z.t = NowTable(s, d, p, w.t) /\ z.c = x.c
    /\ \A t \in p.dropTable : \E z \in e.cols : z.t = t
    /\ \A i \in d.idx : \A l \in s.links : Heads(s, d, i, l) => NowIndex(s, d, p, i) \in e.idx

\* Link j references an approved column from another one.
Pins(s, d, keys, j) ==
    <<Target(s, d, j.ref), j.rc>> \in keys /\ (j.t = j.ref => j.c # j.rc)

\* Link j keeps the approved table it references from being dropped.
Holds(s, d, owned, keys, j) ==
    /\ <<j.ref>> \in keys /\ j.ref \notin s.tables
    /\ LET t == Target(s, d, j.t)
       IN  \/ t \notin s.tables /\ <<t>> \notin keys \cap owned
           \/ \E a \in s.links : a.t = t /\ a.c = ColumnTarget(s, d, t, j.c)

\* A link to a table that is to be dropped goes before it, or holds it.
Released(s, d, owned, keys, p, e) ==
    \A j \in d.links :
      Target(s, d, j.ref) \in p.dropTable /\ Target(s, d, j.t) # Target(s, d, j.ref) =>
        \/ NewLink(s, d, j) \in p.dropFK
        \/ /\ p.renameTable = {} /\ p.renameColumn = {}
           /\ EndLink(s, d, j) \notin e.links
        \/ /\ Target(s, d, j.t) \in p.dropTable
           /\ <<Target(s, d, j.t), Target(s, d, j.ref)>> \in p.before
        \/ Holds(s, d, owned, keys, j)

\* Declared link l cannot be made: its constraint's name went with another column.
Taken(s, d, l) ==
    \E k \in d.links : /\ Target(s, d, k.t) = l.t /\ k.sym = <<l.t, l.c>>
                       /\ ColumnTarget(s, d, l.t, k.c) # l.c

\* What is declared was there at the start, has been made or will be.
Supplied(s, d, p, h, e) ==
    /\ \A t \in s.tables :
          \/ t \in p.createTable
          \/ \E x \in d.cols : Target(s, d, x.t) = t
          \/ Settled(p) /\ \E z \in e.cols : z.t = t
    /\ \A y \in s.cols : \A x \in d.cols : StandsFor(s, d, x, y) /\ x.ty # y.ty =>
          \/ y \in p.alterColumn
          \/ Settled(p) /\ \E z \in e.cols : SameColumn(y, z) /\ z.ty = y.ty
    /\ \A l \in s.links :
          \/ l \in p.addIndex
          \/ \E i \in d.idx : Heads(s, d, i, l)
          \/ Settled(p) /\ \E i \in e.idx : SameColumn(i, l)
    /\ \A l \in s.links :
          \/ h
          \/ l \in p.addFK
          \/ \E j \in d.links : Follows(s, d, j, l)
          \/ Settled(p) /\ \E m \in e.links : SameLink(m, l)
          \/ Taken(s, d, l)

Ready(s, d, owned, keys, p, h, e) ==
    /\ Drawn(s, d, keys, p) /\ Backed(s, d, p, e) /\ InPlace(s, d, p, e)
    /\ Released(s, d, owned, keys, p, e) /\ Supplied(s, d, p, h, e)

HasEngine(d) == \A t \in EngineTables : \E x \in d.cols : x.t = t

RInv ==
    /\ HasEngine(db) /\ HasEngine(base) /\ HasEngine(start)
    /\ outcome = "running" =>
          Ready(doc, start, history \cup Declares(doc), approved, todo, hit, db)

-----------------------------------------------------------------------------
(***************************************************************************)
(* Names lead back.                                                        *)
(***************************************************************************)
\* Two live tables have two new names.
LEMMA TargetInjective ==
    ASSUME NEW s \in Documents, NEW d, NEW u \in TablesOf(d), NEW v \in TablesOf(d),
           Target(s, d, u) = Target(s, d, v)
    PROVE  u = v
  BY TargetCases, MoveFacts

\* A name that is not declared is the new name of no other table.
LEMMA TargetUndeclared ==
    ASSUME NEW s \in Documents, NEW d, NEW u, Target(s, d, u) \notin s.tables
    PROVE  Target(s, d, u) = u
  BY TargetCases, MoveFacts

\* The live column behind a declared one is that with the live name.
LEMMA NameLeadsBack ==
    ASSUME NEW s \in Documents, NEW d, NEW x \in d.cols, NEW y \in s.cols,
           Target(s, d, x.t) = y.t, ColumnTarget(s, d, y.t, x.c) = y.c
    PROVE  x.c = OldName(s, d, y)
  <1>1. CASE \E w \in ColumnMoves(s, d) :
                w.t = y.t /\ w.from = x.c /\ ColumnTarget(s, d, y.t, x.c) = w.c
    <2>1. PICK w \in ColumnMoves(s, d) : w.t = y.t /\ w.from = x.c /\ w.c = y.c
      BY <1>1
    <2>2. w = y
      BY <2>1, ColumnMoveFacts, DocumentFacts
    <2> QED  BY <2>1, <2>2 DEF OldName
  <1>2. CASE ColumnTarget(s, d, y.t, x.c) = x.c
    BY <1>2, MoveTargetFree DEF OldName
  <1> QED  BY <1>1, <1>2, ColumnTargetCases

\* One live column stands for a declared one.
LEMMA OneStandsFor ==
    ASSUME NEW s \in Documents, NEW d, Columns(d), NEW x \in d.cols, NEW z \in d.cols, NEW y,
           y.t \in s.tables, StandsFor(s, d, x, y), StandsFor(s, d, z, y)
    PROVE  x = z
  <1>1. x.t \in TablesOf(d) /\ z.t \in TablesOf(d)
    BY DEF TablesOf
  <1>2. x.t = z.t
    BY <1>1, TargetInjective DEF StandsFor
  <1> QED  BY <1>2 DEF Columns, SameColumn, StandsFor

\* The links and indexes of the live model under the new names.
LEMMA ResolvedForm ==
    ASSUME NEW s, NEW d, Shaped(d)
    PROVE  /\ \A x \in d.cols : \E z \in Resolved(s, d).cols :
                 z = [t |-> Target(s, d, x.t), c |-> x.c, ty |-> x.ty, id |-> x.id]
           /\ \A z \in Resolved(s, d).cols : \E x \in d.cols :
                 z = [t |-> Target(s, d, x.t), c |-> x.c, ty |-> x.ty, id |-> x.id]
           /\ \A j \in d.links : NewLink(s, d, j) \in Resolved(s, d).links
           /\ \A k \in Resolved(s, d).links : \E j \in d.links : k = NewLink(s, d, j)
           /\ \A l : (\E i \in Resolved(s, d).idx : SameColumn(i, l))
                     <=> \E i \in d.idx : Heads(s, d, i, l)
  <1> DEFINE R(x) == [x EXCEPT !.t = Target(s, d, @)]
             C(x) == [t |-> Target(s, d, x.t), c |-> x.c, ty |-> x.ty, id |-> x.id]
             K(k) == [k EXCEPT !.t = Target(s, d, @), !.ref = Target(s, d, @),
                               !.c = ColumnTarget(s, d, Target(s, d, k.t), @)]
             J(i) == [i EXCEPT !.t = Target(s, d, @),
                               !.c = ColumnTarget(s, d, Target(s, d, i.t), @)]
  <1>1. ASSUME NEW x \in d.cols
        PROVE  R(x) = C(x)
    <2>1. x = [t |-> x.t, c |-> x.c, ty |-> x.ty, id |-> x.id]
      BY DEF Shaped
    <2> QED  BY <2>1
  <1>2. ASSUME NEW k \in d.links
        PROVE  K(k) = NewLink(s, d, k)
    <2> DEFINE a == Target(s, d, k.t)
               b == Target(s, d, k.ref)
               g == ColumnTarget(s, d, Target(s, d, k.t), k.c)
    <2>1. k = [t |-> k.t, c |-> k.c, ref |-> k.ref, rc |-> k.rc, act |-> k.act, sym |-> k.sym]
      BY DEF Shaped
    <2>2. K(k) = [k EXCEPT !.t = a, !.ref = b, !.c = g]
      BY <2>1
    <2>3. NewLink(s, d, k) = [t |-> a, c |-> g, ref |-> b, rc |-> k.rc, act |-> k.act, sym |-> k.sym]
      BY DEF NewLink
    <2> HIDE DEF a, b, g
    <2>4. [k EXCEPT !.t = a, !.ref = b, !.c = g] = [[[k EXCEPT !.t = a] EXCEPT !.ref = b] EXCEPT !.c = g]
      BY <2>1
    <2>5. [k EXCEPT !.t = a] = [t |-> a, c |-> k.c, ref |-> k.ref, rc |-> k.rc, act |-> k.act, sym |-> k.sym]
      BY <2>1
    <2>6. [[t |-> a, c |-> k.c, ref |-> k.ref, rc |-> k.rc, act |-> k.act, sym |-> k.sym] EXCEPT !.ref = b]
          = [t |-> a, c |-> k.c, ref |-> b, rc |-> k.rc, act |-> k.act, sym |-> k.sym]
      OBVIOUS
    <2>7. [[t |-> a, c |-> k.c, ref |-> b, rc |-> k.rc, act |-> k.act, sym |-> k.sym] EXCEPT !.c = g]
          = [t |-> a, c |-> g, ref |-> b, rc |-> k.rc, act |-> k.act, sym |-> k.sym]
      OBVIOUS
    <2> QED  BY <2>2, <2>3, <2>4, <2>5, <2>6, <2>7, Zenon
  <1>3. ASSUME NEW i \in d.idx
        PROVE  J(i).t = Target(s, d, i.t) /\ J(i).c = ColumnTarget(s, d, Target(s, d, i.t), i.c)
    <2>1. i = [name |-> i.name, t |-> i.t, c |-> i.c]
      BY DEF Shaped
    <2> QED  BY <2>1
  <1>4. /\ Resolved(s, d).cols = {R(x) : x \in d.cols}
        /\ Resolved(s, d).links = {K(k) : k \in d.links}
        /\ Resolved(s, d).idx = {J(i) : i \in d.idx}
    BY DEF Resolved
  <1> HIDE DEF R, K, J
  <1>5. ASSUME NEW l
        PROVE  (\E i \in Resolved(s, d).idx : SameColumn(i, l)) <=> \E i \in d.idx : Heads(s, d, i, l)
    BY <1>3, <1>4 DEF SameColumn, Heads
  <1>6. \A x \in d.cols : C(x) \in Resolved(s, d).cols
    BY <1>1, <1>4
  <1> HIDE DEF C
  <1>7. \A z \in Resolved(s, d).cols : \E x \in d.cols : z = C(x)
    BY <1>1, <1>4
  <1>8. /\ \A j \in d.links : NewLink(s, d, j) \in Resolved(s, d).links
        /\ \A k \in Resolved(s, d).links : \E j \in d.links : k = NewLink(s, d, j)
    BY <1>2, <1>4
  <1> QED  BY <1>5, <1>6, <1>7, <1>8 DEF C

-----------------------------------------------------------------------------
(***************************************************************************)
(* A new plan can run.                                                     *)
(***************************************************************************)
\* Before the first statement every name is what it was.
LEMMA PlanRenamesNothingYet ==
    ASSUME NEW s, NEW d, NEW owned, NEW keys
    PROVE  LET q == Plan(s, d, owned, keys)
           IN  /\ \A t : NowTable(s, d, q, t) = t
               /\ \A t, c : NowColumn(s, d, q, t, c) = c
  <1> DEFINE q == Plan(s, d, owned, keys)
  <1>1. /\ q.renameTable = {[from |-> s.from[t], to |-> t] : t \in TableMoves(s, d)}
        /\ q.renameColumn = {[t |-> y.t, from |-> y.from, to |-> y.c] : y \in ColumnMoves(s, d)}
    BY PlanFields, DiffFields
  <1> HIDE DEF q
  <1>2. ASSUME NEW t \in TableMoves(s, d)
        PROVE  \E o \in q.renameTable : o.from = s.from[t]
    <2>1. [from |-> s.from[t], to |-> t] \in q.renameTable
      BY <1>1
    <2> QED  BY <2>1
  <1>3. ASSUME NEW y \in ColumnMoves(s, d)
        PROVE  \E o \in q.renameColumn : o.t = y.t /\ o.from = y.from
    <2>1. [t |-> y.t, from |-> y.from, to |-> y.c] \in q.renameColumn
      BY <1>1
    <2> QED  BY <2>1
  <1>4. \A t : NowTable(s, d, q, t) = t
    BY <1>2, TargetCases DEF NowTable
  <1>5. \A t, c : NowColumn(s, d, q, t, c) = c
    BY <1>3, ColumnTargetCases DEF NowColumn
  <1> QED  BY <1>4, <1>5 DEF q

\* The tables of the live model under their new names.
LEMMA ManagedFacts ==
    ASSUME NEW s \in Documents, NEW d, Shaped(d)
    PROVE  LET r == Resolved(s, d)
           IN  /\ \A t \in Managed(r) : t \notin EngineTables /\ \E x \in d.cols : Target(s, d, x.t) = t
               /\ \A x \in d.cols : Target(s, d, x.t) \notin EngineTables => Target(s, d, x.t) \in Managed(r)
               /\ \A x \in d.cols : Target(s, d, x.t) \in s.tables => Target(s, d, x.t) \in Managed(r)
  <1> DEFINE r == Resolved(s, d)
  <1>1. /\ \A x \in r.cols : \E z \in d.cols : x.t = Target(s, d, z.t) /\ x.c = z.c
        /\ \A z \in d.cols : \E x \in r.cols : x.t = Target(s, d, z.t) /\ x.c = z.c
    BY ResolvedColumns
  <1> HIDE DEF r
  <1> QED  BY <1>1, DocumentFacts DEF Managed, TablesOf, r

\* What the plan adds is not there yet, and what it alters is.
LEMMA PlanIsDrawn ==
    ASSUME NEW s \in Documents, NEW d, NEW n, WellFormed(n, d), ~Ambiguous(s, d),
           NEW owned, NEW keys \in SUBSET Keys(Diff(s, d))
    PROVE  Drawn(s, d, keys, Plan(s, d, owned, keys))
  <1> DEFINE p == Diff(s, d)
             q == Plan(s, d, owned, keys)
             r == Resolved(s, d)
             matched == s.tables \cap Managed(r)
  <1>0. Shaped(d) /\ Columns(d) /\ Attached(d)
    BY DEF WellFormed
  <1>a. /\ \A t \in Managed(r) : t \notin EngineTables /\ \E x \in d.cols : Target(s, d, x.t) = t
        /\ \A x \in d.cols : Target(s, d, x.t) \in s.tables => Target(s, d, x.t) \in Managed(r)
    BY <1>0, ManagedFacts
  <1>1. ASSUME NEW t \in q.createTable, NEW x \in d.cols
        PROVE  Target(s, d, x.t) # t
    <2>1. t \in s.tables \ matched
      BY PlanFields, DiffFields
    <2> QED  BY <1>a, <2>1
  <1>2. ASSUME NEW y \in q.addColumn
        PROVE  /\ \E x \in d.cols : Target(s, d, x.t) = y.t
               /\ \A x \in d.cols : ~StandsFor(s, d, x, y)
    <2>1. /\ y \in s.cols /\ y.t \in matched
          /\ ~\E x \in r.cols : x.t \in matched /\ x.c # "id" /\ x.t = y.t /\ x.c = OldName(s, d, y)
      BY PlanFields, DiffFields
    <2>2. OldName(s, d, y) # "id"
      BY <2>1, DocumentFacts DEF OldName
    <2>3. \A x \in d.cols : ~StandsFor(s, d, x, y)
      BY <1>0, <2>1, <2>2, ResolvedColumns DEF StandsFor
    <2> QED  BY <1>a, <2>1, <2>3
  <1>3. ASSUME NEW y \in q.alterColumn
        PROVE  \E x \in d.cols : StandsFor(s, d, x, y)
    <2>1. \E x \in r.cols : x.t = y.t /\ x.c = OldName(s, d, y)
      BY PlanFields, DiffFields
    <2> QED  BY <1>0, <2>1, ResolvedColumns DEF StandsFor
  <1>4. ASSUME NEW l \in q.addIndex
        PROVE  l \in s.links /\ \A i \in d.idx : ~Heads(s, d, i, l)
    <2>1. l \in s.links /\ ~\E i \in r.idx : SameColumn(i, l)
      BY PlanFields, DiffFields
    <2> QED  BY <1>0, <2>1, ResolvedForm
  <1>5. ASSUME NEW a \in q.addFK, NEW j \in d.links, Heads(s, d, j, a)
        PROVE  NewLink(s, d, j) \in q.replaced
    <2> DEFINE k == NewLink(s, d, j)
    <2>1. a \in p.addFK /\ a \in s.links /\ ~\E i \in r.links : SameLink(i, a)
      BY PlanFields, DiffFields
    <2>2. k \in r.links
      BY <1>0, ResolvedForm
    <2>3. k.t = a.t /\ k.c = a.c
      BY <1>5 DEF NewLink, Heads
    <2> HIDE DEF k
    <2>4. PICK x \in d.cols : x.t = j.t
      BY <1>0 DEF Attached, SameColumn
    <2>5. k.t \in matched
      BY <1>5, <1>a, <2>1, <2>3, <2>4, DocumentFacts DEF Heads
    <2>6. \A l \in s.links : ~SameLink(k, l)
      BY <2>1, <2>2, <2>3, DocumentFacts DEF SameLink, SameColumn
    <2>7. k \in p.dropFK
      BY <2>2, <2>5, <2>6, DiffFields
    <2>8. Readded(p, k)
      BY <2>1, <2>3 DEF Readded, SameColumn
    <2> QED  BY <2>7, <2>8, PlanFields DEF k
  <1>6. ASSUME NEW x \in q.dropColumn, NEW y \in q.dropColumn, SameColumn(x, y)
        PROVE  x = y
    <2>a. x \in p.dropColumn /\ y \in p.dropColumn
      BY PlanFields
    <2>1. x \in r.cols /\ y \in r.cols
      BY <2>a, DiffFields
    <2>2. PICK x0 \in d.cols : x = [t |-> Target(s, d, x0.t), c |-> x0.c, ty |-> x0.ty, id |-> x0.id]
      BY <1>0, <2>1, ResolvedForm
    <2>3. PICK y0 \in d.cols : y = [t |-> Target(s, d, y0.t), c |-> y0.c, ty |-> y0.ty, id |-> y0.id]
      BY <1>0, <2>1, ResolvedForm
    <2>4. Target(s, d, x0.t) = Target(s, d, y0.t) /\ x0.c = y0.c
      BY <1>6, <2>2, <2>3 DEF SameColumn
    <2>5. x0.t = y0.t
      BY <2>4, TargetInjective DEF TablesOf
    <2>6. x0 = y0
      BY <1>0, <2>4, <2>5 DEF Columns, SameColumn
    <2> QED  BY <2>2, <2>3, <2>6
  <1>7. ASSUME NEW o \in q.renameTable
        PROVE  o.from \notin q.dropTable
    <2>1. PICK t \in TableMoves(s, d) : o = [from |-> s.from[t], to |-> t]
      BY PlanFields, DiffFields
    <2>2. o.from = s.from[t] /\ o.from \notin s.tables
      BY <2>1, MoveFacts, DocumentFacts
    <2>3. ASSUME o.from \in Managed(r)
          PROVE  FALSE
      <3>1. PICK x \in d.cols : Target(s, d, x.t) = o.from
        BY <1>a, <2>3
      <3> QED  BY <2>1, <2>2, <3>1, TargetCases, MoveFacts
    <2>4. p.dropTable = Managed(r) \ s.tables
      BY DiffFields
    <2>5. \A t1 \in q.dropTable : t1 \in p.dropTable
      BY PlanFields
    <2> QED  BY <2>3, <2>4, <2>5
  <1>8. q.dropFK \cap q.replaced = {}
    <2> SUFFICES ASSUME NEW k, k \in q.dropFK, k \in q.replaced
                 PROVE  FALSE
      OBVIOUS
    <2>1. k \in p.dropFK /\ Readded(p, k)
      BY PlanFields
    <2>2. k.t \in s.tables
      BY <2>1, DiffFields
    <2>3. k.t \in q.dropTable
      BY <2>1, PlanFields DEF References
    <2>4. k.t \in p.dropTable
      <3>1. \A t1 \in q.dropTable : t1 \in p.dropTable
        BY PlanFields
      <3> QED  BY <2>3, <3>1
    <2> QED  BY <2>2, <2>4, DiffFields
  <1>9. ASSUME NEW t, <<t, "id">> \in keys
        PROVE  FALSE
    <2>1. <<t, "id">> \in {<<x.t, x.c>> : x \in p.dropColumn}
      BY <1>9 DEF Keys
    <2>2. \A x \in p.dropColumn : x.c # "id"
      BY DiffFields
    <2> HIDE DEF p
    <2> QED  BY <2>1, <2>2
  <1>10. ASSUME NEW k \in q.dropFK
         PROVE  k.ref \notin s.tables
    <2>1. k.ref \in q.dropTable
      BY PlanFields DEF References
    <2>2. k.ref \in p.dropTable
      <3>1. \A t1 \in q.dropTable : t1 \in p.dropTable
        BY PlanFields
      <3> QED  BY <2>1, <3>1
    <2> QED  BY <2>2, DiffFields
  <1> HIDE DEF q
  <1> QED  BY <1>1, <1>2, <1>3, <1>4, <1>5, <1>6, <1>7, <1>8, <1>9, <1>10 DEF Drawn, q

\* At the start every link and index has its own name.
LEMMA NowIsStart ==
    ASSUME NEW s, NEW d, Shaped(d), NEW p,
           \A t : NowTable(s, d, p, t) = t, \A t, c : NowColumn(s, d, p, t, c) = c
    PROVE  /\ \A j \in d.links : NowLink(s, d, p, j) = j
           /\ \A i \in d.idx : NowIndex(s, d, p, i) = i
  BY DEF Shaped, NowLink, NowIndex

\* What the plan drops or replaces is there.
LEMMA PlanIsInPlace ==
    ASSUME NEW s \in Documents, NEW d, NEW n, WellFormed(n, d), ~Ambiguous(s, d),
           NEW owned, NEW keys
    PROVE  /\ Backed(s, d, Plan(s, d, owned, keys), d)
           /\ InPlace(s, d, Plan(s, d, owned, keys), d)
  <1> DEFINE p == Diff(s, d)
             q == Plan(s, d, owned, keys)
             r == Resolved(s, d)
  <1>1. Shaped(d)
    BY DEF WellFormed
  <1>2. (\A t : NowTable(s, d, q, t) = t) /\ (\A t, c : NowColumn(s, d, q, t, c) = c)
    BY PlanRenamesNothingYet
  <1>3. /\ \A k \in q.dropFK : k \in r.links
        /\ \A k \in q.replaced : k \in r.links
    <2>1. \A k \in p.dropFK : k \in r.links
      BY DiffFields
    <2> QED  BY <2>1, PlanFields DEF References
  <1>4. ASSUME NEW x \in q.dropColumn
        PROVE  \E w \in d.cols : Target(s, d, w.t) = x.t /\ w.c = x.c
    <2>a. x \in p.dropColumn
      BY PlanFields
    <2>1. x \in r.cols
      BY <2>a, DiffFields
    <2> QED  BY <1>1, <2>1, ResolvedColumns
  <1>5. ASSUME NEW t \in q.dropTable
        PROVE  \E z \in d.cols : z.t = t
    <2>a. t \in p.dropTable
      BY PlanFields
    <2>1. t \in Managed(r) /\ t \notin s.tables
      BY <2>a, DiffFields
    <2> QED  BY <1>1, <2>1, ManagedFacts, TargetUndeclared
  <1> HIDE DEF q
  <1>6. /\ \A j \in d.links : NowLink(s, d, q, j) = j
        /\ \A i \in d.idx : NowIndex(s, d, q, i) = i
    BY <1>1, <1>2, NowIsStart
  <1>7. Backed(s, d, q, d)
    BY <1>2, <1>6 DEF Backed, BackedColumn, BackedLink, BackedIndex
  <1>8. \A k \in r.links : LinkInPlace(s, d, q, d, k)
    BY <1>1, <1>6, ResolvedForm DEF LinkInPlace
  <1>9. InPlace(s, d, q, d)
    BY <1>2, <1>3, <1>4, <1>5, <1>6, <1>8 DEF InPlace
  <1> QED  BY <1>7, <1>9 DEF q

\* A table is dropped after those that reference it, and those that reference each
\* other lose their links first.
LEMMA PlanReleases ==
    ASSUME NEW s \in Documents, NEW d, NEW n, WellFormed(n, d),
           NEW owned, NEW keys \in SUBSET Keys(Diff(s, d))
    PROVE  Released(s, d, owned, keys, Plan(s, d, owned, keys), d)
  <1> DEFINE p == Diff(s, d)
             q == Plan(s, d, owned, keys)
             r == Resolved(s, d).links
  <1> SUFFICES ASSUME NEW j \in d.links, Target(s, d, j.ref) \in q.dropTable,
                      Target(s, d, j.t) # Target(s, d, j.ref)
               PROVE  \/ NewLink(s, d, j) \in q.dropFK
                      \/ /\ Target(s, d, j.t) \in q.dropTable
                         /\ <<Target(s, d, j.t), Target(s, d, j.ref)>> \in q.before
                      \/ Holds(s, d, owned, keys, j)
    BY DEF Released
  <1> DEFINE k == NewLink(s, d, j)
             t == Target(s, d, j.ref)
             u == Target(s, d, j.t)
  <1>1. Shaped(d) /\ Attached(d)
    BY DEF WellFormed
  <1>2. t \in p.dropTable /\ <<t>> \in keys /\ t \notin s.tables /\ t \notin EngineTables
    <2>1. t \in p.dropTable /\ <<t>> \in keys
      BY PlanFields
    <2>2. t \in Managed(Resolved(s, d)) /\ t \notin s.tables
      BY <2>1, DiffFields
    <2> QED  BY <2>1, <2>2 DEF Managed
  <1>3. j.ref = t
    BY <1>2, TargetUndeclared
  <1>4. k \in r /\ k.t = u /\ k.ref = t /\ k.c = ColumnTarget(s, d, u, j.c)
    BY <1>1, ResolvedForm DEF NewLink
  <1>5. CASE u \in s.tables
    <2>1. PICK x \in d.cols : x.t = j.t
      BY <1>1 DEF Attached, SameColumn
    <2>2. u \in Managed(Resolved(s, d))
      BY <1>1, <1>5, <2>1, ManagedFacts
    <2>3. \A l \in s.links : ~SameLink(k, l)
      BY <1>2, <1>4, DocumentFacts DEF SameLink
    <2>4. k \in p.dropFK
      BY <1>4, <1>5, <2>2, <2>3, DiffFields
    <2>5. CASE Readded(p, k)
      <3>1. PICK a \in p.addFK : SameColumn(a, k)
        BY <2>5 DEF Readded
      <3>2. a \in s.links
        BY DiffFields
      <3> QED  BY <1>2, <1>3, <1>4, <3>1, <3>2 DEF Holds, SameColumn
    <2>6. CASE ~Readded(p, k)
      BY <1>4, <2>4, <2>6, PlanFields
    <2> QED  BY <2>5, <2>6
  <1>6. CASE u \notin s.tables /\ <<u>> \notin keys \cap owned
    BY <1>2, <1>3, <1>6 DEF Holds
  <1>7. CASE u \notin s.tables /\ <<u>> \in keys \cap owned
    <2>1. u \in p.dropTable
      <3>1. <<u>> \in Keys(p)
        BY <1>7
      <3> HIDE DEF p, u
      <3> QED  BY <3>1 DEF Keys
    <2>2. u \in q.dropTable
      BY <1>7, <2>1, PlanFields
    <2> HIDE DEF q, r, k
    <2>3. k \in References(q, r)
      BY <1>4, <2>2 DEF References
    <2>4. Reaches(q, r, u, t)
      BY <1>4, <2>3 DEF Reaches
    <2>5. CASE Reaches(q, r, t, u)
      <3>1. k \in q.dropFK
        BY <1>4, <2>3, <2>5, PlanFields DEF q, r
      <3> QED  BY <3>1 DEF k
    <2>6. CASE ~Reaches(q, r, t, u)
      <3>1. <<u, t>> \in Before(q, r)
        BY <2>2, <2>4, <2>6 DEF Before
      <3>2. q.before = Before(q, r)
        BY PlanFields DEF q, r
      <3> QED  BY <2>2, <3>1, <3>2
    <2> QED  BY <2>5, <2>6
  <1> QED  BY <1>5, <1>6, <1>7

\* What is declared is there, or the plan makes it.
LEMMA PlanSupplies ==
    ASSUME NEW s \in Documents, NEW d, NEW n, WellFormed(n, d), NEW owned, NEW keys, NEW h
    PROVE  Supplied(s, d, Plan(s, d, owned, keys), h, d)
  <1> DEFINE q == Plan(s, d, owned, keys)
             r == Resolved(s, d)
             matched == s.tables \cap Managed(r)
  <1>0. Shaped(d)
    BY DEF WellFormed
  <1>1. ASSUME NEW t \in s.tables
        PROVE  t \in q.createTable \/ \E x \in d.cols : Target(s, d, x.t) = t
    <2>1. t \notin q.createTable => t \in Managed(r)
      BY PlanFields, DiffFields
    <2> QED  BY <1>0, <2>1, ManagedFacts
  <1>2. ASSUME NEW y \in s.cols, NEW x \in d.cols, StandsFor(s, d, x, y), x.ty # y.ty
        PROVE  y \in q.alterColumn
    <2>1. PICK z \in r.cols : z = [t |-> Target(s, d, x.t), c |-> x.c, ty |-> x.ty, id |-> x.id]
      BY <1>0, ResolvedForm
    <2>2. z.t = y.t /\ z.c = OldName(s, d, y) /\ z.ty # y.ty
      BY <1>2, <2>1 DEF StandsFor
    <2>3. z.c # "id"
      BY <2>2, DocumentFacts DEF OldName
    <2>4. z.t \in matched
      BY <1>0, <1>2, <2>2, ManagedFacts, DocumentFacts DEF StandsFor
    <2> QED  BY <2>2, <2>3, <2>4, PlanFields, DiffFields
  <1>3. ASSUME NEW l \in s.links
        PROVE  l \in q.addIndex \/ \E i \in d.idx : Heads(s, d, i, l)
    <2>1. l \in q.addIndex \/ \E i \in r.idx : SameColumn(i, l)
      BY PlanFields, DiffFields
    <2> QED  BY <1>0, <2>1, ResolvedForm
  <1>4. ASSUME NEW l \in s.links
        PROVE  l \in q.addFK \/ \E j \in d.links : Follows(s, d, j, l)
    <2>1. l \in q.addFK \/ \E k \in r.links : SameLink(k, l)
      BY PlanFields, DiffFields
    <2> QED  BY <1>0, <2>1, ResolvedLinks
  <1> HIDE DEF q
  <1> QED  BY <1>1, <1>2, <1>3, <1>4 DEF Supplied, q

\* So a new plan is ready for the tables it was drawn for.
LEMMA PlanIsReady ==
    ASSUME NEW s \in Documents, NEW d, NEW n, WellFormed(n, d), ~Ambiguous(s, d),
           NEW owned, NEW keys \in SUBSET Keys(Diff(s, d)), NEW h
    PROVE  Ready(s, d, owned, keys, Plan(s, d, owned, keys), h, d)
  BY PlanIsDrawn, PlanIsInPlace, PlanReleases, PlanSupplies DEF Ready

-----------------------------------------------------------------------------
(***************************************************************************)
(* The renames find what they rename, and the new name free.               *)
(***************************************************************************)
\* Facts about the operations of a plan hold of what is left of it.
LEMMA DrawnShrinks ==
    ASSUME NEW s, NEW d, NEW keys, NEW p, NEW q, Drawn(s, d, keys, p),
           q.renameTable \subseteq p.renameTable, q.dropFK \subseteq p.dropFK,
           q.dropColumn \subseteq p.dropColumn, q.dropTable \subseteq p.dropTable,
           q.createTable \subseteq p.createTable, q.addColumn \subseteq p.addColumn,
           q.alterColumn \subseteq p.alterColumn, q.addIndex \subseteq p.addIndex,
           q.addFK \subseteq p.addFK, q.replaced = p.replaced
    PROVE  Drawn(s, d, keys, q)
  BY DEF Drawn

\* The old name of a table is still held, and the new one by no table yet.
LEMMA RenameTablePossible ==
    ASSUME NEW s \in Documents, NEW d, Columns(d), ~Ambiguous(s, d), NEW keys, NEW p, NEW n, NEW e,
           NEW owned, NEW h,
           Deploying(s, d, keys, p, n, e), Ready(s, d, owned, keys, p, h, e),
           NEW o \in p.renameTable
    PROVE  o.from \in TablesOf(e) /\ o.to \notin TablesOf(e)
  <1>1. PICK t0 \in TableMoves(s, d) : o = [from |-> s.from[t0], to |-> t0]
    BY DEF Deploying, Planned
  <1>2. /\ o.from = s.from[t0] /\ o.to = t0 /\ t0 \in s.tables
        /\ o.from \in TablesOf(d) /\ o.to \notin TablesOf(d) /\ Target(s, d, o.from) = o.to
    BY <1>1, MoveFacts, TargetOfMove
  <1>3. NowTable(s, d, p, o.from) = o.from
    BY DEF NowTable
  <1>4. o.from \in TablesOf(e)
    <2>1. PICK x \in d.cols : x.t = o.from /\ x.c = "id"
      BY <1>2 DEF Columns, TablesOf
    <2>2. <<o.to, "id">> \notin keys
      BY DEF Ready, Drawn
    <2>3. ~Forsaken(s, d, keys, x)
      BY <1>2, <2>1, <2>2 DEF Forsaken
    <2>4. \E z \in e.cols : z.t = o.from
      BY <1>3, <2>1, <2>3 DEF Deploying, Tracked
    <2> QED  BY <2>4 DEF TablesOf
  <1>5. ASSUME NEW z \in e.cols, z.t = o.to
        PROVE  FALSE
    <2>1. PICK x \in d.cols : z.t = NowTable(s, d, p, x.t)
      BY DEF Ready, Backed, BackedColumn, Settled
    <2>2. x.t \in TablesOf(d)
      BY DEF TablesOf
    <2>3. Target(s, d, x.t) = o.to
      BY <1>2, <1>5, <2>1, <2>2 DEF NowTable
    <2>4. x.t = o.from
      BY <1>2, <2>2, <2>3, TargetInjective
    <2> QED  BY <1>2, <1>3, <1>5, <2>1, <2>2, <2>4
  <1> QED  BY <1>4, <1>5 DEF TablesOf

\* The names after one more rename of a table, and of a column.
LEMMA NowTableStep ==
    ASSUME NEW s \in Documents, NEW d, ~Ambiguous(s, d), NEW keys, NEW p,
           Planned(s, d, keys, p), NEW o \in p.renameTable,
           NEW q, q.renameTable = p.renameTable \ {o}, q.renameColumn = p.renameColumn
    PROVE  /\ \A t : NowTable(s, d, q, t)
                     = IF NowTable(s, d, p, t) = o.from THEN o.to ELSE NowTable(s, d, p, t)
           /\ \A t, c : NowColumn(s, d, q, t, c) = NowColumn(s, d, p, t, c)
  <1>1. PICK t0 \in TableMoves(s, d) : o = [from |-> s.from[t0], to |-> t0]
    BY DEF Planned
  <1>2. /\ o.from = s.from[t0] /\ o.to = t0 /\ o.from \notin s.tables
        /\ Target(s, d, o.from) = o.to
    BY <1>1, MoveFacts, DocumentFacts, TargetOfMove
  <1>3. \A r \in p.renameTable : \E u \in TableMoves(s, d) : r = [from |-> s.from[u], to |-> u]
    BY DEF Planned
  <1>4. \A r \in q.renameTable : r.from # o.from
    BY <1>1, <1>3 DEF Ambiguous
  <1>5. ASSUME NEW t
        PROVE  NowTable(s, d, q, t)
               = IF NowTable(s, d, p, t) = o.from THEN o.to ELSE NowTable(s, d, p, t)
    <2>1. CASE t = o.from
      BY <1>2, <1>4, <2>1 DEF NowTable
    <2>2. CASE t # o.from
      <3>1. NowTable(s, d, q, t) = NowTable(s, d, p, t)
        BY <2>2 DEF NowTable
      <3>2. Target(s, d, t) # o.from
        BY <1>2, <2>2, TargetCases, MoveFacts
      <3> QED  BY <2>2, <3>1, <3>2 DEF NowTable
    <2> QED  BY <2>1, <2>2
  <1>6. \A t, c : NowColumn(s, d, q, t, c) = NowColumn(s, d, p, t, c)
    BY DEF NowColumn
  <1> QED  BY <1>5, <1>6

\* And of a column, when its rename runs.
LEMMA NowColumnStep ==
    ASSUME NEW s \in Documents, NEW d, ~Ambiguous(s, d), NEW keys, NEW p,
           Planned(s, d, keys, p), p.renameTable = {}, NEW o \in p.renameColumn,
           NEW q, q.renameTable = {}, q.renameColumn = p.renameColumn \ {o}
    PROVE  /\ \A t : NowTable(s, d, q, t) = NowTable(s, d, p, t)
           /\ \A t, c : NowColumn(s, d, q, t, c)
                        = After(o, NowTable(s, d, p, t), NowColumn(s, d, p, t, c))
  <1>1. PICK y0 \in ColumnMoves(s, d) : o = [t |-> y0.t, from |-> y0.from, to |-> y0.c]
    BY DEF Planned
  <1>2. /\ o.t = y0.t /\ o.from = y0.from /\ o.to = y0.c
        /\ \A y \in s.cols : y.t = o.t => y.c # o.from
        /\ ColumnTarget(s, d, o.t, o.from) = o.to
    BY <1>1, ColumnMoveFacts, DocumentFacts, ColumnTargetOfMove
  <1>3. \A r \in p.renameColumn :
           \E y \in ColumnMoves(s, d) : r = [t |-> y.t, from |-> y.from, to |-> y.c]
    BY DEF Planned
  <1>4. \A r \in q.renameColumn : ~(r.t = o.t /\ r.from = o.from)
    BY <1>1, <1>3 DEF Ambiguous
  <1>5. \A t : NowTable(s, d, q, t) = Target(s, d, t) /\ NowTable(s, d, p, t) = Target(s, d, t)
    BY NowRenamed
  <1>6. ASSUME NEW t, NEW c
        PROVE  NowColumn(s, d, q, t, c) = After(o, Target(s, d, t), NowColumn(s, d, p, t, c))
    <2>1. CASE Target(s, d, t) = o.t /\ c = o.from
      BY <1>2, <1>4, <2>1 DEF NowColumn, After
    <2>2. CASE ~(Target(s, d, t) = o.t /\ c = o.from)
      <3>1. NowColumn(s, d, q, t, c) = NowColumn(s, d, p, t, c)
        BY <2>2 DEF NowColumn
      <3>2. Target(s, d, t) = o.t => ColumnTarget(s, d, Target(s, d, t), c) # o.from
        BY <1>2, <2>2, ColumnTargetCases, ColumnMoveFacts
      <3> QED  BY <2>2, <3>1, <3>2 DEF NowColumn, After
    <2> QED  BY <2>1, <2>2
  <1> QED  BY <1>5, <1>6

\* The names in the tables f are those in e, one rename later: q is what is left
\* of the plan then, p what was left before.
NamesMoved(s, d, p, q, e, f) ==
    /\ \A z \in f.cols : \E x \in e.cols :
          /\ z.ty = x.ty
          /\ \A w \in d.cols : x.t = NowTable(s, d, p, w.t) => z.t = NowTable(s, d, q, w.t)
          /\ \A w \in d.cols : x.t = NowTable(s, d, p, w.t) /\ x.c = NowColumn(s, d, p, w.t, w.c)
                => z.c = NowColumn(s, d, q, w.t, w.c)
    /\ \A m \in f.links : \E l \in e.links : \A j \in d.links :
          l = NowLink(s, d, p, j) => m = NowLink(s, d, q, j)
    /\ \A i \in f.idx : \E k \in e.idx : \A j \in d.idx :
          k = NowIndex(s, d, p, j) => i = NowIndex(s, d, q, j)
    /\ \A j \in d.links : NowLink(s, d, p, j) \in e.links => NowLink(s, d, q, j) \in f.links
    /\ \A j \in d.idx : NowIndex(s, d, p, j) \in e.idx => NowIndex(s, d, q, j) \in f.idx

\* A rename leaves the rest of the plan as ready as it was.
LEMMA RenamedReady ==
    ASSUME NEW s, NEW d, NEW owned, NEW keys, NEW p, NEW h, NEW e, NEW q, NEW f,
           Ready(s, d, owned, keys, p, h, e), ~Settled(p), NamesMoved(s, d, p, q, e, f),
           p.renameTable # {} \/ p.renameColumn # {},
           Drawn(s, d, keys, q), q.dropFK = p.dropFK, q.dropColumn = p.dropColumn,
           q.dropTable = p.dropTable, q.createTable = p.createTable, q.addColumn = p.addColumn,
           q.alterColumn = p.alterColumn, q.addIndex = p.addIndex, q.addFK = p.addFK,
           q.before = p.before, q.replaced = p.replaced,
           \A x \in q.dropColumn : \A w \in d.cols : \A z \in e.cols :
              Target(s, d, w.t) = x.t /\ z.t = NowTable(s, d, p, w.t) /\ z.c = x.c =>
                 \E y \in f.cols : y.t = NowTable(s, d, q, w.t) /\ y.c = x.c,
           \A t \in q.dropTable : (\E z \in e.cols : z.t = t) => \E z \in f.cols : z.t = t
    PROVE  Ready(s, d, owned, keys, q, h, f)
  <1>1. Backed(s, d, q, f)
    <2>1. ASSUME NEW z \in f.cols
          PROVE  BackedColumn(s, d, q, z)
      <3>1. PICK x \in e.cols :
              /\ z.ty = x.ty
              /\ \A w \in d.cols : x.t = NowTable(s, d, p, w.t) => z.t = NowTable(s, d, q, w.t)
              /\ \A w \in d.cols : x.t = NowTable(s, d, p, w.t) /\ x.c = NowColumn(s, d, p, w.t, w.c)
                    => z.c = NowColumn(s, d, q, w.t, w.c)
        BY DEF NamesMoved
      <3>2. PICK w \in d.cols : /\ x.t = NowTable(s, d, p, w.t) /\ x.c = NowColumn(s, d, p, w.t, w.c)
                                /\ x.ty = w.ty
        BY DEF Ready, Backed, BackedColumn
      <3> QED  BY <3>1, <3>2 DEF BackedColumn
    <2>2. ASSUME NEW m \in f.links
          PROVE  BackedLink(s, d, q, m)
      BY DEF NamesMoved, Ready, Backed, BackedLink
    <2>3. ASSUME NEW i \in f.idx
          PROVE  BackedIndex(s, d, q, i)
      BY DEF NamesMoved, Ready, Backed, BackedIndex
    <2> QED  BY <2>1, <2>2, <2>3 DEF Backed
  <1>2. InPlace(s, d, q, f)
    <2>1. \A k : LinkInPlace(s, d, p, e, k) => LinkInPlace(s, d, q, f, k)
      BY DEF LinkInPlace, NamesMoved
    <2>2. InPlace(s, d, p, e)
      BY DEF Ready
    <2>3. ASSUME NEW x \in q.dropColumn
          PROVE  \E z \in f.cols : \E w \in d.cols :
                    Target(s, d, w.t) = x.t /\ z.t = NowTable(s, d, q, w.t) /\ z.c = x.c
      BY <2>2 DEF InPlace
    <2>4. \A t \in q.dropTable : \E z \in f.cols : z.t = t
      BY <2>2 DEF InPlace
    <2>5. \A i \in d.idx : \A l \in s.links : Heads(s, d, i, l) => NowIndex(s, d, q, i) \in f.idx
      BY <2>2 DEF InPlace, NamesMoved
    <2>6. /\ \A k \in q.dropFK : LinkInPlace(s, d, q, f, k)
          /\ \A k \in q.replaced : \A a \in q.addFK : SameColumn(a, k) => LinkInPlace(s, d, q, f, k)
      BY <2>1, <2>2 DEF InPlace
    <2> QED  BY <2>3, <2>4, <2>5, <2>6 DEF InPlace
  <1>3. Released(s, d, owned, keys, q, f)
    BY DEF Ready, Released
  <1>4. Supplied(s, d, q, h, f)
    BY DEF Ready, Supplied
  <1> QED  BY <1>1, <1>2, <1>3, <1>4 DEF Ready

\* A table renamed leaves the rest of the plan ready.
LEMMA RenameTableReady ==
    ASSUME NEW s \in Documents, NEW d, ~Ambiguous(s, d), NEW owned, NEW keys, NEW p, NEW h, NEW e,
           Planned(s, d, keys, p), Shaped(e), Ready(s, d, owned, keys, p, h, e),
           NEW o \in p.renameTable,
           NEW q, q = Ran(p, "renameTable", o),
           NEW f, f = TableRenamed(e, o)
    PROVE  Ready(s, d, owned, keys, q, h, f)
  <1> DEFINE M(t) == IF t = o.from THEN o.to ELSE t
             D(x) == [t |-> M(x.t), c |-> x.c, ty |-> x.ty, id |-> x.id]
             K(l) == [t |-> M(l.t), c |-> l.c, ref |-> M(l.ref), rc |-> l.rc, act |-> l.act,
                      sym |-> l.sym]
             J(i) == [name |-> i.name, t |-> M(i.t), c |-> i.c]
  <1>1. /\ f.cols = {D(x) : x \in e.cols} /\ f.links = {K(l) : l \in e.links}
        /\ f.idx = {J(i) : i \in e.idx}
    <2>1. f = [cols |-> {D(x) : x \in e.cols}, links |-> {K(l) : l \in e.links},
               idx |-> {J(i) : i \in e.idx}]
      BY TableRenamedForm, Zenon
    <2> HIDE DEF D, K, J
    <2> QED  BY <2>1
  <1>2. /\ q.renameTable = p.renameTable \ {o} /\ q.renameColumn = p.renameColumn
        /\ q.dropFK = p.dropFK /\ q.dropColumn = p.dropColumn /\ q.dropTable = p.dropTable
        /\ q.createTable = p.createTable /\ q.addColumn = p.addColumn
        /\ q.alterColumn = p.alterColumn /\ q.addIndex = p.addIndex /\ q.addFK = p.addFK
        /\ q.before = p.before /\ q.replaced = p.replaced
    BY DEF Planned, PlanShape, Ran
  <1>3. /\ \A t : NowTable(s, d, q, t) = M(NowTable(s, d, p, t))
        /\ \A t, c : NowColumn(s, d, q, t, c) = NowColumn(s, d, p, t, c)
    BY <1>2, NowTableStep
  <1>4. ~Settled(p) /\ Drawn(s, d, keys, q)
    BY <1>2, DrawnShrinks DEF Ready, Settled
  <1> HIDE DEF M
  <1>5. ASSUME NEW j
        PROVE  K(NowLink(s, d, p, j)) = NowLink(s, d, q, j)
    BY <1>3 DEF NowLink
  <1>6. ASSUME NEW j
        PROVE  J(NowIndex(s, d, p, j)) = NowIndex(s, d, q, j)
    BY <1>3 DEF NowIndex
  <1>7. \A x : D(x).t = M(x.t) /\ D(x).c = x.c /\ D(x).ty = x.ty
    OBVIOUS
  <1> HIDE DEF D, K, J
  <1>8. NamesMoved(s, d, p, q, e, f)
    BY <1>1, <1>3, <1>5, <1>6, <1>7 DEF NamesMoved
  <1>9. ASSUME NEW x \in q.dropColumn, NEW w \in d.cols, NEW z \in e.cols,
               Target(s, d, w.t) = x.t /\ z.t = NowTable(s, d, p, w.t) /\ z.c = x.c
        PROVE  \E y \in f.cols : y.t = NowTable(s, d, q, w.t) /\ y.c = x.c
    BY <1>1, <1>3, <1>7, <1>9
  <1>10. ASSUME NEW t \in q.dropTable, NEW z \in e.cols, z.t = t
         PROVE  \E y \in f.cols : y.t = t
    <2>1. M(z.t) = z.t
      BY <1>2, <1>10 DEF M, Ready, Drawn
    <2> QED  BY <1>1, <1>7, <1>10, <2>1
  <1> QED  BY <1>2, <1>4, <1>8, <1>9, <1>10, RenamedReady

\* The old name of a column is held, and the new one is free.
LEMMA RenameColumnPossible ==
    ASSUME NEW s \in Documents, NEW d, ~Ambiguous(s, d), NEW keys, NEW p, NEW n, NEW e,
           NEW owned, NEW h,
           Deploying(s, d, keys, p, n, e), Ready(s, d, owned, keys, p, h, e),
           p.renameTable = {}, NEW o \in p.renameColumn
    PROVE  Column(e, o.t, o.from) # {} /\ Column(e, o.t, o.to) = {}
  <1>1. PICK y0 \in ColumnMoves(s, d) : o = [t |-> y0.t, from |-> y0.from, to |-> y0.c]
    BY DEF Deploying, Planned
  <1>2. /\ o.t = y0.t /\ o.from = y0.from /\ o.to = y0.c /\ y0 \in s.cols /\ o.t \in s.tables
        /\ o.from # o.to /\ OldName(s, d, y0) = o.from
    BY <1>1, ColumnMoveFacts, DocumentFacts DEF OldName
  <1>3. \A t : NowTable(s, d, p, t) = Target(s, d, t)
    BY NowRenamed
  <1>4. Column(e, o.t, o.from) # {}
    <2>1. PICK x \in d.cols : x.t = Source(s, d, o.t) /\ x.c = o.from
      BY <1>1, <1>2, ColumnMoveFacts
    <2>2. Target(s, d, x.t) = o.t
      <3>1. CASE o.t \in TableMoves(s, d)
        BY <2>1, <3>1, MoveFacts, TargetOfMove
      <3>2. CASE o.t \notin TableMoves(s, d)
        <4>1. x.t = o.t
          BY <1>2, <2>1, <3>2 DEF TableMoves
        <4> QED  BY <1>2, <4>1, TargetStays
      <3> QED  BY <3>1, <3>2
    <2>3. ~Forsaken(s, d, keys, x)
      BY <1>2, <2>1, <2>2 DEF Forsaken
    <2>4. NowColumn(s, d, p, x.t, x.c) = o.from
      BY <2>1, <2>2 DEF NowColumn
    <2>5. \E z \in e.cols : z.t = o.t /\ z.c = o.from
      BY <1>3, <2>2, <2>3, <2>4 DEF Deploying, Tracked
    <2> QED  BY <2>5 DEF Column
  <1>5. ASSUME NEW z \in e.cols, z.t = o.t, z.c = o.to
        PROVE  FALSE
    <2>1. PICK x \in d.cols : z.t = NowTable(s, d, p, x.t) /\ z.c = NowColumn(s, d, p, x.t, x.c)
      BY DEF Ready, Backed, BackedColumn, Settled
    <2>2. Target(s, d, x.t) = o.t
      BY <1>3, <1>5, <2>1
    <2>3. x.c # o.to
      BY <1>1, <1>2, <2>2, MoveTargetFree
    <2>4. x.c # o.from
      BY <1>2, <1>5, <2>1, <2>2 DEF NowColumn
    <2>5. ColumnTarget(s, d, o.t, x.c) = o.to
      BY <1>5, <2>1, <2>2, <2>3 DEF NowColumn
    <2>6. x.c = OldName(s, d, y0)
      BY <1>2, <2>2, <2>5, NameLeadsBack
    <2> QED  BY <1>2, <2>4, <2>6
  <1> QED  BY <1>4, <1>5 DEF Column

\* A column renamed leaves the rest of the plan ready.
LEMMA RenameColumnReady ==
    ASSUME NEW s \in Documents, NEW d, ~Ambiguous(s, d), NEW owned, NEW keys, NEW p, NEW h, NEW e,
           Planned(s, d, keys, p), Shaped(e), Ready(s, d, owned, keys, p, h, e),
           p.renameTable = {}, NEW o \in p.renameColumn,
           NEW q, q = Ran(p, "renameColumn", o),
           NEW f, f = ColumnRenamed(e, o)
    PROVE  Ready(s, d, owned, keys, q, h, f)
  <1> DEFINE D(x) == [t |-> x.t, c |-> After(o, x.t, x.c), ty |-> x.ty, id |-> x.id]
             K(l) == [t |-> l.t, c |-> After(o, l.t, l.c), ref |-> l.ref,
                      rc |-> After(o, l.ref, l.rc), act |-> l.act, sym |-> l.sym]
             J(i) == [name |-> i.name, t |-> i.t, c |-> After(o, i.t, i.c)]
  <1>1. /\ f.cols = {D(x) : x \in e.cols} /\ f.links = {K(l) : l \in e.links}
        /\ f.idx = {J(i) : i \in e.idx}
    <2>1. f = [cols |-> {D(x) : x \in e.cols}, links |-> {K(l) : l \in e.links},
               idx |-> {J(i) : i \in e.idx}]
      BY ColumnRenamedForm
    <2> HIDE DEF D, K, J
    <2> QED  BY <2>1
  <1>2. /\ q.renameColumn = p.renameColumn \ {o} /\ q.renameTable = p.renameTable
        /\ q.dropFK = p.dropFK /\ q.dropColumn = p.dropColumn /\ q.dropTable = p.dropTable
        /\ q.createTable = p.createTable /\ q.addColumn = p.addColumn
        /\ q.alterColumn = p.alterColumn /\ q.addIndex = p.addIndex /\ q.addFK = p.addFK
        /\ q.before = p.before /\ q.replaced = p.replaced
    BY DEF Planned, PlanShape, Ran
  <1>3. /\ \A t : NowTable(s, d, q, t) = NowTable(s, d, p, t)
        /\ \A t, c : NowColumn(s, d, q, t, c)
                     = After(o, NowTable(s, d, p, t), NowColumn(s, d, p, t, c))
    BY <1>2, NowColumnStep
  <1>4. ~Settled(p) /\ Drawn(s, d, keys, q)
    BY <1>2, DrawnShrinks DEF Ready, Settled
  <1>5. ASSUME NEW j
        PROVE  K(NowLink(s, d, p, j)) = NowLink(s, d, q, j)
    BY <1>3 DEF NowLink
  <1>6. ASSUME NEW j
        PROVE  J(NowIndex(s, d, p, j)) = NowIndex(s, d, q, j)
    BY <1>3 DEF NowIndex
  <1>7. \A x : D(x).t = x.t /\ D(x).c = After(o, x.t, x.c) /\ D(x).ty = x.ty
    OBVIOUS
  <1> HIDE DEF D, K, J
  <1>8. NamesMoved(s, d, p, q, e, f)
    BY <1>1, <1>3, <1>5, <1>6, <1>7 DEF NamesMoved
  <1>9. ASSUME NEW x \in q.dropColumn, NEW w \in d.cols, NEW z \in e.cols,
               Target(s, d, w.t) = x.t /\ z.t = NowTable(s, d, p, w.t) /\ z.c = x.c
        PROVE  \E y \in f.cols : y.t = NowTable(s, d, q, w.t) /\ y.c = x.c
    <2>1. z.t = x.t
      BY <1>9, NowRenamed
    <2>2. PICK y0 \in ColumnMoves(s, d) : o = [t |-> y0.t, from |-> y0.from, to |-> y0.c]
      BY DEF Planned
    <2>3. \A y \in s.cols : y.t = x.t => OldName(s, d, y) # x.c
      BY <1>2 DEF Planned
    <2>4. After(o, z.t, z.c) = z.c
      BY <1>9, <2>1, <2>2, <2>3, ColumnMoveFacts DEF After, OldName
    <2> QED  BY <1>1, <1>3, <1>7, <1>9, <2>4
  <1>10. ASSUME NEW t \in q.dropTable, NEW z \in e.cols, z.t = t
         PROVE  \E y \in f.cols : y.t = t
    BY <1>1, <1>7, <1>10
  <1> QED  BY <1>2, <1>4, <1>8, <1>9, <1>10, RenamedReady

-----------------------------------------------------------------------------
(***************************************************************************)
(* The drops find what they drop, and drop nothing that is needed.         *)
(***************************************************************************)
\* After the renames, the names of now are the new ones.
LEMMA NowIsNew ==
    ASSUME NEW s, NEW d, NEW p, p.renameTable = {}, p.renameColumn = {}
    PROVE  /\ \A t : NowTable(s, d, p, t) = Target(s, d, t)
           /\ \A t, c : NowColumn(s, d, p, t, c) = ColumnTarget(s, d, Target(s, d, t), c)
           /\ \A j : NowLink(s, d, p, j) = EndLink(s, d, j)
           /\ \A i : NowIndex(s, d, p, i) = [name |-> i.name, t |-> Target(s, d, i.t),
                                             c |-> ColumnTarget(s, d, Target(s, d, i.t), i.c)]
  BY NowRenamed DEF NowLink, EndLink, NowIndex

\* The plan's name of a link differs in the referenced column at most, and that only
\* if the document declares the table.
LEMMA EndAndNew ==
    ASSUME NEW s \in Documents, NEW d, NEW j
    PROVE  /\ SameConstraint(NewLink(s, d, j), EndLink(s, d, j))
           /\ NewLink(s, d, j).ref = EndLink(s, d, j).ref
           /\ EndLink(s, d, j).ref \notin s.tables => EndLink(s, d, j) = NewLink(s, d, j)
  <1>1. \/ ColumnTarget(s, d, Target(s, d, j.ref), j.rc) = j.rc
        \/ Target(s, d, j.ref) \in s.tables
    BY ColumnTargetCases, ColumnMoveFacts, DocumentFacts
  <1> QED  BY <1>1 DEF NewLink, EndLink, SameConstraint, SameColumn

\* What is backed stays so while the rest of the plan gets smaller.
LEMMA BackedStays ==
    ASSUME NEW s, NEW d, NEW p, NEW q,
           p.renameTable = {}, p.renameColumn = {}, q.renameTable = {}, q.renameColumn = {},
           Settled(p) => Settled(q),
           q.createTable \subseteq p.createTable, q.addColumn \subseteq p.addColumn,
           q.addIndex \subseteq p.addIndex, q.addFK \subseteq p.addFK
    PROVE  /\ \A z : BackedColumn(s, d, p, z) => BackedColumn(s, d, q, z)
           /\ \A m : BackedLink(s, d, p, m) => BackedLink(s, d, q, m)
           /\ \A i : BackedIndex(s, d, p, i) => BackedIndex(s, d, q, i)
  <1>1. /\ \A t : NowTable(s, d, p, t) = NowTable(s, d, q, t)
        /\ \A t, c : NowColumn(s, d, p, t, c) = NowColumn(s, d, q, t, c)
    BY NowIsNew
  <1>2. ASSUME NEW z, BackedColumn(s, d, p, z)
        PROVE  BackedColumn(s, d, q, z)
    BY <1>1, <1>2 DEF BackedColumn
  <1>3. \A j : NowLink(s, d, p, j) = NowLink(s, d, q, j)
    BY <1>1 DEF NowLink
  <1>4. \A i : NowIndex(s, d, p, i) = NowIndex(s, d, q, i)
    BY <1>1 DEF NowIndex
  <1>5. ASSUME NEW m, BackedLink(s, d, p, m)
        PROVE  BackedLink(s, d, q, m)
    BY <1>3, <1>5 DEF BackedLink
  <1>6. ASSUME NEW i, BackedIndex(s, d, p, i)
        PROVE  BackedIndex(s, d, q, i)
    BY <1>4, <1>6 DEF BackedIndex
  <1> QED  BY <1>2, <1>5, <1>6

\* A constraint to drop exists, and no statement that is left needs it.
LEMMA DropForeignKeyReady ==
    ASSUME NEW s \in Documents, NEW d, NEW owned, NEW keys, NEW p, NEW h, NEW e,
           Planned(s, d, keys, p), Shaped(e), Ready(s, d, owned, keys, p, h, e),
           p.renameTable = {}, p.renameColumn = {}, NEW k \in p.dropFK,
           NEW q, q = Ran(p, "dropFK", k),
           NEW f, f = ForeignKeyDropped(e, k)
    PROVE  k \in e.links /\ Ready(s, d, owned, keys, q, h, f)
  <1>1. f.cols = e.cols /\ f.links = e.links \ {k} /\ f.idx = e.idx
    BY DEF Shaped, ForeignKeyDropped
  <1>2. /\ q.dropFK = p.dropFK \ {k}
        /\ q.renameTable = p.renameTable /\ q.renameColumn = p.renameColumn
        /\ q.dropColumn = p.dropColumn /\ q.dropTable = p.dropTable
        /\ q.createTable = p.createTable /\ q.addColumn = p.addColumn
        /\ q.alterColumn = p.alterColumn /\ q.addIndex = p.addIndex /\ q.addFK = p.addFK
        /\ q.before = p.before /\ q.replaced = p.replaced
    BY DEF Planned, PlanShape, Ran
  <1>3. /\ \A j : NowLink(s, d, p, j) = EndLink(s, d, j) /\ NowLink(s, d, q, j) = EndLink(s, d, j)
        /\ \A i : NowIndex(s, d, p, i) = NowIndex(s, d, q, i)
        /\ \A t : NowTable(s, d, p, t) = NowTable(s, d, q, t)
    BY <1>2, NowIsNew
  <1>a. k.ref \notin s.tables
    BY DEF Ready, Drawn
  <1>4. ASSUME NEW l, LinkInPlace(s, d, p, e, l), l # k
        PROVE  LinkInPlace(s, d, q, f, l)
    <2>1. PICK j \in d.links : l = NewLink(s, d, j) /\ EndLink(s, d, j) \in e.links
      BY <1>3, <1>4 DEF LinkInPlace
    <2>2. EndLink(s, d, j) # k
      BY <1>4, <1>a, <2>1, EndAndNew
    <2> QED  BY <1>1, <1>3, <2>1, <2>2 DEF LinkInPlace
  <1>5. k \in e.links
    <2>1. PICK j \in d.links : k = NewLink(s, d, j) /\ EndLink(s, d, j) \in e.links
      BY <1>3 DEF Ready, InPlace, LinkInPlace
    <2> QED  BY <1>a, <2>1, EndAndNew
  <1>6. Drawn(s, d, keys, q)
    BY <1>2, DrawnShrinks DEF Ready
  <1>7. Backed(s, d, q, f)
    <2>1. Settled(p) => Settled(q)
      BY <1>2 DEF Settled
    <2> QED  BY <1>1, <1>2, <2>1, BackedStays DEF Ready, Backed
  <1>8. InPlace(s, d, q, f)
    <2>1. InPlace(s, d, p, e) /\ p.dropFK \cap p.replaced = {}
      BY DEF Ready, Drawn
    <2>2. /\ \A l \in q.dropFK : LinkInPlace(s, d, q, f, l)
          /\ \A l \in q.replaced : \A a \in q.addFK : SameColumn(a, l) => LinkInPlace(s, d, q, f, l)
      BY <1>2, <1>4, <2>1 DEF InPlace
    <2> QED  BY <1>1, <1>2, <1>3, <2>1, <2>2 DEF InPlace
  <1>9. Released(s, d, owned, keys, q, f)
    <2>1. \A j \in d.links : Target(s, d, j.ref) \in p.dropTable /\ NewLink(s, d, j) = k
                             => EndLink(s, d, j) = k
      <3>1. \A u \in p.dropTable : u \notin s.tables
        BY DEF Planned
      <3>2. \A j : EndLink(s, d, j).ref = Target(s, d, j.ref)
        BY DEF EndLink
      <3> QED  BY <3>1, <3>2, EndAndNew
    <2> QED  BY <1>1, <1>2, <2>1 DEF Ready, Released
  <1>10. Supplied(s, d, q, h, f)
    <2>1. Settled(q) <=> Settled(p)
      BY <1>2 DEF Settled
    <2>2. ASSUME NEW l \in s.links, NEW m \in e.links, SameLink(m, l)
          PROVE  m \in f.links
      BY <1>1, <2>2 DEF Planned, SameLink
    <2> QED  BY <1>1, <1>2, <2>1, <2>2 DEF Ready, Supplied
  <1> QED  BY <1>5, <1>6, <1>7, <1>8, <1>9, <1>10 DEF Ready

\* A column to drop exists; the links and indexes that go with it are not declared.
LEMMA DropColumnReady ==
    ASSUME NEW s \in Documents, NEW d, NEW owned, NEW keys, NEW p, NEW h, NEW e,
           Planned(s, d, keys, p), Ready(s, d, owned, keys, p, h, e),
           p.renameTable = {}, p.renameColumn = {}, p.dropFK = {}, NEW o \in p.dropColumn,
           NEW q, q = Ran(p, "dropColumn", o),
           NEW f, f = ColumnDropped(e, o)
    PROVE  Column(e, o.t, o.c) # {} /\ Ready(s, d, owned, keys, q, h, f)
  <1>1. /\ f.cols = {y \in e.cols : ~SameColumn(o, y)}
        /\ f.links = {l \in e.links : ~SameColumn(o, l)}
        /\ f.idx = {i \in e.idx : ~SameColumn(o, i)}
    BY DEF ColumnDropped
  <1>2. /\ q.dropColumn = p.dropColumn \ {o}
        /\ q.renameTable = p.renameTable /\ q.renameColumn = p.renameColumn
        /\ q.dropFK = p.dropFK /\ q.dropTable = p.dropTable
        /\ q.createTable = p.createTable /\ q.addColumn = p.addColumn
        /\ q.alterColumn = p.alterColumn /\ q.addIndex = p.addIndex /\ q.addFK = p.addFK
        /\ q.before = p.before /\ q.replaced = p.replaced
    BY DEF Planned, PlanShape, Ran
  <1>3. /\ \A j : NowLink(s, d, p, j) = EndLink(s, d, j) /\ NowLink(s, d, q, j) = EndLink(s, d, j)
        /\ \A i : NowIndex(s, d, p, i) = NowIndex(s, d, q, i)
        /\ \A i : NowIndex(s, d, q, i) = [name |-> i.name, t |-> Target(s, d, i.t),
                                          c |-> ColumnTarget(s, d, Target(s, d, i.t), i.c)]
        /\ \A t : NowTable(s, d, p, t) = Target(s, d, t) /\ NowTable(s, d, q, t) = Target(s, d, t)
    BY <1>2, NowIsNew
  <1>4. o.t \in s.tables /\ \A l \in s.links : ~SameColumn(o, l)
    <2>1. o.t \in s.tables /\ \A y \in s.cols : y.t = o.t => y.c # o.c
      BY DEF Planned
    <2> QED  BY <2>1, DocumentFacts DEF SameColumn
  <1>5. ~Settled(p) /\ InPlace(s, d, p, e)
    BY DEF Settled, Ready
  <1>6. Column(e, o.t, o.c) # {}
    BY <1>3, <1>5 DEF InPlace, Column
  <1>7. Drawn(s, d, keys, q)
    BY <1>2, DrawnShrinks DEF Ready
  <1>8. Backed(s, d, q, f)
    BY <1>1, <1>2, <1>5, BackedStays DEF Ready, Backed
  <1>9. InPlace(s, d, q, f)
    <2>1. ASSUME NEW k \in q.replaced, NEW a \in q.addFK, SameColumn(a, k)
          PROVE  LinkInPlace(s, d, q, f, k)
      <3>1. PICK j \in d.links : k = NewLink(s, d, j) /\ EndLink(s, d, j) \in e.links
        BY <1>2, <1>3, <1>5, <2>1 DEF InPlace, LinkInPlace
      <3>2. a \in s.links
        BY <1>2 DEF Planned
      <3>3. ~SameColumn(o, EndLink(s, d, j))
        BY <1>4, <2>1, <3>1, <3>2, EndAndNew DEF SameConstraint, SameColumn
      <3> QED  BY <1>1, <1>3, <3>1, <3>3 DEF LinkInPlace
    <2>2. ASSUME NEW x \in q.dropColumn
          PROVE  \E z \in f.cols : \E w \in d.cols :
                    Target(s, d, w.t) = x.t /\ z.t = NowTable(s, d, q, w.t) /\ z.c = x.c
      <3>1. PICK z \in e.cols, w \in d.cols :
               Target(s, d, w.t) = x.t /\ z.t = NowTable(s, d, p, w.t) /\ z.c = x.c
        BY <1>2, <1>5 DEF InPlace
      <3>2. ~SameColumn(o, x)
        BY <1>2 DEF Ready, Drawn
      <3>3. z \in f.cols
        BY <1>1, <1>3, <3>1, <3>2 DEF SameColumn
      <3> QED  BY <1>3, <3>1, <3>3
    <2>3. ASSUME NEW t \in q.dropTable
          PROVE  \E z \in f.cols : z.t = t
      <3>1. PICK z \in e.cols : z.t = t
        BY <1>2, <1>5 DEF InPlace
      <3>2. t # o.t
        BY <1>2, <1>4 DEF Planned
      <3> QED  BY <1>1, <3>1, <3>2 DEF SameColumn
    <2>4. ASSUME NEW i \in d.idx, NEW l \in s.links, Heads(s, d, i, l)
          PROVE  NowIndex(s, d, q, i) \in f.idx
      <3>1. NowIndex(s, d, q, i) \in e.idx
        BY <1>3, <1>5, <2>4 DEF InPlace
      <3>2. NowIndex(s, d, q, i).t = l.t /\ NowIndex(s, d, q, i).c = l.c
        BY <1>3, <2>4 DEF Heads
      <3>3. ~SameColumn(o, NowIndex(s, d, q, i))
        BY <1>4, <3>2 DEF SameColumn
      <3> QED  BY <1>1, <3>1, <3>3
    <2> QED  BY <1>2, <2>1, <2>2, <2>3, <2>4 DEF InPlace
  <1>10. Released(s, d, owned, keys, q, f)
    BY <1>1, <1>2 DEF Ready, Released
  <1>11. Supplied(s, d, q, h, f)
    BY <1>2, <1>5 DEF Ready, Supplied
  <1> QED  BY <1>6, <1>7, <1>8, <1>9, <1>10, <1>11 DEF Ready

\* Another column that references it did so at the start.
LEMMA DropColumnPinned ==
    ASSUME NEW s \in Documents, NEW d, NEW owned, NEW keys, NEW p, NEW h, NEW e,
           Planned(s, d, keys, p), Ready(s, d, owned, keys, p, h, e),
           p.renameTable = {}, p.renameColumn = {}, NEW o \in p.dropColumn,
           NEW l \in e.links, l.ref = o.t, l.rc = o.c, ~SameColumn(o, l)
    PROVE  \E j \in d.links : Pins(s, d, keys, j)
  <1>1. PICK j \in d.links : l = EndLink(s, d, j)
    BY NowIsNew DEF Ready, Backed, BackedLink, Settled
  <1>2. /\ Target(s, d, j.ref) = o.t /\ ColumnTarget(s, d, o.t, j.rc) = o.c
        /\ l.t = Target(s, d, j.t) /\ l.c = ColumnTarget(s, d, Target(s, d, j.t), j.c)
    BY <1>1 DEF EndLink
  <1>3. <<o.t, o.c>> \in keys /\ \A y \in s.cols : y.t = o.t => y.c # o.c
    BY DEF Planned
  <1>4. j.rc = o.c
    BY <1>2, <1>3, ColumnTargetCases, ColumnMoveFacts
  <1>5. j.t = j.ref => j.c # j.rc
    BY <1>2, <1>4 DEF SameColumn
  <1> QED  BY <1>2, <1>3, <1>4, <1>5 DEF Pins

\* In its turn a table is there, and another that references it holds it.
LEMMA DropTablePossible ==
    ASSUME NEW s \in Documents, NEW d, NEW owned, NEW keys, NEW p, NEW h, NEW e,
           Ready(s, d, owned, keys, p, h, e),
           p.renameTable = {}, p.renameColumn = {}, p.dropFK = {}, NEW t \in p.dropTable,
           ~\E u \in p.dropTable : <<u, t>> \in p.before
    PROVE  /\ t \in TablesOf(e)
           /\ \A l \in e.links : l.ref = t /\ l.t # t => \E j \in d.links : Holds(s, d, owned, keys, j)
  <1>1. t \in TablesOf(e)
    BY DEF Ready, InPlace, TablesOf
  <1>2. ASSUME NEW l \in e.links, l.ref = t, l.t # t
        PROVE  \E j \in d.links : Holds(s, d, owned, keys, j)
    <2>1. PICK j \in d.links : l = EndLink(s, d, j)
      BY NowIsNew DEF Ready, Backed, BackedLink, Settled
    <2>2. Target(s, d, j.ref) = t /\ Target(s, d, j.t) = l.t
      BY <1>2, <2>1 DEF EndLink
    <2> QED  BY <1>2, <2>1, <2>2 DEF Ready, Released
  <1> QED  BY <1>1, <1>2

\* With a table goes nothing that is declared or that a drop is still to find.
LEMMA DropTableReady ==
    ASSUME NEW s \in Documents, NEW d, NEW owned, NEW keys, NEW p, NEW h, NEW e,
           Planned(s, d, keys, p), Ready(s, d, owned, keys, p, h, e),
           p.renameTable = {}, p.renameColumn = {}, p.dropFK = {}, p.dropColumn = {},
           NEW o \in p.dropTable,
           NEW q, q = Ran(p, "dropTable", o),
           NEW f, f = TableDropped(e, o)
    PROVE  Ready(s, d, owned, keys, q, h, f)
  <1>1. /\ f.cols = {x \in e.cols : x.t # o}
        /\ f.links = {l \in e.links : l.t # o}
        /\ f.idx = {i \in e.idx : i.t # o}
    BY DEF TableDropped
  <1>2. /\ q.dropTable = p.dropTable \ {o}
        /\ q.renameTable = p.renameTable /\ q.renameColumn = p.renameColumn
        /\ q.dropFK = p.dropFK /\ q.dropColumn = p.dropColumn
        /\ q.createTable = p.createTable /\ q.addColumn = p.addColumn
        /\ q.alterColumn = p.alterColumn /\ q.addIndex = p.addIndex /\ q.addFK = p.addFK
        /\ q.before = p.before /\ q.replaced = p.replaced
    BY DEF Planned, PlanShape, Ran
  <1>3. /\ \A j : NowLink(s, d, p, j) = EndLink(s, d, j) /\ NowLink(s, d, q, j) = EndLink(s, d, j)
        /\ \A i : NowIndex(s, d, p, i) = NowIndex(s, d, q, i)
        /\ \A i : NowIndex(s, d, q, i) = [name |-> i.name, t |-> Target(s, d, i.t),
                                          c |-> ColumnTarget(s, d, Target(s, d, i.t), i.c)]
    BY <1>2, NowIsNew
  <1>4. o \notin s.tables /\ \A l \in s.links : l.t # o
    <2>1. o \notin s.tables
      BY DEF Planned
    <2> QED  BY <2>1, DocumentFacts
  <1>5. ~Settled(p) /\ InPlace(s, d, p, e)
    BY DEF Settled, Ready
  <1>6. Drawn(s, d, keys, q)
    BY <1>2, DrawnShrinks DEF Ready
  <1>7. Backed(s, d, q, f)
    BY <1>1, <1>2, <1>5, BackedStays DEF Ready, Backed
  <1>8. InPlace(s, d, q, f)
    <2>1. ASSUME NEW k \in q.replaced, NEW a \in q.addFK, SameColumn(a, k)
          PROVE  LinkInPlace(s, d, q, f, k)
      <3>1. PICK j \in d.links : k = NewLink(s, d, j) /\ EndLink(s, d, j) \in e.links
        BY <1>2, <1>3, <1>5, <2>1 DEF InPlace, LinkInPlace
      <3>2. a \in s.links
        BY <1>2 DEF Planned
      <3>3. EndLink(s, d, j).t # o
        BY <1>4, <2>1, <3>1, <3>2, EndAndNew DEF SameConstraint, SameColumn
      <3> QED  BY <1>1, <1>3, <3>1, <3>3 DEF LinkInPlace
    <2>2. ASSUME NEW t \in q.dropTable
          PROVE  \E z \in f.cols : z.t = t
      BY <1>1, <1>2, <1>5 DEF InPlace
    <2>3. ASSUME NEW i \in d.idx, NEW l \in s.links, Heads(s, d, i, l)
          PROVE  NowIndex(s, d, q, i) \in f.idx
      <3>1. NowIndex(s, d, q, i) \in e.idx
        BY <1>3, <1>5, <2>3 DEF InPlace
      <3>2. NowIndex(s, d, q, i).t = l.t
        BY <1>3, <2>3 DEF Heads
      <3> QED  BY <1>1, <1>4, <3>1, <3>2
    <2> QED  BY <1>2, <2>1, <2>2, <2>3 DEF InPlace
  <1>9. Released(s, d, owned, keys, q, f)
    <2> SUFFICES ASSUME NEW j \in d.links, Target(s, d, j.ref) \in q.dropTable,
                        Target(s, d, j.t) # Target(s, d, j.ref)
                 PROVE  \/ NewLink(s, d, j) \in q.dropFK
                        \/ EndLink(s, d, j) \notin f.links
                        \/ /\ Target(s, d, j.t) \in q.dropTable
                           /\ <<Target(s, d, j.t), Target(s, d, j.ref)>> \in q.before
                        \/ Holds(s, d, owned, keys, j)
      BY <1>2 DEF Released
    <2>1. \/ NewLink(s, d, j) \in p.dropFK
          \/ EndLink(s, d, j) \notin e.links
          \/ /\ Target(s, d, j.t) \in p.dropTable
             /\ <<Target(s, d, j.t), Target(s, d, j.ref)>> \in p.before
          \/ Holds(s, d, owned, keys, j)
      BY <1>2 DEF Ready, Released
    <2>2. EndLink(s, d, j).t = Target(s, d, j.t)
      BY DEF EndLink
    <2> QED  BY <1>1, <1>2, <2>1, <2>2
  <1>10. Supplied(s, d, q, h, f)
    BY <1>2, <1>5 DEF Ready, Supplied
  <1> QED  BY <1>6, <1>7, <1>8, <1>9, <1>10 DEF Ready

-----------------------------------------------------------------------------
(***************************************************************************)
(* What is added finds its place free, and stays.                          *)
(***************************************************************************)
\* Plan q is what is left of plan p when nothing is any longer to be dropped.
Rest(p, q) ==
    /\ Settled(p) /\ Settled(q) /\ p.dropFK = {} /\ q.dropFK = {} /\ q.replaced = p.replaced
    /\ q.createTable \subseteq p.createTable /\ q.addColumn \subseteq p.addColumn
    /\ q.alterColumn \subseteq p.alterColumn /\ q.addIndex \subseteq p.addIndex
    /\ q.addFK \subseteq p.addFK

\* What the tables f have over e is declared, and it is what q lacks over p.
GrowsBacked(s, d, q, e, f) ==
    /\ \A z \in f.cols : z \in e.cols \/ BackedColumn(s, d, q, z)
    /\ \A m \in f.links : m \in e.links \/ BackedLink(s, d, q, m)
    /\ \A i \in f.idx : i \in e.idx \/ BackedIndex(s, d, q, i)

GrowsInPlace(q, e, f) ==
    /\ \A i \in e.idx : i \in f.idx
    /\ \A m \in e.links : m \in f.links \/ \A a \in q.addFK : ~SameColumn(a, m)

GrowsSupplied(s, d, p, e, q, g, f) ==
    /\ \A t \in p.createTable : t \in q.createTable \/ \E z \in f.cols : z.t = t
    /\ \A z \in e.cols : \E x \in f.cols : x.t = z.t
    /\ \A y \in p.alterColumn : y \in q.alterColumn \/ \E z \in f.cols : SameColumn(y, z) /\ z.ty = y.ty
    /\ \A y \in s.cols : (\E z \in e.cols : SameColumn(y, z) /\ z.ty = y.ty)
                          => \E z \in f.cols : SameColumn(y, z) /\ z.ty = y.ty
    /\ \A l \in p.addIndex : l \in q.addIndex \/ \E i \in f.idx : SameColumn(i, l)
    /\ \A l \in p.addFK : \/ g \/ l \in q.addFK \/ Taken(s, d, l)
                          \/ \E m \in f.links : SameLink(m, l)
    /\ \A l \in s.links : (\E m \in e.links : SameLink(m, l)) => \E m \in f.links : SameLink(m, l)

\* The rest q of the plan is ready for the tables f when it was for e, and f has
\* more of what is declared.
LEMMA AddedReady ==
    ASSUME NEW s \in Documents, NEW d, NEW owned, NEW keys, NEW p, NEW h, NEW e, NEW q, NEW g, NEW f,
           Ready(s, d, owned, keys, p, h, e), h => g, Rest(p, q),
           GrowsBacked(s, d, q, e, f), GrowsInPlace(q, e, f), GrowsSupplied(s, d, p, e, q, g, f)
    PROVE  Ready(s, d, owned, keys, q, g, f)
  <1>1. /\ Settled(q)
        /\ q.renameTable = {} /\ q.renameColumn = {} /\ q.dropFK = {} /\ q.dropColumn = {} /\ q.dropTable = {}
        /\ p.renameTable = {} /\ p.renameColumn = {}
    BY DEF Settled, Rest
  <1>2. Drawn(s, d, keys, q)
    <2>1. /\ q.renameTable \subseteq p.renameTable /\ q.dropFK \subseteq p.dropFK
          /\ q.dropColumn \subseteq p.dropColumn /\ q.dropTable \subseteq p.dropTable
      BY <1>1
    <2> QED  BY <2>1, DrawnShrinks DEF Ready, Rest
  <1>3. Backed(s, d, q, f)
    <2>1. /\ \A z : BackedColumn(s, d, p, z) => BackedColumn(s, d, q, z)
          /\ \A m : BackedLink(s, d, p, m) => BackedLink(s, d, q, m)
          /\ \A i : BackedIndex(s, d, p, i) => BackedIndex(s, d, q, i)
      BY <1>1, BackedStays DEF Rest
    <2> QED  BY <2>1 DEF Ready, Backed, GrowsBacked
  <1>4. InPlace(s, d, q, f)
    <2>1. /\ \A j : NowLink(s, d, p, j) = EndLink(s, d, j) /\ NowLink(s, d, q, j) = EndLink(s, d, j)
          /\ \A i : NowIndex(s, d, p, i) = NowIndex(s, d, q, i)
      BY <1>1, NowIsNew
    <2>2. InPlace(s, d, p, e)
      BY DEF Ready
    <2>3. ASSUME NEW k \in q.replaced, NEW a \in q.addFK, SameColumn(a, k)
          PROVE  LinkInPlace(s, d, q, f, k)
      <3>1. PICK j \in d.links : k = NewLink(s, d, j) /\ EndLink(s, d, j) \in e.links
        BY <2>1, <2>2, <2>3 DEF InPlace, LinkInPlace, Rest
      <3>2. SameColumn(a, EndLink(s, d, j))
        BY <2>3, <3>1, EndAndNew DEF SameConstraint, SameColumn
      <3> QED  BY <2>1, <3>1, <3>2 DEF LinkInPlace, GrowsInPlace
    <2>4. \A i \in d.idx : \A l \in s.links : Heads(s, d, i, l) => NowIndex(s, d, q, i) \in f.idx
      BY <2>1, <2>2 DEF InPlace, GrowsInPlace
    <2> QED  BY <1>1, <2>3, <2>4 DEF InPlace
  <1>5. Released(s, d, owned, keys, q, f)
    BY <1>1 DEF Released
  <1>6. Supplied(s, d, q, g, f)
    <2>1. Supplied(s, d, p, h, e)
      BY DEF Ready
    <2>2. ASSUME NEW t \in s.tables
          PROVE  t \in q.createTable \/ (\E x \in d.cols : Target(s, d, x.t) = t) \/ \E z \in f.cols : z.t = t
      BY <2>1 DEF Supplied, GrowsSupplied
    <2>3. ASSUME NEW y \in s.cols, NEW x \in d.cols, StandsFor(s, d, x, y) /\ x.ty # y.ty
          PROVE  y \in q.alterColumn \/ \E z \in f.cols : SameColumn(y, z) /\ z.ty = y.ty
      BY <2>1, <2>3 DEF Supplied, GrowsSupplied
    <2>4. ASSUME NEW l \in s.links
          PROVE  \/ l \in q.addIndex \/ \E i \in d.idx : Heads(s, d, i, l)
                 \/ \E i \in f.idx : SameColumn(i, l)
      BY <2>1 DEF Supplied, GrowsSupplied, GrowsInPlace
    <2>5. ASSUME NEW l \in s.links
          PROVE  \/ g \/ l \in q.addFK \/ \E j \in d.links : Follows(s, d, j, l)
                 \/ \E m \in f.links : SameLink(m, l)
                 \/ Taken(s, d, l)
      BY <2>1 DEF Supplied, GrowsSupplied
    <2> QED  BY <1>1, <2>2, <2>3, <2>4, <2>5 DEF Supplied
  <1> QED  BY <1>2, <1>3, <1>4, <1>5, <1>6 DEF Ready

\* No table stands in the place of a new one.
LEMMA CreateTableReady ==
    ASSUME NEW s \in Documents, NEW d, NEW owned, NEW keys, NEW p, NEW h, NEW e, NEW n,
           Planned(s, d, keys, p), Shaped(e), Ready(s, d, owned, keys, p, h, e),
           Settled(p), p.dropFK = {}, NEW t \in p.createTable,
           NEW q, q = Ran(p, "createTable", t),
           NEW f, f = Extended(e, {Made(n, t, "id", 1)}
                                  \cup {Made(n, t, y.c, y.ty) : y \in {y \in s.cols : y.t = t}})
    PROVE  t \notin TablesOf(e) /\ Ready(s, d, owned, keys, q, h, f)
  <1> DEFINE new == {Made(n, t, "id", 1)} \cup {Made(n, t, y.c, y.ty) : y \in {y \in s.cols : y.t = t}}
  <1>1. f.cols = e.cols \cup new /\ f.links = e.links /\ f.idx = e.idx
    BY DEF Shaped, Extended
  <1>2. /\ q.createTable = p.createTable \ {t}
        /\ q.renameTable = p.renameTable /\ q.renameColumn = p.renameColumn
        /\ q.dropFK = p.dropFK /\ q.dropColumn = p.dropColumn /\ q.dropTable = p.dropTable
        /\ q.addColumn = p.addColumn
        /\ q.alterColumn = p.alterColumn /\ q.addIndex = p.addIndex /\ q.addFK = p.addFK
        /\ q.replaced = p.replaced
    BY DEF Planned, PlanShape, Ran
  <1>3. t \in s.tables /\ Drawn(s, d, keys, p)
    BY DEF Planned, Ready
  <1>4. ASSUME NEW z \in e.cols, z.t = t
        PROVE  FALSE
    <2>1. BackedColumn(s, d, p, z)
      BY DEF Ready, Backed
    <2>2. \A x \in d.cols : NowTable(s, d, p, x.t) # t
      BY <1>3, NowRenamed DEF Settled, Drawn
    <2> QED  BY <1>4, <2>1, <2>2 DEF BackedColumn
  <1>5. \A y \in p.addColumn : y.t # t
    BY <1>3 DEF Drawn
  <1>6. ASSUME NEW z \in new
        PROVE  /\ z.t = t
               /\ z.c = "id" \/ \E y \in s.cols : y.t = t /\ z.c = y.c /\ z.ty = y.ty
    BY DEF Made
  <1>7. \E z \in new : z.t = t
    <2>1. Made(n, t, "id", 1) \in new /\ Made(n, t, "id", 1).t = t
      BY DEF Made
    <2> HIDE DEF new
    <2> QED  BY <2>1
  <1> HIDE DEF new
  <1>8. ASSUME NEW z \in new
        PROVE  BackedColumn(s, d, q, z)
    <2>1. Settled(q) /\ t \notin q.createTable
      BY <1>2 DEF Settled
    <2> QED  BY <1>2, <1>3, <1>5, <1>6, <2>1 DEF BackedColumn, SameColumn
  <1>9. Ready(s, d, owned, keys, q, h, f)
    <2>1. Rest(p, q)
      BY <1>2 DEF Rest, Settled
    <2>2. GrowsBacked(s, d, q, e, f)
      BY <1>1, <1>2, <1>7, <1>8 DEF GrowsBacked
    <2>3. GrowsInPlace(q, e, f)
      BY <1>1 DEF GrowsInPlace
    <2>4. GrowsSupplied(s, d, p, e, q, h, f)
      BY <1>1, <1>2, <1>7, <1>8 DEF GrowsSupplied
    <2> QED  BY <2>1, <2>2, <2>3, <2>4, AddedReady
  <1> QED  BY <1>4, <1>9 DEF TablesOf

\* A live table that a declared one stands for is still there.
LEMMA MatchedTableExists ==
    ASSUME NEW s \in Documents, NEW d, Columns(d), NEW owned, NEW keys, NEW p, NEW h, NEW n, NEW e,
           Deploying(s, d, keys, p, n, e), Ready(s, d, owned, keys, p, h, e),
           p.renameTable = {}, NEW x \in d.cols, Target(s, d, x.t) \in s.tables
    PROVE  Target(s, d, x.t) \in TablesOf(e)
  <1>1. PICK z \in d.cols : z.t = x.t /\ z.c = "id"
    BY DEF Columns
  <1>2. <<Target(s, d, x.t), "id">> \notin keys
    BY DEF Ready, Drawn
  <1>3. ~Forsaken(s, d, keys, z)
    BY <1>1, <1>2 DEF Forsaken
  <1>4. \E w \in e.cols : w.t = NowTable(s, d, p, z.t)
    BY <1>3 DEF Deploying, Tracked
  <1> QED  BY <1>1, <1>4, NowRenamed DEF TablesOf

\* A new column finds its table, and its name free.
LEMMA AddColumnReady ==
    ASSUME NEW s \in Documents, NEW d, Columns(d), NEW owned, NEW keys, NEW p, NEW h, NEW e, NEW n,
           Deploying(s, d, keys, p, n, e), Shaped(e), Ready(s, d, owned, keys, p, h, e),
           Settled(p), p.dropFK = {}, p.createTable = {}, NEW y \in p.addColumn,
           NEW q, q = Ran(p, "addColumn", y),
           NEW f, f = Extended(e, {Made(n, y.t, y.c, y.ty)})
    PROVE  /\ y.t \in TablesOf(e) /\ Column(e, y.t, y.c) = {}
           /\ Ready(s, d, owned, keys, q, h, f)
  <1> DEFINE new == Made(n, y.t, y.c, y.ty)
  <1>1. f.cols = e.cols \cup {new} /\ f.links = e.links /\ f.idx = e.idx
    BY DEF Shaped, Extended
  <1>2. /\ q.addColumn = p.addColumn \ {y}
        /\ q.renameTable = p.renameTable /\ q.renameColumn = p.renameColumn
        /\ q.dropFK = p.dropFK /\ q.dropColumn = p.dropColumn /\ q.dropTable = p.dropTable
        /\ q.createTable = p.createTable
        /\ q.alterColumn = p.alterColumn /\ q.addIndex = p.addIndex /\ q.addFK = p.addFK
        /\ q.replaced = p.replaced
    BY DEF Deploying, Planned, PlanShape, Ran
  <1>3. y \in s.cols /\ y.t \in s.tables /\ y.c # "id" /\ Drawn(s, d, keys, p)
    <2>1. y \in s.cols /\ Drawn(s, d, keys, p)
      BY DEF Deploying, Planned, Ready
    <2> QED  BY <2>1, DocumentFacts
  <1>4. p.renameTable = {} /\ p.renameColumn = {}
    BY DEF Settled
  <1>5. y.t \in TablesOf(e)
    <2>1. PICK x \in d.cols : Target(s, d, x.t) = y.t
      BY <1>3 DEF Drawn
    <2> QED  BY <1>3, <1>4, <2>1, MatchedTableExists
  <1>6. ASSUME NEW z \in e.cols, z.t = y.t, z.c = y.c
        PROVE  FALSE
    <2>1. BackedColumn(s, d, p, z)
      BY DEF Ready, Backed
    <2>2. ASSUME NEW x \in d.cols, z.t = NowTable(s, d, p, x.t), z.c = NowColumn(s, d, p, x.t, x.c)
          PROVE  FALSE
      <3>1. Target(s, d, x.t) = y.t /\ ColumnTarget(s, d, y.t, x.c) = y.c
        BY <1>4, <1>6, <2>2, NowRenamed
      <3>2. x.c = OldName(s, d, y)
        BY <1>3, <3>1, NameLeadsBack
      <3> QED  BY <1>3, <3>1, <3>2 DEF Drawn, StandsFor
    <2>3. ASSUME NEW w \in s.cols, w \notin p.addColumn, SameColumn(w, z)
          PROVE  FALSE
      BY <1>3, <1>6, <2>3, DocumentFacts DEF SameColumn
    <2> QED  BY <1>3, <1>6, <2>1, <2>2, <2>3 DEF BackedColumn
  <1>7. new.t = y.t /\ new.c = y.c /\ new.ty = y.ty
    BY DEF Made
  <1> HIDE DEF new
  <1>8. BackedColumn(s, d, q, new)
    <2>1. Settled(q)
      BY <1>2 DEF Settled
    <2> QED  BY <1>2, <1>3, <1>7, <2>1 DEF BackedColumn, SameColumn
  <1>9. Ready(s, d, owned, keys, q, h, f)
    <2>1. Rest(p, q)
      BY <1>2 DEF Rest, Settled
    <2>2. GrowsBacked(s, d, q, e, f)
      BY <1>1, <1>2, <1>8 DEF GrowsBacked
    <2>3. GrowsInPlace(q, e, f)
      BY <1>1 DEF GrowsInPlace
    <2>4. GrowsSupplied(s, d, p, e, q, h, f)
      BY <1>1, <1>2, <1>8 DEF GrowsSupplied
    <2> QED  BY <2>1, <2>2, <2>3, <2>4, AddedReady
  <1> QED  BY <1>5, <1>6, <1>9 DEF Column

\* A column of another type, field by field.
LEMMA AlteredForm ==
    ASSUME NEW e, Shaped(e), NEW y
    PROVE  /\ Altered(e, y).cols
              = {[t |-> x.t, c |-> x.c, ty |-> IF SameColumn(x, y) THEN y.ty ELSE x.ty, id |-> x.id]
                  : x \in e.cols}
           /\ Altered(e, y).links = e.links /\ Altered(e, y).idx = e.idx
  <1> DEFINE D(x) == [t |-> x.t, c |-> x.c, ty |-> IF SameColumn(x, y) THEN y.ty ELSE x.ty,
                      id |-> x.id]
             A(x) == IF SameColumn(x, y) THEN [x EXCEPT !.ty = y.ty] ELSE x
  <1>1. ASSUME NEW x \in e.cols
        PROVE  A(x) = D(x)
    <2>1. x = [t |-> x.t, c |-> x.c, ty |-> x.ty, id |-> x.id]
      BY DEF Shaped
    <2> QED  BY <2>1
  <1>2. /\ Altered(e, y).cols = {A(x) : x \in e.cols}
        /\ Altered(e, y).links = e.links /\ Altered(e, y).idx = e.idx
    BY DEF Shaped, Altered
  <1> HIDE DEF A, D
  <1>3. {A(x) : x \in e.cols} = {D(x) : x \in e.cols}
    BY <1>1
  <1> QED  BY <1>2, <1>3 DEF D

\* A column to alter exists, and has then the declared type.
LEMMA AlterColumnReady ==
    ASSUME NEW s \in Documents, NEW d, ~Ambiguous(s, d), NEW owned, NEW keys, NEW p, NEW h, NEW e, NEW n,
           Deploying(s, d, keys, p, n, e), Shaped(e), Ready(s, d, owned, keys, p, h, e),
           Settled(p), p.dropFK = {}, NEW y \in p.alterColumn,
           NEW q, q = Ran(p, "alterColumn", y),
           NEW f, f = Altered(e, y)
    PROVE  Column(e, y.t, y.c) # {} /\ Ready(s, d, owned, keys, q, h, f)
  <1> DEFINE D(x) == [t |-> x.t, c |-> x.c, ty |-> IF SameColumn(x, y) THEN y.ty ELSE x.ty,
                      id |-> x.id]
  <1>1. f.cols = {D(x) : x \in e.cols} /\ f.links = e.links /\ f.idx = e.idx
    BY AlteredForm
  <1>2. /\ q.alterColumn = p.alterColumn \ {y}
        /\ q.renameTable = p.renameTable /\ q.renameColumn = p.renameColumn
        /\ q.dropFK = p.dropFK /\ q.dropColumn = p.dropColumn /\ q.dropTable = p.dropTable
        /\ q.createTable = p.createTable /\ q.addColumn = p.addColumn
        /\ q.addIndex = p.addIndex /\ q.addFK = p.addFK
        /\ q.replaced = p.replaced
    BY DEF Deploying, Planned, PlanShape, Ran
  <1>3. \A x : /\ D(x).t = x.t /\ D(x).c = x.c
               /\ SameColumn(x, y) => D(x).ty = y.ty
               /\ ~SameColumn(x, y) => D(x).ty = x.ty
    OBVIOUS
  <1> HIDE DEF D
  <1>4. y \in s.cols
    BY DEF Deploying, Planned
  <1>5. PICK x0 \in e.cols : x0.t = y.t /\ x0.c = y.c
    <2>1. PICK x \in d.cols : StandsFor(s, d, x, y)
      BY DEF Ready, Drawn
    <2>2. ~Forsaken(s, d, keys, x)
      BY <1>4, <2>1, DocumentFacts DEF Forsaken, StandsFor
    <2>3. PICK z \in e.cols : z.t = NowTable(s, d, p, x.t) /\ z.c = NowColumn(s, d, p, x.t, x.c)
      BY <2>2 DEF Deploying, Tracked
    <2>4. z.t = y.t /\ z.c = ColumnTarget(s, d, y.t, OldName(s, d, y))
      BY <2>1, <2>3, NowRenamed DEF Settled, StandsFor
    <2> QED  BY <1>4, <2>4, ColumnTargetOldName
  <1>6. ASSUME NEW z \in f.cols
        PROVE  BackedColumn(s, d, q, z)
    <2>1. PICK x \in e.cols : z = D(x)
      BY <1>1
    <2>2. BackedColumn(s, d, q, x)
      <3>1. Settled(q) /\ p.renameTable = {} /\ p.renameColumn = {}
        BY <1>2 DEF Settled
      <3> QED  BY <1>2, <3>1, BackedStays DEF Ready, Backed
    <2>3. Settled(q)
      BY <1>2 DEF Settled
    <2>4. z.t = x.t /\ z.c = x.c
      BY <1>3, <2>1
    <2>5. CASE SameColumn(x, y)
      <3>1. SameColumn(y, z) /\ z.ty = y.ty
        BY <1>3, <2>1, <2>5 DEF SameColumn
      <3>2. \A w \in s.cols : SameColumn(w, x) => w = y
        BY <1>4, <2>5, DocumentFacts DEF SameColumn
      <3> QED  BY <1>4, <2>2, <2>3, <2>4, <3>1, <3>2 DEF BackedColumn
    <2>6. CASE ~SameColumn(x, y)
      <3>1. z.ty = x.ty
        BY <1>3, <2>1, <2>6
      <3> QED  BY <2>2, <2>4, <3>1 DEF BackedColumn, SameColumn
    <2> QED  BY <2>5, <2>6
  <1>7. \A x \in e.cols : D(x) \in f.cols
    BY <1>1
  <1>8. \E z \in f.cols : SameColumn(y, z) /\ z.ty = y.ty
    BY <1>3, <1>5, <1>7 DEF SameColumn
  <1>9. ASSUME NEW w \in s.cols, NEW x \in e.cols, SameColumn(w, x), x.ty = w.ty
        PROVE  \E z \in f.cols : SameColumn(w, z) /\ z.ty = w.ty
    <2>1. CASE SameColumn(x, y)
      <3>1. w = y
        BY <1>4, <1>9, <2>1, DocumentFacts DEF SameColumn
      <3> QED  BY <1>8, <3>1
    <2>2. CASE ~SameColumn(x, y)
      BY <1>3, <1>7, <1>9, <2>2 DEF SameColumn
    <2> QED  BY <2>1, <2>2
  <1>10. \A x \in e.cols : \E z \in f.cols : z.t = x.t
    BY <1>3, <1>7
  <1>11. Ready(s, d, owned, keys, q, h, f)
    <2>1. Rest(p, q)
      BY <1>2 DEF Rest, Settled
    <2>2. GrowsBacked(s, d, q, e, f)
      BY <1>1, <1>2, <1>6, <1>8, <1>9, <1>10 DEF GrowsBacked
    <2>3. GrowsInPlace(q, e, f)
      BY <1>1 DEF GrowsInPlace
    <2>4. GrowsSupplied(s, d, p, e, q, h, f)
      BY <1>1, <1>2, <1>6, <1>8, <1>9, <1>10 DEF GrowsSupplied
    <2> QED  BY <2>1, <2>2, <2>3, <2>4, AddedReady
  <1> QED  BY <1>5, <1>11 DEF Column

\* An index whose name is free is made, and then backed by its link.
LEMMA AddIndexReady ==
    ASSUME NEW s \in Documents, NEW d, NEW owned, NEW keys, NEW p, NEW h, NEW e,
           PlanShape(p), Shaped(e), Ready(s, d, owned, keys, p, h, e),
           Settled(p), p.dropFK = {}, NEW l \in p.addIndex,
           NEW q, q = Ran(p, "addIndex", l),
           NEW f, f = Indexed(e, l)
    PROVE  Ready(s, d, owned, keys, q, h, f)
  <1>1. f.cols = e.cols /\ f.links = e.links /\ f.idx = e.idx \cup {IndexMade(l)}
    BY DEF Shaped, Indexed, IndexMade
  <1>2. /\ q.addIndex = p.addIndex \ {l}
        /\ q.renameTable = p.renameTable /\ q.renameColumn = p.renameColumn
        /\ q.dropFK = p.dropFK /\ q.dropColumn = p.dropColumn /\ q.dropTable = p.dropTable
        /\ q.createTable = p.createTable /\ q.addColumn = p.addColumn
        /\ q.alterColumn = p.alterColumn /\ q.addFK = p.addFK
        /\ q.replaced = p.replaced
    BY DEF PlanShape, Ran
  <1>3. BackedIndex(s, d, q, IndexMade(l)) /\ SameColumn(IndexMade(l), l)
    BY <1>2 DEF BackedIndex, IndexMade, SameColumn, Settled, Ready, Drawn
  <1>4. Rest(p, q)
    BY <1>2 DEF Rest, Settled
  <1>5. GrowsBacked(s, d, q, e, f)
    BY <1>1, <1>3 DEF GrowsBacked
  <1>6. GrowsInPlace(q, e, f)
    BY <1>1 DEF GrowsInPlace
  <1>7. GrowsSupplied(s, d, p, e, q, h, f)
    BY <1>1, <1>2, <1>3 DEF GrowsSupplied
  <1> QED  BY <1>4, <1>5, <1>6, <1>7, AddedReady

\* An index in the way of a declared one was there at the start, on something else.
LEMMA AddIndexRefused ==
    ASSUME NEW s \in Documents, NEW d, NEW owned, NEW keys, NEW p, NEW h, NEW e,
           Ready(s, d, owned, keys, p, h, e),
           NEW l \in p.addIndex, NEW i \in e.idx, i.name = <<l.t, l.c>>
    PROVE  /\ l \in s.links
           /\ \E j \in d.idx : /\ j.name = <<l.t, l.c>>
                               /\ Target(s, d, j.t) # l.t \/ ColumnTarget(s, d, l.t, j.c) # l.c
  <1>1. l \in s.links /\ \A j \in d.idx : ~Heads(s, d, j, l)
    BY DEF Ready, Drawn
  <1>2. CASE \E j \in d.idx : i = NowIndex(s, d, p, j)
    BY <1>1, <1>2 DEF NowIndex, Heads
  <1>3. ASSUME NEW a \in s.links, a \notin p.addIndex, i = IndexMade(a)
        PROVE  FALSE
    <2>1. a.t = l.t /\ a.c = l.c
      BY <1>3 DEF IndexMade
    <2> QED  BY <1>1, <1>3, <2>1, DocumentFacts
  <1>4. BackedIndex(s, d, p, i)
    BY DEF Ready, Backed
  <1> QED  BY <1>1, <1>2, <1>3, <1>4 DEF BackedIndex

\* The declared tables exist when the rest of the plan creates none.
LEMMA DeclaredTableExists ==
    ASSUME NEW s \in Documents, NEW d, Columns(d), NEW owned, NEW keys, NEW p, NEW h, NEW n, NEW e,
           Deploying(s, d, keys, p, n, e), Ready(s, d, owned, keys, p, h, e),
           p.renameTable = {}, p.createTable = {}, NEW t \in s.tables
    PROVE  t \in TablesOf(e)
  <1>1. \/ \E x \in d.cols : Target(s, d, x.t) = t
        \/ \E z \in e.cols : z.t = t
    BY DEF Ready, Supplied
  <1>2. ASSUME NEW x \in d.cols, Target(s, d, x.t) = t
        PROVE  t \in TablesOf(e)
    BY <1>2, MatchedTableExists
  <1> QED  BY <1>1, <1>2 DEF TablesOf

\* Of a foreign key only the name can be taken.
LEMMA AddForeignKeyRefused ==
    ASSUME NEW s \in Documents, NEW d, ~Ambiguous(s, d), Columns(d),
           NEW owned, NEW keys, NEW p, NEW h, NEW n, NEW e, Columns(e),
           Deploying(s, d, keys, p, n, e), Ready(s, d, owned, keys, p, h, e), HasEngine(e),
           Settled(p), p.createTable = {}, p.addColumn = {}, NEW a \in p.addFK
    PROVE  /\ Column(e, a.ref, a.rc) # {}
           /\ \A k \in p.replaced : SameColumn(a, k) => \E l \in e.links : SameConstraint(k, l)
           /\ \A k \in e.links \ Superseded(e, p, a) :
                 k.t = a.t /\ k.sym = <<a.t, a.c>> => Taken(s, d, a)
  <1>1. a \in s.links /\ p.renameTable = {} /\ p.renameColumn = {}
    BY DEF Deploying, Planned, Settled
  <1>2. \A j : NowLink(s, d, p, j) = EndLink(s, d, j)
    BY <1>1, NowIsNew
  <1>3. Column(e, a.ref, a.rc) # {}
    <2>1. a.ref \in TablesOf(e)
      <3>1. CASE a.ref \in s.tables
        BY <1>1, <3>1, DeclaredTableExists
      <3>2. CASE a.ref \in EngineTables
        BY <3>2 DEF HasEngine, TablesOf
      <3> QED  BY <1>1, <3>1, <3>2, DocumentFacts
    <2>2. CASE a.rc = "id"
      BY <2>1, <2>2 DEF TablesOf, Columns, Column
    <2>3. ASSUME NEW y \in s.cols, y.t = a.ref, y.c = a.rc
          PROVE  Column(e, a.ref, a.rc) # {}
      <3>1. PICK z \in e.cols : SameColumn(y, z)
        BY DeclaredExist
      <3> QED  BY <2>3, <3>1 DEF SameColumn, Column
    <2> QED  BY <1>1, <2>2, <2>3, DocumentFacts
  <1>4. ASSUME NEW k \in p.replaced, SameColumn(a, k)
        PROVE  \E l \in e.links : SameConstraint(k, l)
    <2>1. PICK j \in d.links : k = NewLink(s, d, j) /\ EndLink(s, d, j) \in e.links
      BY <1>2, <1>4 DEF Ready, InPlace, LinkInPlace
    <2> QED  BY <2>1, EndAndNew
  <1>5. ASSUME NEW k \in e.links, k \notin Superseded(e, p, a), k.t = a.t, k.sym = <<a.t, a.c>>
        PROVE  Taken(s, d, a)
    <2>1. BackedLink(s, d, p, k)
      BY DEF Ready, Backed
    <2>2. ASSUME NEW j \in d.links, k = EndLink(s, d, j)
          PROVE  Taken(s, d, a)
      <3>1. /\ Target(s, d, j.t) = a.t /\ j.sym = <<a.t, a.c>>
            /\ k.c = ColumnTarget(s, d, a.t, j.c)
        BY <1>5, <2>2 DEF EndLink
      <3>2. CASE k.c = a.c
        <4>1. Heads(s, d, j, a)
          BY <3>1, <3>2 DEF Heads
        <4>2. NewLink(s, d, j) \in p.replaced
          BY <4>1 DEF Ready, Drawn
        <4>3. SameConstraint(NewLink(s, d, j), k)
          BY <2>2, EndAndNew
        <4>4. SameColumn(a, NewLink(s, d, j))
          BY <1>5, <3>2, <4>3 DEF SameConstraint, SameColumn
        <4> QED  BY <1>5, <4>2, <4>3, <4>4 DEF Superseded
      <3> QED  BY <3>1, <3>2 DEF Taken
    <2>3. ASSUME NEW b \in s.links, b \notin p.addFK, k = LinkMade(b)
          PROVE  FALSE
      <3>1. b.t = a.t /\ b.c = a.c
        BY <1>5, <2>3 DEF LinkMade
      <3> QED  BY <1>1, <2>3, <3>1, DocumentFacts
    <2> QED  BY <1>2, <2>1, <2>2, <2>3 DEF BackedLink
  <1> QED  BY <1>3, <1>4, <1>5

\* A foreign key is skipped in a fault or for its name only.
LEMMA SkipForeignKeyReady ==
    ASSUME NEW s \in Documents, NEW d, NEW owned, NEW keys, NEW p, NEW h, NEW e, NEW g,
           PlanShape(p), Ready(s, d, owned, keys, p, h, e), h => g,
           Settled(p), p.dropFK = {}, NEW a \in p.addFK, g \/ Taken(s, d, a),
           NEW q, q = Ran(p, "addFK", a)
    PROVE  Ready(s, d, owned, keys, q, g, e)
  <1>1. /\ q.addFK = p.addFK \ {a}
        /\ q.renameTable = p.renameTable /\ q.renameColumn = p.renameColumn
        /\ q.dropFK = p.dropFK /\ q.dropColumn = p.dropColumn /\ q.dropTable = p.dropTable
        /\ q.createTable = p.createTable /\ q.addColumn = p.addColumn
        /\ q.alterColumn = p.alterColumn /\ q.addIndex = p.addIndex
        /\ q.replaced = p.replaced
    BY DEF PlanShape, Ran
  <1>2. Rest(p, q)
    BY <1>1 DEF Rest, Settled
  <1>3. GrowsBacked(s, d, q, e, e) /\ GrowsInPlace(q, e, e)
    BY DEF GrowsBacked, GrowsInPlace
  <1>4. GrowsSupplied(s, d, p, e, q, g, e)
    BY <1>1 DEF GrowsSupplied
  <1> QED  BY <1>2, <1>3, <1>4, AddedReady

\* A constraint is replaced for one declared link only, and what is declared stays.
LEMMA AddForeignKeyReady ==
    ASSUME NEW s \in Documents, NEW d, NEW owned, NEW keys, NEW p, NEW h, NEW e,
           Planned(s, d, keys, p), Shaped(e), Ready(s, d, owned, keys, p, h, e),
           Settled(p), p.dropFK = {}, NEW a \in p.addFK,
           NEW q, q = Ran(p, "addFK", a),
           NEW f, f = LinkAdded(e, p, a)
    PROVE  Ready(s, d, owned, keys, q, h, f)
  <1> DEFINE old == Superseded(e, p, a)
  <1>1. f.cols = e.cols /\ f.links = (e.links \ old) \cup {LinkMade(a)} /\ f.idx = e.idx
    BY DEF Shaped, LinkAdded, LinkMade
  <1>2. \A k \in old : SameColumn(a, k)
    BY DEF Superseded, SameConstraint, SameColumn
  <1> HIDE DEF old
  <1>3. /\ q.addFK = p.addFK \ {a}
        /\ q.renameTable = p.renameTable /\ q.renameColumn = p.renameColumn
        /\ q.dropFK = p.dropFK /\ q.dropColumn = p.dropColumn /\ q.dropTable = p.dropTable
        /\ q.createTable = p.createTable /\ q.addColumn = p.addColumn
        /\ q.alterColumn = p.alterColumn /\ q.addIndex = p.addIndex
        /\ q.replaced = p.replaced
    BY DEF Planned, PlanShape, Ran
  <1>4. a \in s.links /\ SameLink(LinkMade(a), a)
    BY DEF Planned, LinkMade, SameLink, SameColumn
  <1>5. Rest(p, q)
    BY <1>3 DEF Rest, Settled
  <1>6. GrowsBacked(s, d, q, e, f)
    <2>1. BackedLink(s, d, q, LinkMade(a))
      BY <1>3, <1>4, <1>5 DEF BackedLink, Rest
    <2> QED  BY <1>1, <2>1 DEF GrowsBacked
  <1>7. GrowsInPlace(q, e, f)
    <2>1. ASSUME NEW k \in old, NEW b \in q.addFK, SameColumn(b, k)
          PROVE  FALSE
      <3>1. b \in s.links /\ b # a
        BY <1>3 DEF Planned
      <3>2. b.t = a.t /\ b.c = a.c
        BY <1>2, <2>1 DEF SameColumn
      <3> QED  BY <1>4, <3>1, <3>2, DocumentFacts
    <2> QED  BY <1>1, <2>1 DEF GrowsInPlace
  <1>8. GrowsSupplied(s, d, p, e, q, h, f)
    <2>1. ASSUME NEW l \in s.links, NEW m \in e.links, SameLink(m, l)
          PROVE  \E k \in f.links : SameLink(k, l)
      <3>1. CASE m \in old
        <4>1. l = a
          BY <1>2, <1>4, <2>1, <3>1, DocumentFacts DEF SameLink, SameColumn
        <4> QED  BY <1>1, <1>4, <4>1
      <3> QED  BY <1>1, <2>1, <3>1
    <2> QED  BY <1>1, <1>3, <1>4, <2>1 DEF GrowsSupplied
  <1> QED  BY <1>5, <1>6, <1>7, <1>8, AddedReady

-----------------------------------------------------------------------------
(***************************************************************************)
(* Where the plan has run to its end, the same comparison finds nothing    *)
(* left to do.                                                             *)
(***************************************************************************)
\* Nothing is left of a plan.
Empty(p) ==
    /\ Settled(p) /\ p.dropFK = {} /\ p.createTable = {} /\ p.addColumn = {}
    /\ p.alterColumn = {} /\ p.addIndex = {} /\ p.addFK = {}

\* Where all that is declared exists, there is nothing to rename.
LEMMA NothingMoves ==
    ASSUME NEW s \in Documents, NEW e, s.tables \subseteq TablesOf(e),
           \A y \in s.cols : \E z \in e.cols : SameColumn(y, z)
    PROVE  /\ TableMoves(s, e) = {} /\ ColumnMoves(s, e) = {}
           /\ \A t \in s.tables : Source(s, e, t) = t
           /\ \A t : Target(s, e, t) = t
           /\ \A t, c : ColumnTarget(s, e, t, c) = c
           /\ \A y \in s.cols : OldName(s, e, y) = y.c
  <1>1. \A t \in s.tables : Source(s, e, t) = t
    BY DEF Source
  <1>2. TableMoves(s, e) = {}
    BY <1>1 DEF TableMoves
  <1>3. ColumnMoves(s, e) = {}
    <2> SUFFICES ASSUME NEW y \in ColumnMoves(s, e) PROVE FALSE
      OBVIOUS
    <2>1. y \in s.cols /\ \A x \in e.cols : x.t = Source(s, e, y.t) => x.c # y.c
      BY ColumnMoveFacts
    <2>2. Source(s, e, y.t) = y.t
      BY <1>1, <2>1, DocumentFacts
    <2> QED  BY <2>1, <2>2 DEF SameColumn
  <1> QED  BY <1>1, <1>2, <1>3, TargetCases, ColumnTargetCases DEF OldName

\* A declared column has the declared type.
LEMMA DeclaredType ==
    ASSUME NEW s \in Documents, NEW d, NEW owned, NEW keys, NEW p, NEW h, NEW e, Columns(e),
           Ready(s, d, owned, keys, p, h, e), Empty(p),
           NEW y \in s.cols, NEW z \in e.cols, SameColumn(y, z)
    PROVE  z.ty = y.ty
  <1>1. \A w \in s.cols : SameColumn(w, z) => w = y
    BY DocumentFacts DEF SameColumn
  <1>2. ASSUME NEW x \in d.cols, z.t = NowTable(s, d, p, x.t), z.c = NowColumn(s, d, p, x.t, x.c),
               z.ty = x.ty
        PROVE  z.ty = y.ty
    <2>1. Target(s, d, x.t) = y.t /\ ColumnTarget(s, d, y.t, x.c) = y.c
      BY <1>2, NowRenamed DEF SameColumn, Empty, Settled
    <2>2. StandsFor(s, d, x, y)
      BY <2>1, NameLeadsBack DEF StandsFor
    <2>3. CASE x.ty # y.ty
      <3>1. PICK w \in e.cols : SameColumn(y, w) /\ w.ty = y.ty
        BY <2>2, <2>3 DEF Ready, Supplied, Empty
      <3>2. w = z
        BY <3>1 DEF Columns, SameColumn
      <3> QED  BY <3>1, <3>2
    <2> QED  BY <1>2, <2>3
  <1>3. z.c # "id"
    BY DocumentFacts DEF SameColumn
  <1>4. BackedColumn(s, d, p, z)
    BY DEF Ready, Backed
  <1> QED  BY <1>1, <1>2, <1>3, <1>4 DEF BackedColumn

\* A declared link has its index, and a constraint unless its name is taken.
LEMMA DeclaredLinked ==
    ASSUME NEW s \in Documents, NEW d, NEW owned, NEW keys, NEW p, NEW h, NEW n, NEW e,
           Deploying(s, d, keys, p, n, e), Ready(s, d, owned, keys, p, h, e), ~h, Empty(p),
           NEW l \in s.links
    PROVE  /\ \E i \in e.idx : SameColumn(i, l)
           /\ Taken(s, d, l) \/ \E m \in e.links : SameLink(m, l)
  <1>1. \E i \in e.idx : SameColumn(i, l)
    <2>1. ASSUME NEW i \in d.idx, Heads(s, d, i, l)
          PROVE  NowIndex(s, d, p, i) \in e.idx /\ SameColumn(NowIndex(s, d, p, i), l)
      <3>1. NowIndex(s, d, p, i) \in e.idx
        BY <2>1 DEF Ready, InPlace
      <3>2. /\ NowTable(s, d, p, i.t) = l.t
            /\ NowColumn(s, d, p, i.t, i.c) = l.c
        BY <2>1, NowRenamed DEF Heads, Empty, Settled
      <3> QED  BY <3>1, <3>2 DEF NowIndex, SameColumn
    <2> QED  BY <2>1 DEF Ready, Supplied, Empty
  <1>2. ASSUME NEW j \in d.links, Follows(s, d, j, l)
        PROVE  \E m \in e.links : SameLink(m, l)
    <2>1. PICK m \in e.links : /\ m.t = NowTable(s, d, p, j.t) /\ m.c = NowColumn(s, d, p, j.t, j.c)
                               /\ m.ref = NowTable(s, d, p, j.ref)
                               /\ m.rc = NowColumn(s, d, p, j.ref, j.rc) /\ m.act = j.act
      BY <1>2 DEF Deploying, Linked
    <2>2. m.t = l.t /\ m.c = l.c /\ m.ref = l.ref /\ m.act = l.act
      BY <1>2, <2>1, NowRenamed DEF Follows, Empty, Settled
    <2>3. m.rc = ColumnTarget(s, d, Target(s, d, j.ref), j.rc)
      BY <2>1, NowRenamed DEF Empty, Settled
    <2>4. m.rc = l.rc
      BY <1>2, <2>3, ReferenceStays DEF Follows
    <2> QED  BY <2>2, <2>4 DEF SameLink, SameColumn
  <1> QED  BY <1>1, <1>2 DEF Ready, Supplied, Empty

\* A rename that is blocked at the end was so at the start.
LEMMA BlockedFromStart ==
    ASSUME NEW s \in Documents, NEW d, ~Ambiguous(s, d), NEW owned, NEW keys, NEW p, NEW h, NEW e,
           Ready(s, d, owned, keys, p, h, e), Empty(p), \A t \in s.tables : Source(s, e, t) = t
    PROVE  Blocked(s, e) \subseteq Blocked(s, d)
  <1>1. ASSUME NEW z \in e.cols
        PROVE  \/ \E x \in d.cols : /\ z.t = Target(s, d, x.t)
                                    /\ z.c = ColumnTarget(s, d, z.t, x.c)
               \/ z.t \in s.tables /\ (z.c = "id" \/ \E y \in s.cols : SameColumn(y, z))
    <2>1. BackedColumn(s, d, p, z)
      BY DEF Ready, Backed
    <2> QED  BY <2>1, NowRenamed DEF BackedColumn, Empty, Settled
  <1>2. ASSUME NEW t \in s.tables, t \in TablesOf(e), s.from[t] \in TablesOf(e)
        PROVE  t \in TablesOf(d) /\ s.from[t] \in TablesOf(d)
    <2>1. PICK z \in e.cols : z.t = s.from[t]
      BY <1>2 DEF TablesOf
    <2>2. z.t \notin s.tables
      BY <2>1, DocumentFacts
    <2>3. PICK x \in d.cols : z.t = Target(s, d, x.t)
      BY <1>1, <2>2
    <2>4. x.t = s.from[t] /\ x.t \in TablesOf(d)
      BY <2>1, <2>2, <2>3, TargetUndeclared DEF TablesOf
    <2>5. CASE t \notin TablesOf(d)
      <3>1. t \in TableMoves(s, d)
        BY <2>2, <2>1, <2>4, <2>5 DEF TableMoves, Source
      <3> QED  BY <2>1, <2>2, <2>3, <2>4, <3>1, TargetOfMove
    <2> QED  BY <2>4, <2>5
  <1>3. ASSUME NEW y \in s.cols, Column(e, Source(s, e, y.t), y.from) # {}
        PROVE  Column(d, Source(s, d, y.t), y.from) # {} /\ Column(d, Source(s, d, y.t), y.c) # {}
    <2>1. y.t \in s.tables /\ y.from # "id" /\ \A w \in s.cols : w.t = y.t => w.c # y.from
      BY DocumentFacts
    <2>2. PICK z \in e.cols : z.t = y.t /\ z.c = y.from
      BY <1>3, <2>1 DEF Column
    <2>3. PICK x \in d.cols : y.t = Target(s, d, x.t) /\ y.from = ColumnTarget(s, d, y.t, x.c)
      BY <1>1, <2>1, <2>2 DEF SameColumn
    <2>4. x.c = y.from /\ ~\E w \in ColumnMoves(s, d) : w.t = y.t /\ w.from = x.c
      BY <2>1, <2>3, ColumnTargetCases, ColumnMoveFacts
    <2>5. x.t = Source(s, d, y.t)
      BY <2>1, <2>3, TargetSource DEF TablesOf
    <2>6. Column(d, Source(s, d, y.t), y.from) # {}
      BY <2>4, <2>5 DEF Column
    <2> QED  BY <2>4, <2>6 DEF ColumnMoves
  <1> QED  BY <1>2, <1>3 DEF Blocked

\* Then the comparison of the document with the tables finds what was excepted.
LEMMA PlanConverges ==
    ASSUME NEW s \in Documents, NEW d, ~Ambiguous(s, d), Columns(d), NEW owned, NEW keys, NEW p,
           NEW h, NEW n, NEW e, Shaped(e), Columns(e),
           Deploying(s, d, keys, p, n, e), Ready(s, d, owned, keys, p, h, e), ~h, Empty(p)
    PROVE  Unapplied(s, e) \subseteq Blocked(s, d) \cup {l \in s.links : Taken(s, d, l)}
  <1> DEFINE r == Resolved(s, e)
             matched == s.tables \cap Managed(r)
             seen == {x \in r.cols : x.t \in matched /\ x.c # "id"}
             q == Diff(s, e)
  <1>1. s.tables \subseteq TablesOf(e)
    BY DeclaredTableExists DEF Empty, Settled
  <1>2. \A y \in s.cols : \E z \in e.cols : SameColumn(y, z)
    BY DeclaredExist DEF Empty
  <1>3. /\ TableMoves(s, e) = {} /\ ColumnMoves(s, e) = {}
        /\ \A t \in s.tables : Source(s, e, t) = t
        /\ \A t : Target(s, e, t) = t
        /\ \A t, c : ColumnTarget(s, e, t, c) = c
        /\ \A y \in s.cols : OldName(s, e, y) = y.c
    BY <1>1, <1>2, NothingMoves
  <1>4. Blocked(s, e) \subseteq Blocked(s, d)
    BY <1>3, BlockedFromStart
  <1>5. /\ \A x \in e.cols : \E z \in r.cols : z.t = x.t /\ z.c = x.c /\ z.ty = x.ty
        /\ \A z \in r.cols : \E x \in e.cols : z.t = x.t /\ z.c = x.c /\ z.ty = x.ty
    BY <1>3, ResolvedForm
  <1>6. \A m \in e.links : \E k \in r.links : \A l : SameLink(m, l) => SameLink(k, l)
    <2>1. \A m \in e.links : NewLink(s, e, m) \in r.links
      BY ResolvedForm
    <2>2. \A m, l : SameLink(m, l) => SameLink(NewLink(s, e, m), l)
      BY <1>3 DEF NewLink, SameLink, SameColumn
    <2> QED  BY <2>1, <2>2
  <1>7. \A i \in e.idx : \A l : SameColumn(i, l) => \E k \in r.idx : SameColumn(k, l)
    BY <1>3, ResolvedForm DEF Heads, SameColumn
  <1>8. \A t \in s.tables : t \in matched
    <2>1. \A t \in s.tables : t \in TablesOf(r)
      BY <1>1, <1>5 DEF TablesOf
    <2> QED  BY <2>1, DocumentFacts DEF Managed
  <1>9. /\ q.renameTable = {[from |-> s.from[t], to |-> t] : t \in TableMoves(s, e)}
        /\ q.renameColumn = {[t |-> y.t, from |-> y.from, to |-> y.c] : y \in ColumnMoves(s, e)}
        /\ q.createTable = s.tables \ matched
        /\ \A y : y \in q.addColumn <=>
              /\ y \in s.cols /\ y.t \in matched
              /\ ~\E x \in seen : x.t = y.t /\ x.c = OldName(s, e, y)
        /\ \A y : y \in q.alterColumn <=>
              /\ y \in s.cols
              /\ \E x \in seen : x.t = y.t /\ x.c = OldName(s, e, y) /\ x.ty # y.ty
        /\ q.addIndex = {l \in s.links : ~\E i \in r.idx : SameColumn(i, l)}
        /\ q.addFK = {l \in s.links : ~\E k \in r.links : SameLink(k, l)}
    BY DiffFields
  <1>10. \A x : x \in seen <=> x \in r.cols /\ x.t \in matched /\ x.c # "id"
    OBVIOUS
  <1>11. Unapplied(s, e) = UNION {Blocked(s, e), q.renameTable, q.renameColumn, q.addColumn,
            q.alterColumn, q.addIndex, q.addFK, {[t |-> t] : t \in q.createTable}}
    BY DEF Unapplied
  <1> HIDE DEF r, matched, seen, q
  <1>12. q.renameTable = {} /\ q.renameColumn = {} /\ q.createTable = {}
    BY <1>3, <1>8, <1>9
  <1>13. q.addColumn = {}
    <2> SUFFICES ASSUME NEW y \in s.cols
                 PROVE  \E x \in seen : x.t = y.t /\ x.c = OldName(s, e, y)
      BY <1>9
    <2>1. y.t \in matched /\ y.c # "id"
      BY <1>8, DocumentFacts
    <2> QED  BY <1>2, <1>3, <1>5, <1>10, <2>1 DEF SameColumn
  <1>14. q.alterColumn = {}
    <2> SUFFICES ASSUME NEW y \in s.cols, NEW x \in seen, x.t = y.t, x.c = y.c
                 PROVE  x.ty = y.ty
      BY <1>3, <1>9
    <2>1. PICK z \in e.cols : x.t = z.t /\ x.c = z.c /\ x.ty = z.ty
      BY <1>5, <1>10
    <2>2. SameColumn(y, z)
      BY <2>1 DEF SameColumn
    <2>3. z.ty = y.ty
      BY <2>2, DeclaredType
    <2> QED  BY <2>1, <2>3
  <1>15. q.addIndex = {}
    BY <1>7, <1>9, DeclaredLinked
  <1>16. \A l \in q.addFK : l \in s.links /\ Taken(s, d, l)
    BY <1>6, <1>9, DeclaredLinked
  <1> QED  BY <1>4, <1>11, <1>12, <1>13, <1>14, <1>15, <1>16

-----------------------------------------------------------------------------
(***************************************************************************)
(* The steps of the specification, once more.                              *)
(***************************************************************************)
\* The phases that are over when another has its turn.
LEMMA TurnLeaves ==
    /\ Turn("dropColumn") => todo.dropFK = {}
    /\ Turn("dropTable") => todo.dropFK = {} /\ todo.dropColumn = {}
    /\ Turn("createTable") => todo.dropFK = {}
    /\ Turn("addColumn") => todo.dropFK = {} /\ todo.createTable = {}
    /\ Turn("alterColumn") => Settled(todo) /\ todo.dropFK = {}
    /\ Turn("addIndex") => Settled(todo) /\ todo.dropFK = {}
    /\ Turn("addFK") => todo.dropFK = {} /\ todo.alterColumn = {} /\ todo.addIndex = {}
  <1>1. Turn("dropColumn") => todo.dropFK = {}
    BY DEF Turn, Phases
  <1>2. Turn("dropTable") => todo.dropFK = {} /\ todo.dropColumn = {}
    BY DEF Turn, Phases
  <1>3. Turn("createTable") => todo.dropFK = {}
    BY DEF Turn, Phases
  <1>4. Turn("addColumn") => todo.dropFK = {} /\ todo.createTable = {}
    BY DEF Turn, Phases
  <1>5. Turn("alterColumn") => Settled(todo) /\ todo.dropFK = {}
    BY DEF Turn, Phases, Settled
  <1>6. Turn("addIndex") => Settled(todo) /\ todo.dropFK = {}
    BY DEF Turn, Phases, Settled
  <1>7. Turn("addFK") => todo.dropFK = {} /\ todo.alterColumn = {} /\ todo.addIndex = {}
    BY DEF Turn, Phases
  <1> QED  BY <1>1, <1>2, <1>3, <1>4, <1>5, <1>6, <1>7

\* No plan touches the tables of the engine.
LEMMA EngineStays ==
    ASSUME NEW s \in Documents, NEW d, ~Ambiguous(s, d), HasEngine(d), NEW keys, NEW p, NEW n, NEW e,
           Deploying(s, d, keys, p, n, e)
    PROVE  HasEngine(e)
  <1> SUFFICES ASSUME NEW t \in EngineTables
               PROVE  \E z \in e.cols : z.t = t
    BY DEF HasEngine
  <1>1. PICK x \in d.cols : x.t = t
    BY DEF HasEngine
  <1>2. ~Forsaken(s, d, keys, x)
    BY <1>1 DEF Forsaken
  <1>3. PICK z \in e.cols : z.t = NowTable(s, d, p, t)
    BY <1>1, <1>2 DEF Deploying, Tracked
  <1> QED  BY <1>3, TargetStays DEF NowTable

\* No plan runs at first, and the engine has its tables.
LEMMA InitRInv ==
    ASSUME Init
    PROVE  RInv
  <1> DEFINE K(t) == [t |-> t, c |-> "id", ty |-> 1, id |-> <<0, t, "id">>]
  <1>1. db.cols = {K(t) : t \in EngineTables}
    BY DEF Init
  <1>2. \A t \in EngineTables : K(t) \in db.cols /\ K(t).t = t
    BY <1>1
  <1>3. HasEngine(db)
    BY <1>2 DEF HasEngine
  <1> QED  BY <1>3 DEF Init, RInv

\* What holds of a plan under way.
LEMMA RunningReady ==
    ASSUME IInv, RInv, outcome = "running"
    PROVE  /\ Ready(doc, start, history \cup Declares(doc), approved, todo, hit, db)
           /\ HasEngine(db) /\ Planned(doc, start, approved, todo) /\ PlanShape(todo)
           /\ Shaped(db) /\ Columns(db) /\ Columns(start)
  BY RunningFacts DEF RInv, IInv, WellFormed, Deploying, Planned

\* A statement that ran, or was skipped.
LEMMA StepKeepsRInv ==
    ASSUME RInv, IInv', outcome' = "running", base' = base \/ base' = db',
           UNCHANGED <<doc, approved, start, history>>,
           Ready(doc, start, history \cup Declares(doc), approved, todo', hit', db')
    PROVE  RInv' /\ PlanExecutes' /\ Converges'
  <1>1. HasEngine(start')
    BY DEF RInv
  <1>2. /\ doc' \in Documents /\ ~Ambiguous(doc', start')
        /\ Deploying(doc', start', approved', todo', deploys', db')
    BY DEF IInv, Live
  <1>3. HasEngine(db')
    BY <1>1, <1>2, EngineStays
  <1>4. HasEngine(base')
    BY <1>3 DEF RInv
  <1>5. PlanExecutes' /\ Converges'
    BY DEF PlanExecutes, Converges
  <1>6. Ready(doc', start', history' \cup Declares(doc'), approved', todo', hit', db')
    OBVIOUS
  <1> QED  BY <1>1, <1>3, <1>4, <1>5, <1>6 DEF RInv

\* A statement that was refused for a reason, or failed.
LEMMA RollbackKeepsRInv ==
    ASSUME RInv, db' = base', HasEngine(base'), outcome' \in {"refused", "failed"},
           outcome' = "refused" => (StillReferenced \/ ColumnReferenced \/ NameTaken)',
           UNCHANGED start
    PROVE  RInv' /\ PlanExecutes' /\ Converges'
  BY DEF RInv, PlanExecutes, Converges

\* A statement of the transaction that can run, or is held by a reference.
LEMMA StatementReady ==
    ASSUME IInv, RInv, IInv', NEW phase, NEW o, NEW possible, NEW after,
           Statement(phase, o, possible, after),
           possible => Ready(doc, start, history \cup Declares(doc), approved,
                             Ran(todo, phase, o), hit, after),
           possible \/ StillReferenced \/ ColumnReferenced
    PROVE  RInv' /\ PlanExecutes' /\ Converges'
  <1>1. /\ outcome = "running"
        /\ UNCHANGED <<base, doc, approved, start, history, hit, deploys, faults>>
    BY DEF Statement, Turn
  <1>2. CASE possible
    <2>1. db' = after /\ todo' = Ran(todo, phase, o) /\ outcome' = "running"
      BY <1>1, <1>2 DEF Statement, Ran
    <2> QED  BY <1>1, <1>2, <2>1, StepKeepsRInv
  <1>3. CASE ~possible
    <2>1. db' = base /\ todo' = Idle /\ outcome' = "refused"
      BY <1>3 DEF Statement
    <2>2. (StillReferenced \/ ColumnReferenced)'
      BY <1>1, <1>3 DEF StillReferenced, ColumnReferenced
    <2>3. HasEngine(base')
      BY <1>1 DEF RInv
    <2> QED  BY <1>1, <2>1, <2>2, <2>3, RollbackKeepsRInv
  <1> QED  BY <1>2, <1>3

\* A deploy begins with a plan that can run.
LEMMA DeployKeepsRInv ==
    ASSUME IInv, RInv, outcome # "running", NEW s \in Documents,
           NEW keys \in SUBSET Keys(Diff(s, db)), Deploy(s, keys)
    PROVE  RInv' /\ PlanExecutes' /\ Converges'
  <1>1. /\ doc' = s /\ approved' = keys /\ start' = db /\ hit' = FALSE
        /\ db' = db /\ base' = base /\ history' = history
    BY DEF Deploy
  <1>2. HasEngine(db') /\ HasEngine(base') /\ HasEngine(start')
    BY <1>1 DEF RInv
  <1>3. CASE Ambiguous(s, db)
    <2>1. outcome' = "ambiguous"
      BY <1>3 DEF Deploy
    <2> QED  BY <1>2, <2>1 DEF RInv, PlanExecutes, Converges
  <1>4. CASE ~Ambiguous(s, db)
    <2>1. outcome' = "running" /\ todo' = Plan(s, db, history \cup Declares(s), keys)
      BY <1>4 DEF Deploy
    <2>2. Ready(s, db, history \cup Declares(s), keys, todo', hit', db)
      BY <1>4, <2>1, PlanIsReady DEF IInv
    <2>3. Ready(doc', start', history' \cup Declares(doc'), approved', todo', hit', db')
      BY <1>1, <2>2
    <2> QED  BY <1>2, <2>1, <2>3 DEF RInv, PlanExecutes, Converges
  <1> QED  BY <1>3, <1>4

\* A consumer takes nothing away.
LEMMA ConsumeKeepsRInv ==
    ASSUME IInv, RInv, NEW t, Consume(t)
    PROVE  RInv' /\ PlanExecutes' /\ Converges'
  <1>1. base' = db' /\ start' = db' /\ outcome' = "none"
    BY DEF Consume
  <1>2. db = [cols |-> db.cols, links |-> db.links, idx |-> db.idx]
    BY DEF IInv, WellFormed, Shaped
  <1>3. \A x \in db.cols : x \in db'.cols
    BY <1>2 DEF Consume
  <1>4. HasEngine(db')
    BY <1>3 DEF RInv, HasEngine
  <1> QED  BY <1>1, <1>4 DEF RInv, PlanExecutes, Converges

\* Every step of a deploy.
LEMMA NextRInv ==
    ASSUME IInv, RInv, IInv', Next
    PROVE  RInv' /\ PlanExecutes' /\ Converges'
  <1> DEFINE owned == history \cup Declares(doc)
  <1>1. CASE /\ outcome # "running"
             /\ \E s \in Documents : \E keys \in SUBSET Keys(Diff(s, db)) : Deploy(s, keys)
    BY <1>1, DeployKeepsRInv
  <1>2. CASE \E t \in TablesOf(db) : Consume(t)
    BY <1>2, ConsumeKeepsRInv
  <1>3. ASSUME NEW o \in todo.renameTable, RenameTable(o)
        PROVE  RInv' /\ PlanExecutes' /\ Converges'
    <2> DEFINE possible == o.from \in TablesOf(db) /\ o.to \notin TablesOf(db)
    <2>1. Statement("renameTable", o, possible, TableRenamed(db, o))
      BY <1>3 DEF RenameTable, TableRenamed
    <2>2. outcome = "running"
      BY <2>1 DEF Statement, Turn
    <2>3. possible
      BY <2>2, RunningFacts, RunningReady, RenameTablePossible
    <2>4. Ready(doc, start, owned, approved, Ran(todo, "renameTable", o), hit, TableRenamed(db, o))
      BY <2>2, RunningFacts, RunningReady, RenameTableReady
    <2> HIDE DEF possible
    <2> QED  BY <2>1, <2>3, <2>4, StatementReady
  <1>4. ASSUME NEW o \in todo.renameColumn, RenameColumn(o)
        PROVE  RInv' /\ PlanExecutes' /\ Converges'
    <2> DEFINE possible == Column(db, o.t, o.from) # {} /\ Column(db, o.t, o.to) = {}
    <2>1. Statement("renameColumn", o, possible, ColumnRenamed(db, o))
      BY <1>4 DEF RenameColumn, ColumnRenamed
    <2>2. outcome = "running" /\ todo.renameTable = {}
      BY <2>1, TurnFacts DEF Statement, Turn
    <2>3. possible
      BY <2>2, RunningFacts, RunningReady, RenameColumnPossible
    <2>4. Ready(doc, start, owned, approved, Ran(todo, "renameColumn", o), hit, ColumnRenamed(db, o))
      BY <2>2, RunningFacts, RunningReady, RenameColumnReady
    <2> HIDE DEF possible
    <2> QED  BY <2>1, <2>3, <2>4, StatementReady
  <1>5. ASSUME NEW k \in todo.dropFK, DropForeignKey(k)
        PROVE  RInv' /\ PlanExecutes' /\ Converges'
    <2>1. Statement("dropFK", k, k \in db.links, ForeignKeyDropped(db, k))
      BY <1>5 DEF DropForeignKey, ForeignKeyDropped
    <2>2. outcome = "running" /\ todo.renameTable = {} /\ todo.renameColumn = {}
      BY <2>1, TurnFacts DEF Statement, Turn
    <2>3. /\ k \in db.links
          /\ Ready(doc, start, owned, approved, Ran(todo, "dropFK", k), hit, ForeignKeyDropped(db, k))
      BY <2>2, RunningFacts, RunningReady, DropForeignKeyReady
    <2> QED  BY <2>1, <2>3, StatementReady
  <1>6. ASSUME NEW x \in todo.dropColumn, DropColumn(x)
        PROVE  RInv' /\ PlanExecutes' /\ Converges'
    <2> DEFINE possible ==
                 /\ Column(db, x.t, x.c) # {}
                 /\ ~\E l \in db.links : l.ref = x.t /\ l.rc = x.c /\ ~SameColumn(x, l)
    <2>1. Statement("dropColumn", x, possible, ColumnDropped(db, x))
      BY <1>6 DEF DropColumn, ColumnDropped
    <2>2. outcome = "running" /\ todo.renameTable = {} /\ todo.renameColumn = {} /\ todo.dropFK = {}
      BY <2>1, TurnFacts, TurnLeaves DEF Statement, Turn
    <2>3. /\ Column(db, x.t, x.c) # {}
          /\ Ready(doc, start, owned, approved, Ran(todo, "dropColumn", x), hit, ColumnDropped(db, x))
      BY <2>2, RunningFacts, RunningReady, DropColumnReady
    <2>4. possible \/ ColumnReferenced
      <3>1. ASSUME NEW l \in db.links, l.ref = x.t, l.rc = x.c, ~SameColumn(x, l)
            PROVE  \E j \in start.links : Pins(doc, start, approved, j)
        BY <2>2, <3>1, RunningFacts, RunningReady, DropColumnPinned
      <3>2. ASSUME NEW j \in start.links, Pins(doc, start, approved, j)
            PROVE  ColumnReferenced
        BY <3>2 DEF Pins, ColumnReferenced
      <3> QED  BY <2>3, <3>1, <3>2
    <2> HIDE DEF possible
    <2> QED  BY <2>1, <2>3, <2>4, StatementReady
  <1>7. ASSUME NEW t \in todo.dropTable, DropTable(t)
        PROVE  RInv' /\ PlanExecutes' /\ Converges'
    <2> DEFINE possible == t \in TablesOf(db) /\ ~\E l \in db.links : l.ref = t /\ l.t # t
    <2>1. /\ Statement("dropTable", t, possible, TableDropped(db, t))
          /\ ~\E u \in todo.dropTable : <<u, t>> \in todo.before
      BY <1>7 DEF DropTable, TableDropped
    <2>2. /\ outcome = "running" /\ todo.renameTable = {} /\ todo.renameColumn = {}
          /\ todo.dropFK = {} /\ todo.dropColumn = {}
      BY <2>1, TurnFacts, TurnLeaves DEF Statement, Turn
    <2>3. possible \/ \E j \in start.links : Holds(doc, start, owned, approved, j)
      <3>1. /\ t \in TablesOf(db)
            /\ \A l \in db.links : l.ref = t /\ l.t # t
                  => \E j \in start.links : Holds(doc, start, owned, approved, j)
        BY <2>1, <2>2, RunningFacts, RunningReady, DropTablePossible
      <3> QED  BY <3>1
    <2>4. possible \/ StillReferenced
      <3>1. ASSUME NEW j \in start.links, Holds(doc, start, owned, approved, j)
            PROVE  StillReferenced
        BY <3>1 DEF Holds, StillReferenced
      <3> QED  BY <2>3, <3>1
    <2>5. Ready(doc, start, owned, approved, Ran(todo, "dropTable", t), hit, TableDropped(db, t))
      BY <2>2, RunningFacts, RunningReady, DropTableReady
    <2> HIDE DEF possible
    <2> QED  BY <2>1, <2>4, <2>5, StatementReady
  <1>8. ASSUME NEW t \in todo.createTable, CreateTable(t)
        PROVE  RInv' /\ PlanExecutes' /\ Converges'
    <2> DEFINE new == {Made(deploys, t, "id", 1)}
                      \cup {Made(deploys, t, y.c, y.ty) : y \in {y \in doc.cols : y.t = t}}
    <2>1. Statement("createTable", t, t \notin TablesOf(db), Extended(db, new))
      BY <1>8 DEF CreateTable, Extended, New, Made
    <2>2. outcome = "running" /\ Settled(todo) /\ todo.dropFK = {}
      BY <2>1, TurnFacts, TurnLeaves DEF Statement, Turn
    <2>3. /\ t \notin TablesOf(db)
          /\ Ready(doc, start, owned, approved, Ran(todo, "createTable", t), hit, Extended(db, new))
      BY <2>2, RunningFacts, RunningReady, CreateTableReady
    <2> HIDE DEF new
    <2> QED  BY <2>1, <2>3, StatementReady
  <1>9. ASSUME NEW y \in todo.addColumn, AddColumn(y)
        PROVE  RInv' /\ PlanExecutes' /\ Converges'
    <2> DEFINE new == {Made(deploys, y.t, y.c, y.ty)}
               possible == y.t \in TablesOf(db) /\ Column(db, y.t, y.c) = {}
    <2>1. Statement("addColumn", y, possible, Extended(db, new))
      BY <1>9 DEF AddColumn, Extended, New, Made
    <2>2. outcome = "running" /\ Settled(todo) /\ todo.dropFK = {} /\ todo.createTable = {}
      BY <2>1, TurnFacts, TurnLeaves DEF Statement, Turn
    <2>3. /\ possible
          /\ Ready(doc, start, owned, approved, Ran(todo, "addColumn", y), hit, Extended(db, new))
      BY <2>2, RunningFacts, RunningReady, AddColumnReady
    <2> HIDE DEF new, possible
    <2> QED  BY <2>1, <2>3, StatementReady
  <1>10. ASSUME NEW y \in todo.alterColumn, AlterColumn(y)
         PROVE  RInv' /\ PlanExecutes' /\ Converges'
    <2> DEFINE possible == Column(db, y.t, y.c) # {}
    <2>1. Statement("alterColumn", y, possible, Altered(db, y))
      BY <1>10 DEF AlterColumn, Altered
    <2>2. outcome = "running" /\ Settled(todo) /\ todo.dropFK = {}
      BY <2>1, TurnLeaves DEF Statement, Turn
    <2>3. /\ possible
          /\ Ready(doc, start, owned, approved, Ran(todo, "alterColumn", y), hit, Altered(db, y))
      BY <2>2, RunningFacts, RunningReady, AlterColumnReady
    <2> HIDE DEF possible
    <2> QED  BY <2>1, <2>3, StatementReady
  <1>11. CASE Commit
    <2>1. /\ outcome = "running" /\ base' = db' /\ db' = db /\ todo' = todo /\ outcome' = outcome
          /\ UNCHANGED <<doc, approved, start, history, hit>>
      BY <1>11 DEF Commit, Turn
    <2> QED  BY <2>1, RunningReady, StepKeepsRInv
  <1>12. ASSUME NEW l \in todo.addIndex, AddIndex(l)
         PROVE  RInv' /\ PlanExecutes' /\ Converges'
    <2>1. /\ outcome = "running" /\ base = db /\ Settled(todo) /\ todo.dropFK = {}
          /\ UNCHANGED <<doc, approved, start, history, hit>>
      BY <1>12, TurnLeaves DEF AddIndex, Turn
    <2>2. ASSUME NEW i \in db.idx, i.name = <<l.t, l.c>>
          PROVE  RInv' /\ PlanExecutes' /\ Converges'
      <3>1. outcome' = "refused" /\ db' = base /\ base' = base
        BY <1>12, <2>1, <2>2 DEF AddIndex
      <3>2. /\ l \in doc.links
            /\ \E j \in start.idx : /\ j.name = <<l.t, l.c>>
                                    /\ \/ Target(doc, start, j.t) # l.t
                                       \/ ColumnTarget(doc, start, l.t, j.c) # l.c
        BY <2>1, <2>2, RunningFacts, RunningReady, AddIndexRefused
      <3>3. NameTaken'
        BY <2>1, <3>2 DEF NameTaken
      <3>4. HasEngine(base')
        BY <3>1 DEF RInv
      <3> QED  BY <2>1, <3>1, <3>3, <3>4, RollbackKeepsRInv
    <2>3. CASE ~\E i \in db.idx : i.name = <<l.t, l.c>>
      <3>1. /\ db' = Indexed(db, l) /\ base' = db' /\ outcome' = outcome
            /\ todo' = Ran(todo, "addIndex", l)
        BY <1>12, <2>3 DEF AddIndex, Indexed, Ran
      <3>2. Ready(doc, start, owned, approved, todo', hit', db')
        BY <2>1, <3>1, RunningFacts, RunningReady, AddIndexReady
      <3> QED  BY <2>1, <3>1, <3>2, StepKeepsRInv
    <2> QED  BY <2>2, <2>3
  <1>13. ASSUME NEW a \in todo.addFK, AddForeignKey(a)
         PROVE  RInv' /\ PlanExecutes' /\ Converges'
    <2> DEFINE taken == \E k \in db.links \ Superseded(db, todo, a) :
                           k.t = a.t /\ k.sym = <<a.t, a.c>>
    <2>1. /\ outcome = "running" /\ base' = db' /\ outcome' = outcome
          /\ UNCHANGED <<doc, approved, start, history, hit>>
          /\ todo' = Ran(todo, "addFK", a)
          /\ Settled(todo) /\ todo.dropFK = {} /\ todo.createTable = {} /\ todo.addColumn = {}
      BY <1>13, TurnFacts, TurnLeaves DEF AddForeignKey, Turn, Ran
    <2>2. \/ db' = LinkAdded(db, todo, a)
          \/ /\ db' = db
             /\ \/ taken
                \/ Column(db, a.ref, a.rc) = {}
                \/ \E k \in todo.replaced :
                      SameColumn(a, k) /\ ~\E l \in db.links : SameConstraint(k, l)
      BY <1>13 DEF AddForeignKey, LinkAdded, Superseded
    <2>3. /\ Column(db, a.ref, a.rc) # {}
          /\ \A k \in todo.replaced :
                SameColumn(a, k) => \E l \in db.links : SameConstraint(k, l)
          /\ taken => Taken(doc, start, a)
      <3> HIDE DEF owned
      <3>1. Ready(doc, start, owned, approved, todo, hit, db)
        BY <2>1, RunningReady DEF owned
      <3> QED  BY <2>1, <3>1, RunningFacts, RunningReady, AddForeignKeyRefused
    <2> HIDE DEF taken
    <2>4. (db' = db /\ Taken(doc, start, a)) \/ db' = LinkAdded(db, todo, a)
      BY <2>2, <2>3
    <2>5. Ready(doc, start, owned, approved, todo', hit', db')
      <3>1. CASE db' = db /\ Taken(doc, start, a)
        BY <2>1, <3>1, RunningFacts, RunningReady, SkipForeignKeyReady
      <3>2. CASE db' = LinkAdded(db, todo, a)
        BY <2>1, <3>2, RunningFacts, RunningReady, AddForeignKeyReady
      <3> QED  BY <2>4, <3>1, <3>2
    <2> QED  BY <2>1, <2>5, StepKeepsRInv
  <1>14. CASE Done
    <2>1. /\ outcome = "running" /\ outcome' \in {"done", "partial"}
          /\ UNCHANGED <<db, base, doc, start, hit>>
          /\ Empty(todo)
      BY <1>14, TurnFacts, TurnLeaves DEF Done, Turn, Empty
    <2>2. ASSUME ~hit
          PROVE  Unapplied(doc, db) \subseteq
                    Blocked(doc, start) \cup {l \in doc.links : Taken(doc, start, l)}
      BY <2>1, <2>2, RunningFacts, RunningReady, PlanConverges
    <2>3. {l \in doc.links : Taken(doc, start, l)} = ConstraintTaken
      BY DEF Taken, ConstraintTaken
    <2>4. ~hit => Unapplied(doc, db) \subseteq Blocked(doc, start) \cup ConstraintTaken
      BY <2>2, <2>3
    <2>5. ConstraintTaken' = ConstraintTaken
      BY <2>1 DEF ConstraintTaken
    <2>6. Converges' /\ PlanExecutes'
      BY <2>1, <2>4, <2>5 DEF Converges, PlanExecutes
    <2> QED  BY <2>1, <2>6 DEF RInv
  <1>15. CASE Fault
    <2>1. /\ outcome = "running" /\ hit' = TRUE
          /\ UNCHANGED <<doc, approved, start, history>>
      BY <1>15 DEF Fault
    <2>2. CASE /\ Turn("addFK")
               /\ \E a \in todo.addFK : todo' = [todo EXCEPT !.addFK = @ \ {a}]
               /\ UNCHANGED <<db, base, outcome>>
      <3>1. PICK a \in todo.addFK : todo' = Ran(todo, "addFK", a)
        BY <2>2 DEF Ran
      <3>2. Settled(todo) /\ todo.dropFK = {}
        BY <2>2, TurnFacts, TurnLeaves
      <3>3. Ready(doc, start, owned, approved, todo', hit', db')
        BY <2>1, <2>2, <3>1, <3>2, RunningFacts, RunningReady, SkipForeignKeyReady
      <3> QED  BY <2>1, <2>2, <3>3, StepKeepsRInv
    <2>3. CASE db' = base /\ outcome' = "failed" /\ base' = base
      <3>1. HasEngine(base')
        BY <2>3 DEF RInv
      <3> QED  BY <2>1, <2>3, <3>1, RollbackKeepsRInv
    <2>4. CASE /\ \E l \in todo.addIndex : db' = Indexed(db, l)
               /\ base' = db' /\ outcome' = "failed"
      <3>1. db'.cols = db.cols
        BY <2>1, <2>4, RunningReady DEF Indexed, Shaped
      <3>2. HasEngine(base')
        BY <2>4, <3>1 DEF RInv, HasEngine
      <3> QED  BY <2>1, <2>4, <3>2, RollbackKeepsRInv
    <2> QED  BY <1>15, <2>2, <2>3, <2>4 DEF Fault, Indexed
  <1> QED  BY <1>1, <1>2, <1>3, <1>4, <1>5, <1>6, <1>7, <1>8, <1>9, <1>10, <1>11, <1>12, <1>13,
              <1>14, <1>15 DEF Next

\* A step that changes nothing keeps all of it.
LEMMA StutterKeeps ==
    ASSUME UNCHANGED vars
    PROVE  /\ RInv => RInv'
           /\ PlanExecutes => PlanExecutes'
           /\ Converges => Converges'
  <1>1. UNCHANGED <<db, base, todo, doc, approved, start, history, outcome, hit>>
    BY DEF vars
  <1> QED  BY <1>1 DEF RInv, PlanExecutes, Converges, StillReferenced, ColumnReferenced, NameTaken,
                       ConstraintTaken

-----------------------------------------------------------------------------
(***************************************************************************)
(* The theorems.                                                           *)
(***************************************************************************)
\* In every state the deploy can be in, each column and link of the start is where
\* the plan (diffTenant, resolveRenames) has put it so far, or was given up.
THEOREM Invariance == Spec => []IInv
  BY InitIInv, NextIInv, PTL DEF Spec

\* Types, and what PostgreSQL insists on: one column per name and value, one
\* index per name, and links between columns and tables that exist.
THEOREM TypeCorrect == Spec => []TypeOK
  <1>1. IInv => TypeOK
    <2> SUFFICES ASSUME IInv
                 PROVE  TypeOK
      OBVIOUS
    <2>1. TablesOf(db) \subseteq Names
      BY DEF IInv, WellFormed, Columns, TablesOf
    <2>2. \A x, y \in db.cols : SameColumn(x, y) \/ x.id = y.id => x = y
      BY DEF IInv, WellFormed, Columns
    <2>3. \A l \in db.links : Column(db, l.t, l.c) # {} /\ Column(db, l.ref, l.rc) # {}
      BY DEF IInv, WellFormed, Attached, SameColumn, Column
    <2>4. /\ \A i, j \in db.idx : i.name = j.name => i = j
          /\ \A k, l \in db.links : k.t = l.t /\ k.sym = l.sym => k = l
      BY DEF IInv, WellFormed, NamedOnce
    <2> QED  BY <2>1, <2>2, <2>3, <2>4 DEF IInv, Basics, TypeOK
  <1> QED  BY <1>1, Invariance, PTL

\* Values go only by enumerated consent (partitionByPolicyApproved): whatever the
\* documents, the renames, the failures and the approvals, a column that was there
\* when the deploy began and is not in the tables now was given up by name, and is
\* neither declared nor the engine's nor, but with its table, a consumer's.
THEOREM NothingLostUnasked == Spec => []LostByConsent
  <1>1. IInv => LostByConsent
    <2> SUFFICES ASSUME IInv, NEW x \in start.cols, x.id \notin Ids(db)
                 PROVE  LET t == Target(doc, start, x.t)
                        IN  /\ x.t \notin EngineTables \cup {ForeignTable}
                            /\ \/ <<t>> \in approved /\ t \notin doc.tables
                               \/ /\ <<t, x.c>> \in approved /\ x.c \notin Foreign
                                  /\ ~\E y \in doc.cols : y.t = t /\ y.c = x.c
      BY DEF LostByConsent
    <2>1. CASE outcome = "running"
      <3>1. Tracked(doc, start, approved, todo, db)
        BY <2>1, RunningFacts DEF Deploying
      <3>2. Forsaken(doc, start, approved, x)
        BY <3>1 DEF Tracked, Ids
      <3> QED  BY <3>2 DEF Forsaken
    <2>2. CASE outcome # "running"
      <3>1. db = base
        BY <2>2 DEF IInv, Basics
      <3>2. Forsaken(doc, start, approved, x)
        BY <3>1 DEF IInv, Kept
      <3> QED  BY <3>2 DEF Forsaken
    <2> QED  BY <2>1, <2>2
  <1> QED  BY <1>1, Invariance, PTL

\* A declared rename is a rename (resolveRenames): once the deploy is through, the
\* values that were under the old name, of the table, the column or both, are under
\* the new one.
THEOREM RenamesMoveValues == Spec => []RenameMoves
  <1>1. IInv => RenameMoves
    <2> SUFFICES ASSUME IInv, outcome \in {"done", "partial"},
                        NEW y \in doc.cols, NEW x \in start.cols,
                        x.t = y.t \/ (x.t = doc.from[y.t] /\ y.t \notin TablesOf(start)),
                        x.c = y.c \/ (x.c = y.from /\ Column(start, x.t, y.c) = {})
                 PROVE  \E z \in db.cols : z.id = x.id /\ SameColumn(y, z)
      BY DEF RenameMoves
    <2>1. /\ doc \in Documents /\ ~Ambiguous(doc, start)
          /\ Tracked(doc, start, approved, todo, db) /\ todo = Idle
      BY DEF IInv, Basics, Live, Deploying
    <2>2. /\ y.t \in doc.tables /\ x.t \in TablesOf(start)
      BY <2>1, DocumentFacts DEF TablesOf
    <2>3. Target(doc, start, x.t) = y.t
      <3>1. CASE x.t = y.t
        BY <2>1, <2>2, <3>1, TargetStays
      <3>2. CASE x.t = doc.from[y.t] /\ y.t \notin TablesOf(start)
        <4>1. y.t \in TableMoves(doc, start)
          BY <2>2, <3>2 DEF TableMoves, Source
        <4> QED  BY <2>1, <3>2, <4>1, TargetOfMove
      <3> QED  BY <3>1, <3>2
    <2>4. Source(doc, start, y.t) = x.t
      BY <2>1, <2>2, <2>3, TargetSource
    <2>5. ColumnTarget(doc, start, y.t, x.c) = y.c /\ x.c \in {y.c, OldName(doc, start, y)}
      <3>1. CASE x.c = y.c
        BY <2>1, <3>1, ColumnTargetStays
      <3>2. CASE x.c = y.from /\ Column(start, x.t, y.c) = {}
        <4>1. Column(start, x.t, y.from) # {}
          BY <3>2 DEF Column
        <4>2. y \in ColumnMoves(doc, start)
          BY <2>4, <3>2, <4>1 DEF ColumnMoves
        <4> QED  BY <2>1, <3>2, <4>2, ColumnTargetOfMove DEF OldName
      <3> QED  BY <3>1, <3>2
    <2>6. ~Forsaken(doc, start, approved, x)
      BY <2>2, <2>3, <2>5 DEF Forsaken
    <2>7. PICK z \in db.cols : /\ z.id = x.id /\ z.t = NowTable(doc, start, todo, x.t)
                               /\ z.c = NowColumn(doc, start, todo, x.t, x.c)
      BY <2>1, <2>6 DEF Tracked
    <2>8. todo.renameTable = {} /\ todo.renameColumn = {}
      BY <2>1 DEF Idle
    <2>9. z.t = y.t /\ z.c = y.c
      BY <2>3, <2>5, <2>7, <2>8, NowRenamed
    <2> QED  BY <2>7, <2>9 DEF SameColumn
  <1> QED  BY <1>1, Invariance, PTL

\* A changed relation is replaced in one transaction (splitForeignKeyOps,
\* applyForeignKeys): in the committed tables, those of a deploy that failed
\* half-way included, a declared column that had a constraint has one.
THEOREM RelationsStayGuarded == Spec => []RelationStaysGuarded
  <1>1. IInv => RelationStaysGuarded
    BY DEF IInv, Kept, Guarded, RelationStaysGuarded
  <1> QED  BY <1>1, Invariance, PTL

\* While a plan runs, all there is stems from the start of the deploy or from a
\* statement that has run, and all that the statements left need is there; so much
\* follows from the order the planner gives them (OrderPlan, diffTenant).
THEOREM Readiness == Spec => [](IInv /\ RInv)
  <1>1. IInv /\ RInv /\ [Next]_vars => (IInv /\ RInv)'
    BY NextIInv, NextRInv, StutterKeeps
  <1> QED  BY <1>1, InitIInv, InitRInv, PTL DEF Spec

\* A plan runs from top to bottom without a dependency error (OrderPlan, migrate):
\* whatever the documents, the approvals and the deploys before, PostgreSQL refuses
\* a statement only because a table or a column the operator gave up is still
\* referenced, or because another index has the name.
THEOREM PlansExecute == Spec => []PlanExecutes
  <1>1. Init => PlanExecutes
    BY DEF Init, PlanExecutes
  <1>2. IInv /\ RInv /\ (IInv /\ RInv)' /\ PlanExecutes /\ [Next]_vars => PlanExecutes'
    BY NextRInv, StutterKeeps
  <1> QED  BY <1>1, <1>2, Readiness, PTL DEF Spec

\* What is declared is applied (verifyApplied): a deploy that no fault struck and
\* that ran to its end leaves the comparison nothing to do, but for the renames that
\* were blocked when it began and the constraints whose name another column kept.
THEOREM DeploysConverge == Spec => []Converges
  <1>1. Init => Converges
    BY DEF Init, Converges
  <1>2. IInv /\ RInv /\ (IInv /\ RInv)' /\ Converges /\ [Next]_vars => Converges'
    BY NextRInv, StutterKeeps
  <1> QED  BY <1>1, <1>2, Readiness, PTL DEF Spec
=============================================================================
