---------------------------- MODULE SchemaDeploy ----------------------------
(***************************************************************************)
(* Deploys of a tenant's schema: the control plane's PUT and rollback      *)
(* (pkg/controlplane/service.go), the registration (tenant_service.go),    *)
(* `migrate` and its fan-out (cmd_migrate.go, pkg/migration/orchestrator), *)
(* the backfill at boot, the version history (pkg/schemahistory), the      *)
(* migration itself (pkg/migration/runner.go with external.go, ranges.go   *)
(* and the executor of pkg/schemadiff) and the worker that applies the     *)
(* Redis stream's jobs (pkg/migration/worker.go).                          *)
(*                                                                         *)
(* One tenant.  A schema is the set of database objects it declares:       *)
(* columns (tables are columns too: what can lose data), indexes (built    *)
(* CONCURRENTLY, outside the transaction) and links (foreign keys and      *)
(* exclusions, whose failure is tolerated).  An object is one definition   *)
(* of its column or relation: altering a column, pointing a key elsewhere  *)
(* and renaming put an object in the place of another.  Every statement is *)
(* a step of its own, so the deploys of two operators, the fan-out and the *)
(* worker interleave as they may.                                          *)
(***************************************************************************)
EXTENDS Integers, Sequences, FiniteSets

CONSTANTS
    Columns, Indexes, Links,
    Shapes,       \* the other definitions of the same column or relation
    From,         \* renamed_from: the definitions of the column a column is renamed from
    Parts,        \* the indexes and links that go with a column that is dropped
    Schemas,      \* the schemas operators deploy
    Foreign,      \* columns of the consumer, in no schema
    Approvals,    \* the sets of drops operators approve
    Deployers,    \* requests and command lines that deploy
    Workers,      \* migration workers
    None,
    ReadCount,    \* Count: jobs the worker reads at once (10)
    MaxRetries,   \* maxRetries of the worker (3)
    AppendAttempts, \* attempts of Append to win a version number (3)
    FaultKinds,   \* the faults of this instance
    MaxDeploys,   \* bound of the model: deploys begun
    MaxFaults     \* bound of the model: faults

Objects == Columns \cup Indexes \cup Links
Procs   == Deployers \cup Workers
DeployKinds == {"put", "register", "fanout", "cli", "backfill"}

ASSUME SchemaDeployAssumption ==
    /\ Schemas \subseteq SUBSET Objects
    /\ Foreign \subseteq Columns
    /\ \A s \in Schemas : s # {} /\ s \cap Foreign = {}
    /\ {} \in Approvals /\ Approvals \subseteq SUBSET Columns
    /\ Deployers \cap Workers = {} /\ IsFiniteSet(Workers)
    /\ None \notin Procs \cup BOOLEAN /\ \A s \in SUBSET Objects : s # None
    /\ FaultKinds \subseteq {"error", "ddl", "redis", "crash", "owner", "verify"}
    /\ MaxRetries \in Nat /\ AppendAttempts \in Nat \ {0} /\ MaxDeploys \in Nat /\ MaxFaults \in Nat

\* A column or a relation has one definition at a time, an index no other; a
\* schema does not declare what it renames from (validator.go); what is dropped is
\* named by column.
ASSUME ReplacementAssumption ==
    /\ Columns \cap Links = {} /\ Indexes \cap (Columns \cup Links) = {}
    /\ Shapes \in [Objects -> SUBSET (Objects \ Foreign)]
    /\ \A o \in Objects, r \in Objects : r \in Shapes[o] => r # o /\ o \in Shapes[r]
    /\ \A K \in {Columns, Links} : \A o \in K : Shapes[o] \subseteq K
    /\ \A i \in Indexes : Shapes[i] = {}
    /\ From \in [Columns -> SUBSET (Columns \ Foreign)]
    /\ Parts \in [Columns -> SUBSET (Indexes \cup Links)]
    /\ \A s \in Schemas : \A o \in s : s \cap Shapes[o] = {} /\ (o \in Columns => s \cap From[o] = {})
    /\ \A a \in Approvals : \A o \in a : Shapes[o] \subseteq a
    /\ ReadCount \in Nat \ {0}

VARIABLES
    record,     \* public.tenants.json_schema; None: no such tenant
    tables,     \* the objects of the tenant's PostgreSQL schema; None: no schema
    history,    \* public.schema_history, by version
    lock,       \* the tenant's advisory lock
    stream,     \* the Redis stream: jobs nobody has read
    inbox,      \* the jobs a worker has read; the first is the one it has in hand
    open,       \* the jobs enqueued by a deploy and not settled: applied, or given up
    sent,       \* history: jobs enqueued by deploys so far
    pc,
    op,         \* what a process is deploying
    prev,       \* updateSchemaSourced: previous
    seen,       \* EnsureSeeded: current
    latest,     \* Append: latest
    tries,      \* attempts of Append, or of the fan-out's lock
    plan,       \* applyMigration: what it adds, which of it by altering or renaming, and
                \* drops; blind: it could not read who owns the columns, or not verify
    gaps,       \* history: objects a deploy has removed or skipped and not recorded
    undone,     \* history: objects whose place a job has taken and that did not come back
    alone,      \* history: deployers that no other deploy has overlapped
    disturbed,  \* history: deploys overlapped or one was cut off, and none succeeded since
    unlogged,   \* history: an Append failed
    wiped,      \* history: the versions were deleted between an Append's SELECT and its INSERT
    deploys, faults

proc == <<op, prev, seen, latest, tries, plan>>
db   == <<record, tables, history>>
jobs == <<stream, inbox, open, sent>>
marks == <<gaps, undone, alone, disturbed, unlogged, wiped>>
bounds == <<deploys, faults>>
vars == <<db, lock, jobs, pc, proc, marks, bounds>>

Docs == SUBSET Objects
Version == [doc : Docs, raw : BOOLEAN]
Job == [id : Nat, doc : Docs, attempt : 0..MaxRetries]
Idle == [kind |-> "idle", doc |-> {}, approved |-> {}, attempt |-> 0]
NoPlan == [adds |-> {}, alters |-> {}, renames |-> {}, drops |-> {}, blind |-> FALSE]

Init ==
    /\ record \in Schemas \cup {None}
    /\ tables = IF record = None THEN None ELSE record \cup Foreign
    /\ history \in {<<>>} \cup {<<[doc |-> s, raw |-> FALSE]>> : s \in {record} \ {None}}
    /\ lock = None
    /\ stream = <<>> /\ inbox = [w \in Workers |-> <<>>]
    /\ open = {} /\ sent = 0
    /\ pc = [p \in Procs |-> "idle"]
    /\ op = [p \in Procs |-> Idle]
    /\ prev = [p \in Procs |-> None]
    /\ seen = [p \in Procs |-> None]
    /\ latest = [p \in Procs |-> 0]
    /\ tries = [p \in Procs |-> 0]
    /\ plan = [p \in Procs |-> NoPlan]
    /\ gaps = {} /\ undone = {} /\ alone = {} /\ disturbed = FALSE /\ unlogged = FALSE /\ wiped = FALSE
    /\ deploys = 0 /\ faults = 0

Fault(kind) ==
    /\ kind \in FaultKinds
    /\ faults < MaxFaults
    /\ faults' = faults + 1
    /\ UNCHANGED deploys

NoFault == UNCHANGED bounds

Goto(p, l) == pc' = [pc EXCEPT ![p] = l]
Kind(p) == op[p].kind

\* The local variables of a process that has returned.
Forget(p) ==
    /\ op' = [op EXCEPT ![p] = Idle]
    /\ prev' = [prev EXCEPT ![p] = None]
    /\ seen' = [seen EXCEPT ![p] = None]
    /\ latest' = [latest EXCEPT ![p] = 0]
    /\ tries' = [tries EXCEPT ![p] = 0]
    /\ plan' = [plan EXCEPT ![p] = NoPlan]

Active(p) == pc[p] # "idle"
AtRest == \A p \in Deployers : ~Active(p)

-----------------------------------------------------------------------------
(* Where a deploy goes on, by its kind. *)

AfterSeed(p) == IF Kind(p) = "backfill" THEN "done" ELSE "update"

AfterHistory(p) ==
    CASE Kind(p) = "put"      -> "enqueue"
      [] Kind(p) = "register" -> "diff"
      [] Kind(p) = "fanout"   -> "unlock"
      [] Kind(p) = "cli"      -> "report"

AfterApply(p) ==
    CASE Kind(p) = "put"              -> "histLatest"
      [] Kind(p) = "register"         -> "hook"
      [] Kind(p) \in {"fanout", "cli"} -> "seedCount"
      [] Kind(p) = "job"              -> "unlock"

AfterFailure(p) ==
    CASE Kind(p) = "put"      -> "restore"
      [] Kind(p) = "register" -> "dropSchema"
      [] Kind(p) = "fanout"   -> "unlockFailed"
      [] Kind(p) = "cli"      -> "failed"
      [] Kind(p) = "job"      -> "retry"

-----------------------------------------------------------------------------
(***************************************************************************)
(* A deploy begins.  Two operators may deploy at the same time: only the   *)
(* fan-out and the worker take the tenant's lock.                          *)
(***************************************************************************)

FirstStep(kind) ==
    CASE kind = "put"      -> "readPrev"
      [] kind = "register" -> "insert"
      [] kind = "fanout"   -> "lock"
      [] kind = "cli"      -> "diff"
      [] kind = "backfill" -> "seedCount"

\* A rollback is a "put" of a schema of the history.  The fan-out, the command
\* line and the backfill find a tenant that exists.  A registration approves no
\* drop; the backfill deploys nothing.
Begin(p, kind, s, approved) ==
    /\ ~Active(p)
    /\ deploys < MaxDeploys
    /\ kind \in {"fanout", "cli", "backfill"} => record # None
    /\ kind \in {"register", "backfill"} => approved = {}
    /\ kind = "backfill" <=> s = {}
    /\ deploys' = deploys + 1
    /\ op' = [op EXCEPT ![p] = [kind |-> kind, doc |-> s, approved |-> approved, attempt |-> 0]]
    /\ Goto(p, FirstStep(kind))
    /\ alone' = IF AtRest THEN {p} ELSE {}
    /\ disturbed' = (disturbed \/ ~AtRest)
    /\ UNCHANGED <<db, lock, jobs, prev, seen, latest, tries, plan, gaps, undone, unlogged, wiped, faults>>

\* Mutant: no EnsureSeeded before the overwrite.
ReadPreviousUnseeded(p) ==
    /\ pc[p] = "readPrev"
    /\ \/ prev' = [prev EXCEPT ![p] = record] /\ NoFault
       \/ UNCHANGED prev /\ Fault("error")
    /\ Goto(p, "update")
    /\ UNCHANGED <<db, lock, jobs, op, seen, latest, tries, plan, marks>>

\* updateSchemaSourced reads the schema it will go back to; an error is ignored.
ReadPrevious(p) ==
    /\ pc[p] = "readPrev"
    /\ \/ prev' = [prev EXCEPT ![p] = record] /\ NoFault
       \/ UNCHANGED prev /\ Fault("error")
    /\ Goto(p, "seedCount")
    /\ UNCHANGED <<db, lock, jobs, op, seen, latest, tries, plan, marks>>

\* The registration's transaction: the row, the empty PostgreSQL schema.  It is
\* refused when either is there already.
Insert(p) ==
    /\ pc[p] = "insert"
    /\ IF record = None /\ tables = None
       THEN \/ /\ record' = op[p].doc
               /\ tables' = {}
               /\ Goto(p, "histLatest")
               /\ NoFault
            \/ Goto(p, "failed") /\ UNCHANGED <<record, tables>> /\ Fault("error")
       ELSE Goto(p, "failed") /\ UNCHANGED <<record, tables>> /\ NoFault
    /\ UNCHANGED <<history, lock, jobs, proc, marks>>

-----------------------------------------------------------------------------
(* The version history: EnsureSeeded, Append. *)

\* count(*) = 0, else (or on an error) there is nothing to seed.
SeedCount(p) ==
    /\ pc[p] = "seedCount"
    /\ \/ Goto(p, IF history = <<>> THEN "seedRead" ELSE AfterSeed(p)) /\ UNCHANGED unlogged /\ NoFault
       \/ Goto(p, AfterSeed(p)) /\ unlogged' = TRUE /\ Fault("error")
    /\ UNCHANGED <<db, lock, jobs, proc, gaps, undone, alone, disturbed, wiped>>

SeedRead(p) ==
    /\ pc[p] = "seedRead"
    /\ \/ /\ seen' = [seen EXCEPT ![p] = record]
          /\ Goto(p, IF record = None THEN AfterSeed(p) ELSE "seedLatest")
          /\ UNCHANGED unlogged
          /\ NoFault
       \/ Goto(p, AfterSeed(p)) /\ unlogged' = TRUE /\ UNCHANGED seen /\ Fault("error")
    /\ UNCHANGED <<db, lock, jobs, op, prev, latest, tries, plan, gaps, undone, alone, disturbed, wiped>>

Seeding(p) == pc[p] \in {"seedLatest", "seedInsert"}
AfterAppend(p) == IF Seeding(p) THEN AfterSeed(p) ELSE AfterHistory(p)

\* What Append stores.  EnsureSeeded passes the column's jsonb text, whose hash
\* is not the one of the same schema marshalled by the engine.
Item(p) ==
    IF Seeding(p) THEN [doc |-> seen[p], raw |-> Kind(p) # "backfill"]
                  ELSE [doc |-> op[p].doc, raw |-> FALSE]

Latest == IF history = <<>> THEN [doc |-> {}, raw |-> None] ELSE history[Len(history)]

\* Append gives up: best effort, the deploy goes on.
AppendFails(p) ==
    /\ Goto(p, AfterAppend(p))
    /\ unlogged' = TRUE
    /\ tries' = [tries EXCEPT ![p] = 0]
    /\ UNCHANGED <<history, latest, gaps, undone, alone, disturbed, wiped>>

\* Append: the latest version, and nothing to do if it has the same hash.
AppendLatest(p) ==
    /\ pc[p] \in {"seedLatest", "histLatest"}
    /\ \/ /\ Latest = Item(p)
          /\ Goto(p, AfterAppend(p))
          /\ UNCHANGED <<history, latest, tries, marks, bounds>>
       \/ /\ Latest # Item(p)
          /\ latest' = [latest EXCEPT ![p] = Len(history)]
          /\ Goto(p, IF Seeding(p) THEN "seedInsert" ELSE "histInsert")
          /\ UNCHANGED <<history, tries, marks, bounds>>
       \/ AppendFails(p) /\ Fault("error")
    /\ UNCHANGED <<record, tables, lock, jobs, op, prev, seen, plan>>

\* Mutant: the loser of a version race takes the next number without looking at
\* the winner's hash.
AppendInsertUnread(p) ==
    /\ pc[p] \in {"seedInsert", "histInsert"}
    /\ record # None
    /\ history' = Append(history, Item(p))
    /\ Goto(p, AfterAppend(p))
    /\ UNCHANGED <<record, tables, lock, jobs, op, prev, seen, latest, tries, plan, marks, bounds>>

\* The INSERT of version latest + 1: refused when another deploy has taken that
\* version (then latest is read again) and when the tenant is gone.
AppendInsert(p) ==
    /\ pc[p] \in {"seedInsert", "histInsert"}
    /\ \/ /\ record # None /\ latest[p] >= Len(history)
          /\ history' = Append(history, Item(p))
          /\ Goto(p, AfterAppend(p))
          /\ tries' = [tries EXCEPT ![p] = 0]
          /\ UNCHANGED <<latest, marks, bounds>>
       \/ /\ record # None /\ latest[p] < Len(history)
          /\ tries[p] + 1 < AppendAttempts
          /\ tries' = [tries EXCEPT ![p] = @ + 1]
          /\ Goto(p, IF Seeding(p) THEN "seedLatest" ELSE "histLatest")
          /\ UNCHANGED <<history, latest, marks, bounds>>
       \/ /\ record # None /\ latest[p] < Len(history)
          /\ tries[p] + 1 = AppendAttempts
          /\ AppendFails(p) /\ NoFault
       \/ record = None /\ AppendFails(p) /\ NoFault
       \/ AppendFails(p) /\ Fault("error")
    /\ UNCHANGED <<record, tables, lock, jobs, op, prev, seen, plan>>

-----------------------------------------------------------------------------
(* The recorded schema. *)

\* UPDATE public.tenants.  The PUT stops when there is no such tenant; the
\* others do not look.
Update(p) ==
    /\ pc[p] = "update"
    /\ \/ /\ record # None
          /\ record' = op[p].doc
          /\ Goto(p, IF Kind(p) = "put" THEN "diff" ELSE "histLatest")
          /\ NoFault
       \/ /\ record = None
          /\ UNCHANGED record
          /\ Goto(p, IF Kind(p) = "put" THEN "failed" ELSE "histLatest")
          /\ NoFault
       \/ /\ UNCHANGED record
          /\ Goto(p, IF Kind(p) = "fanout" THEN "unlockFailed" ELSE "failed")
          /\ Fault("error")
    /\ UNCHANGED <<tables, history, lock, jobs, proc, marks>>

\* Mutant: the failed PUT leaves the schema it recorded.
RestoreNothing(p) ==
    /\ pc[p] = "restore"
    /\ Goto(p, "failed")
    /\ UNCHANGED <<db, lock, jobs, proc, marks, bounds>>

\* restoreSchema: back to the schema that was read at the beginning, if one was.
Restore(p) ==
    /\ pc[p] = "restore"
    /\ \/ /\ prev[p] # None
          /\ record' = IF record = None THEN None ELSE prev[p]
          /\ UNCHANGED disturbed
          /\ NoFault
       \/ /\ prev[p] = None
          /\ disturbed' = TRUE
          /\ UNCHANGED record
          /\ NoFault
       \/ /\ UNCHANGED record
          /\ disturbed' = TRUE
          /\ Fault("error")
    /\ Goto(p, "failed")
    /\ UNCHANGED <<tables, history, lock, jobs, proc, gaps, undone, alone, unlogged, wiped>>

\* The consumer's provisioning hook: its failure is the registration's.
Hook(p) ==
    /\ pc[p] = "hook"
    /\ \/ Goto(p, "report") /\ NoFault
       \/ Goto(p, "dropSchema") /\ Fault("error")
    /\ UNCHANGED <<db, lock, jobs, proc, marks>>

\* rollbackFailedRegistration: the PostgreSQL schema, the history, the tenant's
\* row.  If it fails, the operator is told to delete the tenant.
Cleanup(p, here, next, ok) ==
    /\ pc[p] = here
    /\ IF ok THEN Goto(p, next) /\ UNCHANGED disturbed /\ NoFault
             ELSE Goto(p, "failed") /\ disturbed' = TRUE /\ Fault("error")
    /\ UNCHANGED <<lock, jobs, proc, gaps, undone, alone, unlogged>>

DropSchema(p) == \E ok \in BOOLEAN :
    /\ Cleanup(p, "dropSchema", "deleteHistory", ok)
    /\ tables' = IF ok THEN None ELSE tables
    /\ UNCHANGED <<record, history, wiped>>

DeleteHistory(p) == \E ok \in BOOLEAN :
    /\ Cleanup(p, "deleteHistory", "deleteTenant", ok)
    /\ history' = IF ok THEN <<>> ELSE history
    /\ wiped' = (wiped \/ (ok /\ \E q \in Procs : pc[q] \in {"seedInsert", "histInsert"}))
    /\ UNCHANGED <<record, tables>>

DeleteTenant(p) == \E ok \in BOOLEAN :
    /\ Cleanup(p, "deleteTenant", "failed", ok)
    /\ record' = IF ok THEN None ELSE record
    /\ UNCHANGED <<tables, history, wiped>>

\* XAdd of the job, best effort.
Enqueue(p) ==
    /\ pc[p] = "enqueue"
    /\ \/ /\ stream' = Append(stream, [id |-> sent + 1, doc |-> op[p].doc, attempt |-> 0])
          /\ open' = open \cup {sent + 1}
          /\ sent' = sent + 1
          /\ UNCHANGED inbox
          /\ NoFault
       \/ UNCHANGED jobs /\ Fault("redis")
    /\ Goto(p, "report")
    /\ UNCHANGED <<db, lock, proc, marks>>

\* The deploy is over; "report" is the one that succeeded.
Return(p) ==
    /\ pc[p] \in {"report", "failed", "done"}
    /\ IF pc[p] = "report" /\ p \in alone
       THEN /\ disturbed' = FALSE
            /\ gaps' = IF Kind(p) = "register" \/ plan[p].blind THEN gaps ELSE {}
       ELSE UNCHANGED <<disturbed, gaps>>
    /\ Goto(p, "idle")
    /\ Forget(p)
    /\ UNCHANGED <<db, lock, jobs, undone, alone, unlogged, wiped, bounds>>

-----------------------------------------------------------------------------
(***************************************************************************)
(* applyMigration: diff, the transactional batch, the indexes, the links,  *)
(* the verification.  The plan is made at the beginning and carried out    *)
(* statement by statement.                                                 *)
(***************************************************************************)

\* What Introspect sees.
Real == IF tables = None THEN {} ELSE tables

\* Every definition of the column or relation: what its name stands for.
Same(o) == {o} \cup Shapes[o]

\* loadOwnedObjects: what some deployed schema has declared or renamed, by name.
Owned ==
    LET declared == (IF record = None THEN {} ELSE record) \cup UNION {history[v].doc : v \in DOMAIN history}
    IN  (UNION {Same(o) : o \in declared}) \cup (UNION {From[o] : o \in declared \cap Columns})

\* Mutant: what nobody ever declared may be dropped too.
DroppableExternal(p, owned) == (Real \ op[p].doc) \cap Columns \cap op[p].approved

\* splitExternalDrops and partitionByPolicyApproved: of the columns the schema
\* does not declare, those approved and owned.  If the owned objects cannot be
\* read, or there are none, nothing is external.
Droppable(p, owned) ==
    (Real \ op[p].doc) \cap Columns \cap op[p].approved \cap owned

\* What makes room for a plan's alterations and renames.
Ousted(alters, renames) == (UNION {Shapes[o] : o \in alters}) \cup (UNION {From[o] : o \in renames})

\* resolveRenames: a rename whose both names are there is blocked.
Blocked(p) ==
    {o \in op[p].doc \cap Columns : From[o] \cap Real # {} /\ Same(o) \cap Real # {}}

\* Unapplied: the job and the registration do not look at it.
Partial(p, missing) == missing # {} /\ Kind(p) \notin {"job", "register"}

\* Where Apply goes on with what is left to add and drop: the batch, the indexes,
\* the links.
Stage(adds, drops) ==
    IF (adds \cap Columns) \cup drops # {} THEN "batch"
    ELSE IF adds \cap Indexes # {} THEN "index"
    ELSE IF adds \cap Links # {} THEN "links"
    ELSE "verify"

\* diffTenant: what is not there under its name is renamed, if the old name is
\* there, or added; what is there in another shape is altered.
Planned(p, owned, blind) ==
    LET adds    == op[p].doc \ Real
        alters  == {o \in adds : Shapes[o] \cap Real # {}}
        renames == {o \in (adds \cap Columns) \ alters : From[o] \cap Real # {}}
        drops   == Droppable(p, owned) \ Ousted(alters, renames)
    IN  /\ plan' = [plan EXCEPT ![p] = [adds |-> adds, alters |-> alters, renames |-> renames,
                                       drops |-> drops, blind |-> blind]]
        /\ Goto(p, IF adds \cup drops # {} THEN Stage(adds, drops)
                   ELSE IF Partial(p, Blocked(p)) THEN AfterFailure(p) ELSE AfterApply(p))

\* The approvals are used here, and nowhere after it.
Diff(p) ==
    /\ pc[p] = "diff"
    /\ \/ Planned(p, IF Owned = {} THEN Columns ELSE Owned, FALSE) /\ NoFault
       \/ Planned(p, Columns, TRUE) /\ Fault("owner")
       \/ UNCHANGED plan /\ Goto(p, AfterFailure(p)) /\ Fault("error")
    /\ op' = [op EXCEPT ![p].approved = {}]
    /\ UNCHANGED <<db, lock, jobs, prev, seen, latest, tries, marks>>

\* A transaction of p takes some objects away and puts others in place.
Change(p, gone, added) ==
    LET lost == (gone \cap Real) \ added
    IN  /\ tables' = (tables \ gone) \cup added
        /\ gaps' = IF p \in Deployers THEN (gaps \ added) \cup lost ELSE gaps \ added
        /\ undone' = IF p \in Workers THEN (undone \ added) \cup lost ELSE undone \ added

Unchanged == UNCHANGED <<tables, gaps, undone>>

\* ADD, RENAME and DROP COLUMN have no IF [NOT] EXISTS: the batch fails as a
\* whole if somebody else has done a part of it.  An ALTER only needs its column.
Batch(p) ==
    LET adds    == plan[p].adds \cap Columns
        alters  == plan[p].alters \cap Columns
        renames == plan[p].renames
        drops   == plan[p].drops
        there(o) == Same(o) \cap Real # {}
        fits  == /\ tables # None
                 /\ \A o \in adds : there(o) <=> o \in alters
                 /\ \A o \in renames : From[o] \cap Real # {}
                 /\ \A o \in drops : there(o)
        gone  == Ousted(alters, renames) \cup UNION {Same(o) \cup Parts[o] : o \in drops}
    IN  /\ pc[p] = "batch"
        /\ \/ /\ fits
              /\ Change(p, gone, adds)
              /\ Goto(p, Stage(plan[p].adds \ Columns, {}))
              /\ NoFault
           \/ /\ Goto(p, AfterFailure(p))
              /\ IF fits THEN Fault("ddl") ELSE NoFault
              /\ Unchanged
        /\ UNCHANGED <<record, history, lock, jobs, proc, alone, disturbed, unlogged, wiped>>

\* The plan has one object less to add.
Tried(p, o) == plan' = [plan EXCEPT ![p].adds = @ \ {o}]

\* What comes after it.
After(p, o) == Stage(plan[p].adds \ (Columns \cup {o}), {})

\* CREATE INDEX CONCURRENTLY, one after the other, after the batch has been
\* committed.  One that fails may leave an invalid index, which introspection
\* counts as present.
Index(p) ==
    /\ pc[p] = "index"
    /\ \E i \in plan[p].adds \cap Indexes :
          /\ Tried(p, i)
          /\ \/ /\ tables # None /\ i \notin Real
                /\ Change(p, {}, {i})
                /\ Goto(p, After(p, i))
                /\ NoFault
             \/ /\ tables = None \/ i \in Real
                /\ Goto(p, AfterFailure(p))
                /\ Unchanged /\ NoFault
             \/ /\ tables # None
                /\ Goto(p, AfterFailure(p))
                /\ Unchanged \/ Change(p, {}, {i})
                /\ Fault("ddl")
    /\ UNCHANGED <<record, history, lock, jobs, op, prev, seen, latest, tries, alone, disturbed,
                   unlogged, wiped>>

\* applyForeignKeys and applyExclusions: each in its own transaction, with the
\* DROP of the one it replaces.  One that the database refuses is skipped: among
\* them a DROP of what is gone and an ADD under a name that is taken.
AddLinks(p) ==
    /\ pc[p] = "links"
    /\ \E l \in plan[p].adds \cap Links :
          LET fits == tables # None /\ (Same(l) \cap Real # {} <=> l \in plan[p].alters)
          IN  /\ Tried(p, l)
              /\ Goto(p, After(p, l))
              /\ \/ fits /\ Change(p, Shapes[l], {l}) /\ NoFault
                 \/ ~fits /\ Unchanged /\ NoFault
                 \/ fits /\ Unchanged /\ Fault("ddl")
    /\ UNCHANGED <<record, history, lock, jobs, op, prev, seen, latest, tries, alone, disturbed,
                   unlogged, wiped>>

\* verifyApplied: what the schema declares and the database does not have, and
\* the renames that cannot be done.  A verification that cannot run answers that
\* nothing is missing.
Verify(p) ==
    LET missing == op[p].doc \ Real
    IN  /\ pc[p] = "verify"
        /\ \/ /\ Goto(p, IF Partial(p, missing \cup Blocked(p)) THEN AfterFailure(p) ELSE AfterApply(p))
              /\ gaps' = IF Kind(p) = "register" THEN gaps \cup missing ELSE gaps
              /\ UNCHANGED plan
              /\ NoFault
           \/ /\ Goto(p, AfterApply(p))
              /\ gaps' = gaps \cup missing
              /\ plan' = [plan EXCEPT ![p].blind = TRUE]
              /\ Fault("verify")
        /\ UNCHANGED <<db, lock, jobs, op, prev, seen, latest, tries, undone, alone, disturbed, unlogged, wiped>>

-----------------------------------------------------------------------------
(* The advisory lock: withTenantLock of the fan-out, process of the worker. *)

LockAttempts == 3

FanoutLock(p) ==
    /\ pc[p] = "lock" /\ p \in Deployers
    /\ \/ /\ lock = None
          /\ lock' = p
          /\ tries' = [tries EXCEPT ![p] = 0]
          /\ Goto(p, "diff")
          /\ NoFault
       \/ /\ lock # None
          /\ tries' = [tries EXCEPT ![p] = @ + 1]
          /\ Goto(p, IF tries[p] + 1 < LockAttempts THEN "lock" ELSE "failed")
          /\ UNCHANGED lock
          /\ NoFault
       \/ /\ Goto(p, "failed")
          /\ UNCHANGED <<lock, tries>>
          /\ Fault("error")
    /\ UNCHANGED <<db, jobs, op, prev, seen, latest, plan, marks>>

\* XReadGroup with ">": up to Count jobs that were never delivered.  They are
\* pending from then on, also if the reply is lost, and nobody reads pending jobs.
Read(w) ==
    LET n == IF Len(stream) < ReadCount THEN Len(stream) ELSE ReadCount
    IN  /\ pc[w] = "idle" /\ w \in Workers
        /\ inbox[w] = <<>> /\ stream # <<>>
        /\ stream' = SubSeq(stream, n + 1, Len(stream))
        /\ \/ inbox' = [inbox EXCEPT ![w] = SubSeq(stream, 1, n)] /\ NoFault
           \/ UNCHANGED inbox /\ Fault("redis")
        /\ UNCHANGED <<db, lock, open, sent, pc, proc, marks>>

\* process: the jobs that were read, one by one.
Take(w) ==
    /\ pc[w] = "idle" /\ w \in Workers
    /\ inbox[w] # <<>>
    /\ op' = [op EXCEPT ![w] = [kind |-> "job", doc |-> Head(inbox[w]).doc, approved |-> {},
                               attempt |-> Head(inbox[w]).attempt]]
    /\ Goto(w, "lock")
    /\ UNCHANGED <<db, lock, jobs, prev, seen, latest, tries, plan, marks, bounds>>

\* process returns: on to the next job.
Drop(w) == inbox' = [inbox EXCEPT ![w] = Tail(@)]

Again(w, attempt) ==
    Append(stream, [id |-> Head(inbox[w]).id, doc |-> op[w].doc, attempt |-> attempt])

\* Mutant: the job of a locked tenant is acknowledged and not enqueued anew.
WorkerLockDrops(w) ==
    /\ pc[w] = "lock" /\ w \in Workers
    /\ IF lock = None
       THEN lock' = w /\ Goto(w, "diff") /\ UNCHANGED <<inbox, proc>>
       ELSE Goto(w, "idle") /\ Forget(w) /\ Drop(w) /\ UNCHANGED lock
    /\ UNCHANGED <<db, stream, open, sent, marks, bounds>>

\* The lock is free; or a peer has it, and the job is enqueued anew; or the
\* connection fails, and the job stays unacknowledged.
WorkerLock(w) ==
    /\ pc[w] = "lock" /\ w \in Workers
    /\ \/ /\ lock = None
          /\ lock' = w
          /\ Goto(w, "diff")
          /\ UNCHANGED <<stream, inbox, proc>>
          /\ NoFault
       \/ /\ lock # None
          /\ Goto(w, "idle") /\ Forget(w) /\ Drop(w)
          /\ \/ stream' = Again(w, op[w].attempt) /\ NoFault
             \/ UNCHANGED stream /\ Fault("redis")
          /\ UNCHANGED lock
       \/ /\ Goto(w, "idle") /\ Forget(w) /\ Drop(w)
          /\ UNCHANGED <<lock, stream>>
          /\ Fault("error")
    /\ UNCHANGED <<db, open, sent, marks>>

\* A job that failed: again with the next attempt, until maxRetries.
Retry(w) ==
    /\ pc[w] = "retry"
    /\ \/ /\ op[w].attempt < MaxRetries
          /\ \/ stream' = Again(w, op[w].attempt + 1) /\ NoFault
             \/ UNCHANGED stream /\ Fault("redis")
          /\ Drop(w)
          /\ Goto(w, "unlockFailed")
       \/ /\ op[w].attempt >= MaxRetries
          /\ Goto(w, "unlock")
          /\ UNCHANGED <<stream, inbox>>
          /\ NoFault
    /\ UNCHANGED <<db, lock, open, sent, proc, marks>>

\* pg_advisory_unlock, deferred.  A worker at "unlock" has applied its job or given
\* it up, and acknowledged it.
Unlock(p) ==
    /\ pc[p] \in {"unlock", "unlockFailed"}
    /\ lock' = None
    /\ IF p \in Workers
       THEN /\ Goto(p, "idle") /\ Forget(p)
            /\ IF pc[p] = "unlock"
               THEN open' = open \ {Head(inbox[p]).id} /\ Drop(p)
               ELSE UNCHANGED <<open, inbox>>
       ELSE /\ Goto(p, IF pc[p] = "unlock" THEN "report" ELSE "failed")
            /\ UNCHANGED <<proc, open, inbox>>
    /\ UNCHANGED <<db, stream, sent, marks, bounds>>

\* The process dies, or the client of a PUT leaves and cancels its context: no
\* further statement is executed, restoreSchema's neither.  The session's lock
\* is released; the jobs that were read are not acknowledged, and nobody reads the
\* pending entries again.
Crash(p) ==
    /\ Active(p) \/ (p \in Workers /\ inbox[p] # <<>>)
    /\ Fault("crash")
    /\ lock' = IF lock = p THEN None ELSE lock
    /\ inbox' = [w \in Workers |-> IF w = p THEN <<>> ELSE inbox[w]]
    /\ Goto(p, "idle") /\ Forget(p)
    /\ disturbed' = (disturbed \/ p \in Deployers)
    /\ UNCHANGED <<db, stream, open, sent, gaps, undone, alone, unlogged, wiped>>

-----------------------------------------------------------------------------
Migrate(p) == Diff(p) \/ Batch(p) \/ Index(p) \/ AddLinks(p) \/ Verify(p) \/ Unlock(p)

DeployStep(p) ==
    \/ ReadPrevious(p) \/ Insert(p) \/ SeedCount(p) \/ SeedRead(p)
    \/ AppendLatest(p) \/ AppendInsert(p) \/ Update(p) \/ Restore(p)
    \/ Hook(p) \/ DropSchema(p) \/ DeleteHistory(p) \/ DeleteTenant(p) \/ Enqueue(p) \/ Return(p) \/ FanoutLock(p)
    \/ Migrate(p)

JobStep(w) == Read(w) \/ Take(w) \/ WorkerLock(w) \/ Retry(w) \/ Migrate(w)

Next ==
    \/ \E p \in Deployers :
          \/ \E kind \in DeployKinds, s \in Schemas \cup {{}}, a \in Approvals : Begin(p, kind, s, a)
          \/ DeployStep(p)
    \/ \E w \in Workers : JobStep(w)
    \/ \E p \in Procs : Crash(p)

Spec == Init /\ [][Next]_vars

-----------------------------------------------------------------------------
(***************************************************************************)
(* Properties.                                                             *)
(***************************************************************************)

Location == {"idle", "done", "failed", "readPrev", "insert", "seedCount", "seedRead", "seedLatest",
             "seedInsert", "histLatest", "histInsert", "update", "restore", "hook", "dropSchema",
             "deleteHistory", "deleteTenant", "enqueue", "report", "lock", "diff", "batch", "index", "links",
             "verify", "retry", "unlock", "unlockFailed"}

\* Every variable has its type.
TypeOK ==
    /\ record \in {None} \cup Docs
    /\ tables \in {None} \cup Docs
    /\ history \in Seq(Version)
    /\ lock \in Procs \cup {None}
    /\ stream \in Seq(Job)
    /\ inbox \in [Workers -> Seq(Job)]
    /\ open \in SUBSET Nat /\ sent \in Nat
    /\ pc \in [Procs -> Location]
    /\ op \in [Procs -> [kind : DeployKinds \cup {"idle", "job"}, doc : Docs,
                         approved : SUBSET Columns, attempt : 0..MaxRetries]]
    /\ prev \in [Procs -> {None} \cup Docs]
    /\ seen \in [Procs -> {None} \cup Docs]
    /\ latest \in [Procs -> Nat]
    /\ tries \in [Procs -> Nat]
    /\ plan \in [Procs -> [adds : Docs, alters : Docs, renames : SUBSET Columns,
                           drops : SUBSET Columns, blind : BOOLEAN]]
    /\ gaps \in Docs /\ undone \in Docs
    /\ alone \in SUBSET Deployers
    /\ disturbed \in BOOLEAN /\ unlogged \in BOOLEAN /\ wiped \in BOOLEAN
    /\ deploys \in Nat /\ faults \in Nat

\* ENG-13: "a tenant's recorded schema describes its real database".  When no
\* deploy is under way and none overlapped another or was cut off since the last
\* success, the database has every object the record declares, except what a
\* failed deploy dropped or replaced, what a registration skipped, and what a job,
\* which carries the document of its time, has put something older in the place of.
RecordIsBacked ==
    AtRest /\ ~disturbed /\ record # None => record \subseteq Real \cup gaps \cup undone

\* The same without that exception, once every job is done: "the worker can only
\* ever create/add/alter/rename", and yet the job of an earlier PUT alters and
\* re-points what a later deploy has changed.  Not a property of this code.
JobsKeepTheRecord ==
    (AtRest /\ ~disturbed /\ record # None /\ open = {}) => record \subseteq Real \cup gaps

\* "the LATEST version is always the tenant's current schema": under the same
\* conditions, and if no Append failed.  And the evidence EnsureSeeded keeps: the
\* schema a deploy is about to overwrite is in the history, so that the columns it
\* declared stay approvable.
HistoryMirrorsRecord ==
    (~disturbed /\ ~unlogged /\ record # None) =>
        /\ AtRest /\ history # <<>> => history[Len(history)].doc = record
        /\ (\E p \in Deployers : pc[p] = "update")
              => \E v \in DOMAIN history : history[v].doc = record

\* However deploys race for a version number, no version repeats the one before
\* it (compared by hash): each re-reads the latest after it lost the race.  A failed
\* registration that deletes the history in the middle of another deploy's Append
\* leaves that one with a number nobody contests.
VersionsDiffer ==
    ~wiped => \A v \in 1..(Len(history) - 1) : history[v] # history[v + 1]

\* The jobs in a sequence, and those that somebody will still attend to.
Ids(jobsIn) == {jobsIn[k].id : k \in DOMAIN jobsIn}
Attended == Ids(stream) \cup UNION {Ids(inbox[w]) : w \in Workers}

\* A job that is not settled is waiting or in one worker's hands, however often it
\* was put back because of the lock or an error, and no settled one is; only a
\* fault (a crash, a failed XReadGroup, XAdd or Acquire) makes jobs disappear, and
\* one fault no more than a worker reads at once.
NoJobVanishes ==
    /\ Attended \subseteq open
    /\ Cardinality(open \ Attended) <= ReadCount * faults

\* ENG-9: a column no schema ever declared belongs to the consumer and is never
\* dropped, even if an operator approves it, unless the owned objects could not be
\* read.
ForeignColumnsKept ==
    [][(tables # None /\ tables' # None /\ ~\E p \in Procs : plan[p].blind)
            => Foreign \cap tables \subseteq tables']_vars
=============================================================================
