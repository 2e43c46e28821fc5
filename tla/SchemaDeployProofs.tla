------------------------- MODULE SchemaDeployProofs -------------------------
(***************************************************************************)
(* What SchemaDeploy promises, for every number of deployers and workers,  *)
(* every set of schemas and every number of deploys and faults: the        *)
(* consumer's columns are kept, no job vanishes, no version repeats the    *)
(* one before it, the record is backed by the database and the history's   *)
(* latest version is the record.                                           *)
(***************************************************************************)
EXTENDS SchemaDeploy, FiniteSetTheorems, TLAPS

(* The inductive invariant, part by part. *)

\* TypeOK, by the part of the state it types.
DbTyped ==
    /\ record \in {None} \cup Docs
    /\ tables \in {None} \cup Docs
    /\ history \in Seq(Version)

JobsTyped ==
    /\ lock \in Procs \cup {None}
    /\ stream \in Seq(Job)
    /\ inbox \in [Workers -> Seq(Job)]
    /\ open \in SUBSET Nat /\ sent \in Nat

OpTyped ==
    op \in [Procs -> [kind : DeployKinds \cup {"idle", "job"}, doc : Docs,
                      approved : SUBSET Columns, attempt : 0..MaxRetries]]

ReadTyped == prev \in [Procs -> {None} \cup Docs]
SeenTyped == seen \in [Procs -> {None} \cup Docs]
LatestTyped == latest \in [Procs -> Nat]
TriesTyped == tries \in [Procs -> Nat]
PlanTyped ==
    plan \in [Procs -> [adds : Docs, alters : Docs, renames : SUBSET Columns,
                        drops : SUBSET Columns, blind : BOOLEAN]]

GapsTyped == gaps \in Docs /\ undone \in Docs
FlagsTyped == disturbed \in BOOLEAN /\ unlogged \in BOOLEAN /\ wiped \in BOOLEAN
PcTyped == pc \in [Procs -> Location]
CountsTyped == alone \in SUBSET Deployers /\ deploys \in Nat /\ faults \in Nat

Mig  == {"diff", "batch", "index", "links", "verify"}
Seed == {"seedCount", "seedRead", "seedLatest", "seedInsert"}
Hist == {"histLatest", "histInsert"}

\* The statements a deploy of each kind executes.
OnPath(kind, l) ==
    /\ kind = "idle" => l = "idle"
    /\ kind = "job" => l \in Mig \cup {"lock", "retry", "unlock", "unlockFailed"}
    /\ kind = "put" => l \in Seed \cup Mig \cup Hist
                              \cup {"readPrev", "update", "restore", "enqueue", "report", "failed"}
    /\ kind = "register" => l \in Hist \cup Mig \cup {"insert", "hook", "dropSchema",
                                   "deleteHistory", "deleteTenant", "report", "failed"}
    /\ kind = "fanout" => l \in Mig \cup Seed \cup Hist
                              \cup {"lock", "update", "unlock", "unlockFailed", "report", "failed"}
    /\ kind = "cli" => l \in Mig \cup Seed \cup Hist \cup {"update", "report", "failed"}
    /\ kind = "backfill" => l \in Seed \cup {"done"}

Paths == \A p \in Procs : OnPath(Kind(p), pc[p])

\* Workers have jobs, deployers deploys; a process without either holds nothing.
Role(p) ==
    /\ p \in Workers => Kind(p) \in {"idle", "job"}
    /\ p \in Deployers => Kind(p) # "job"
    /\ Kind(p) = "idle" => op[p] = Idle /\ plan[p] = NoPlan

Roles == \A p \in Procs : Role(p)

\* Only a PUT reads the schema to go back to.
Reads == \A p \in Procs : Kind(p) # "put" \/ pc[p] = "readPrev" => prev[p] = None

\* EnsureSeeded appends a schema it has read.
Seeds == \A p \in Procs : Seeding(p) => seen[p] # None

Routed == Paths /\ Roles /\ Reads /\ Seeds

\* A plan adds objects of its schema, and drops columns that its schema
\* does not declare.
Sound(p) ==
    /\ plan[p].adds \subseteq op[p].doc
    /\ plan[p].drops \cap op[p].doc = {}
    /\ p \in Workers => op[p].approved = {} /\ plan[p].drops = {}

Planning == \A p \in Procs : Sound(p)

\* Nothing recorded, or about to be, declares a column of the consumer; and what is
\* recorded declares something.
Proper(x) == x # None => x # {} /\ x \cap Foreign = {}

Holds(p) ==
    /\ op[p].doc \cap Foreign = {}
    /\ Kind(p) \notin {"idle", "backfill"} => op[p].doc # {}
    /\ Proper(prev[p])
    /\ seen[p] # None => seen[p] \cap Foreign = {}

Held == \A p \in Procs : p \in Deployers => Holds(p)

Declared ==
    /\ Proper(record)
    /\ \A v \in DOMAIN history : history[v].doc \cap Foreign = {}

Registering(p) == Kind(p) = "register" /\ pc[p] \notin {"insert", "failed", "report"}

\* One registration at a time has got past its INSERT, and its row is there until
\* it deletes it; without a row there is no PostgreSQL schema.
Rowed ==
    /\ record = None => tables = None
    /\ \A p \in Deployers : Registering(p) =>
          /\ record # None
          /\ pc[p] \in {"deleteHistory", "deleteTenant"} => tables = None
          /\ \A q \in Deployers : Registering(q) => q = p

\* Who owns the columns was asked before a drop was planned.
Asked == \A p \in Procs : plan[p].blind \/ plan[p].drops \cap Foreign = {}

\* The version an Append has read is still the latest, or the number it will ask
\* for is taken; and in the first case it is not the same document.
Appending(p) == pc[p] \in {"seedInsert", "histInsert"}

FreshAt(p) ==
    Appending(p) => /\ latest[p] <= Len(history)
                    /\ latest[p] = Len(history) => Latest # Item(p)

Fresh == ~wiped => \A p \in Procs : FreshAt(p)

\* A deploy that nobody overlapped is the only one; if nothing is disturbed, every
\* deploy under way is of this sort.
Solitary ==
    /\ \A p \in alone, q \in Deployers : Active(q) => q = p
    /\ ~disturbed => \A p \in Deployers : Active(p) => p \in alone

\* The deploy has written its schema to the row.
Wrote(p) ==
    \/ Kind(p) = "put" /\ pc[p] \in Mig \cup Hist \cup {"restore", "enqueue", "report"}
    \/ Kind(p) = "register" /\ pc[p] \in Mig \cup Hist \cup {"hook", "report"}
    \/ Kind(p) \in {"fanout", "cli"} /\ pc[p] \in Hist \cup {"unlock", "report"}

RecordedAt(p) == Wrote(p) => record \in {None, op[p].doc}
Recorded == \A p \in alone : RecordedAt(p)

\* The migration of the deploy has succeeded.
Migrated(p) ==
    \/ Kind(p) = "put" /\ pc[p] \in Hist \cup {"enqueue", "report"}
    \/ Kind(p) = "register" /\ pc[p] \in {"hook", "report"}
    \/ Kind(p) \in {"fanout", "cli"} /\ pc[p] \in Seed \cup Hist \cup {"update", "unlock", "report"}

Excused(p) == IF Kind(p) = "register" \/ plan[p].blind THEN gaps ELSE {}

\* The database has what the schema declares, except what the verification excused.
ProgressAt(p) == Migrated(p) => op[p].doc \subseteq Real \cup Excused(p) \cup undone
Progress == \A p \in alone : ProgressAt(p)

\* The deploy has not touched the row, or has put it back.
Untouched(p) ==
    \/ Kind(p) \in {"idle", "backfill"}
    \/ Kind(p) = "put" /\ pc[p] \in Seed \cup {"readPrev", "update", "failed"}
    \/ Kind(p) = "register" /\ pc[p] \in {"insert", "failed"}
    \/ Kind(p) \in {"fanout", "cli"} /\ pc[p] \in Mig \cup Seed \cup {"lock", "update", "unlockFailed", "failed"}

Quiet == \A p \in Deployers : Untouched(p)

\* The schema on record is backed by the database, and so is the one a PUT goes
\* back to.
Covered(x) == x \subseteq Real \cup gaps \cup undone

Backed ==
    ~disturbed =>
        /\ Quiet /\ record # None => Covered(record)
        /\ \A p \in Deployers : prev[p] # None => Covered(prev[p])

LastDoc == history[Len(history)].doc
Mirrors(x) == history # <<>> => LastDoc = x

\* The deploy has appended its version.
Logs(p) ==
    \/ Kind(p) = "put" /\ pc[p] \in {"enqueue", "report"}
    \/ Kind(p) = "register" /\ pc[p] \in Mig \cup {"hook", "report"}
    \/ Kind(p) \in {"fanout", "cli"} /\ pc[p] \in {"unlock", "report"}

\* What a deploy that nobody overlapped knows of the history.
LoggedAt(p) ==
    /\ Seeding(p) => seen[p] = record
    /\ pc[p] \in Seed \cup {"update"} => prev[p] \in {None, record}
    /\ pc[p] = "update" /\ record # None => history # <<>>
    /\ Logs(p) => history # <<>> /\ LastDoc = op[p].doc

Logged == ~unlogged => \A p \in alone : LoggedAt(p)

\* The PUT may still go back.
Revocable(p) == prev[p] # None /\ pc[p] \notin Hist \cup {"enqueue", "report", "failed"}

\* The latest version is the schema on record, or the one a PUT goes back to.
Mirrored ==
    ~disturbed /\ ~unlogged /\ record # None =>
        /\ Quiet => Mirrors(record)
        /\ \A p \in Deployers : Revocable(p) => Mirrors(prev[p])

\* No job is in two places.
Distinct(s) == \A i \in DOMAIN s, j \in DOMAIN s : s[i].id = s[j].id => i = j

Single ==
    /\ Distinct(stream)
    /\ \A w \in Workers : Distinct(inbox[w]) /\ Ids(stream) \cap Ids(inbox[w]) = {}
    /\ \A v \in Workers, w \in Workers : v # w => Ids(inbox[v]) \cap Ids(inbox[w]) = {}

\* The jobs are numbered, and a worker has no more of them than it reads at once.
Numbered ==
    /\ open \subseteq 1..sent
    /\ \A w \in Workers : Len(inbox[w]) <= ReadCount

\* A worker at work has the job in hand.
Handed == \A w \in Workers : pc[w] \notin {"idle", "unlockFailed"} => inbox[w] # <<>>

Shared == Single /\ Numbered /\ Handed

\* What a step of another process leaves alone.
Kept(p) ==
    /\ pc'[p] = pc[p] /\ op'[p] = op[p] /\ prev'[p] = prev[p]
    /\ seen'[p] = seen[p] /\ latest'[p] = latest[p] /\ plan'[p] = plan[p]

\* The steps of one process.
Acts(p) ==
    \/ p \in Deployers /\ \E k \in DeployKinds, s \in Schemas \cup {{}}, a \in Approvals : Begin(p, k, s, a)
    \/ p \in Deployers /\ DeployStep(p)
    \/ p \in Workers /\ JobStep(p)
    \/ Crash(p)

-----------------------------------------------------------------------------
\* Where a deploy of each kind begins.
LEMMA FirstSteps ==
    /\ FirstStep("put") = "readPrev" /\ FirstStep("register") = "insert" /\ FirstStep("fanout") = "lock"
    /\ FirstStep("cli") = "diff" /\ FirstStep("backfill") = "seedCount"
  BY Zenon DEF FirstStep

\* Where a deploy of each kind goes on after its version was appended, and after its
\* migration succeeded or failed.
LEMMA Ways ==
    ASSUME NEW p
    PROVE  /\ Kind(p) = "put" => /\ AfterHistory(p) = "enqueue" /\ AfterApply(p) = "histLatest"
                                 /\ AfterFailure(p) = "restore"
           /\ Kind(p) = "register" => /\ AfterHistory(p) = "diff" /\ AfterApply(p) = "hook"
                                      /\ AfterFailure(p) = "dropSchema"
           /\ Kind(p) = "fanout" => /\ AfterHistory(p) = "unlock" /\ AfterApply(p) = "seedCount"
                                    /\ AfterFailure(p) = "unlockFailed"
           /\ Kind(p) = "cli" => /\ AfterHistory(p) = "report" /\ AfterApply(p) = "seedCount"
                                 /\ AfterFailure(p) = "failed"
           /\ Kind(p) = "job" => AfterApply(p) = "unlock" /\ AfterFailure(p) = "retry"
  BY Zenon DEF AfterHistory, AfterApply, AfterFailure

\* A step is a step of one process.
LEMMA Somebody == [Next]_vars => UNCHANGED vars \/ \E p \in Procs : Acts(p)
  BY DEF Next, Acts, Procs

\* It leaves the other processes where they are.
LEMMA OthersKept ==
    ASSUME TypeOK, NEW p \in Procs, Acts(p), NEW q \in Procs, q # p
    PROVE  Kept(q)
<1> USE DEF TypeOK, Kept, Goto, Forget, proc
<1>1. CASE \E k \in DeployKinds, s \in Schemas \cup {{}}, a \in Approvals : Begin(p, k, s, a)
  BY <1>1 DEF Begin
<1>2. CASE ReadPrevious(p)
  BY <1>2 DEF ReadPrevious
<1>3. CASE Insert(p)
  BY <1>3 DEF Insert
<1>4. CASE SeedCount(p)
  BY <1>4 DEF SeedCount
<1>5. CASE SeedRead(p)
  BY <1>5 DEF SeedRead
<1>6. CASE AppendLatest(p)
  BY <1>6 DEF AppendLatest, AppendFails
<1>7. CASE AppendInsert(p)
  BY <1>7 DEF AppendInsert, AppendFails
<1>8. CASE Update(p)
  BY <1>8 DEF Update
<1>9. CASE Restore(p)
  BY <1>9 DEF Restore
<1>10. CASE Hook(p)
  BY <1>10 DEF Hook
<1>11. CASE DropSchema(p)
  BY <1>11 DEF DropSchema, Cleanup
<1>12. CASE DeleteHistory(p)
  BY <1>12 DEF DeleteHistory, Cleanup
<1>13. CASE DeleteTenant(p)
  BY <1>13 DEF DeleteTenant, Cleanup
<1>14. CASE Enqueue(p)
  BY <1>14 DEF Enqueue
<1>15. CASE Return(p)
  BY <1>15 DEF Return
<1>16. CASE FanoutLock(p)
  BY <1>16 DEF FanoutLock
<1>17. CASE Diff(p)
  BY <1>17 DEF Diff, Planned
<1>18. CASE Batch(p)
  BY <1>18 DEF Batch
<1>19. CASE Index(p)
  BY <1>19 DEF Index, Tried
<1>20. CASE AddLinks(p)
  BY <1>20 DEF AddLinks, Tried
<1>21. CASE Verify(p)
  BY <1>21 DEF Verify
<1>22. CASE Unlock(p)
  BY <1>22 DEF Unlock
<1>23. CASE Read(p) \/ Take(p)
  BY <1>23 DEF Read, Take
<1>24. CASE WorkerLock(p)
  BY <1>24 DEF WorkerLock
<1>25. CASE Retry(p)
  BY <1>25 DEF Retry
<1>26. CASE Crash(p)
  BY <1>26 DEF Crash
<1> QED
  BY <1>1, <1>2, <1>3, <1>4, <1>5, <1>6, <1>7, <1>8, <1>9, <1>10, <1>11, <1>12, <1>13, <1>14, <1>15,
     <1>16, <1>17, <1>18, <1>19, <1>20, <1>21, <1>22, <1>23, <1>24, <1>25, <1>26 DEF Acts,
     DeployStep, JobStep, Migrate

\* Where the migration and Append may go on.
LEMMA Targets ==
    ASSUME TypeOK, NEW p \in Procs, OnPath(Kind(p), pc[p])
    PROVE  /\ pc[p] \in Mig => /\ AfterApply(p) \in {"histLatest", "hook", "seedCount", "unlock"}
                               /\ AfterFailure(p) \in {"restore", "dropSchema", "unlockFailed", "failed", "retry"}
           /\ pc[p] \in Hist \cup {"seedLatest", "seedInsert"} =>
                 AfterAppend(p) \in {"done", "update", "enqueue", "diff", "unlock", "report"}
<1>1. Kind(p) \in {"put", "register", "fanout", "cli", "backfill", "idle", "job"}
  BY DEF TypeOK, Kind, DeployKinds
<1>2. pc[p] \in Mig => Kind(p) \in {"put", "register", "fanout", "cli", "job"}
  BY <1>1 DEF OnPath, Mig, Seed
<1>3. pc[p] \in Hist => Kind(p) \in {"put", "register", "fanout", "cli"}
  BY <1>1 DEF OnPath, Mig, Seed, Hist
<1>4. pc[p] \in {"seedLatest", "seedInsert"} => AfterAppend(p) \in {"done", "update"}
  BY DEF AfterAppend, Seeding, AfterSeed
<1>5. pc[p] \in Hist => AfterAppend(p) = AfterHistory(p)
  BY DEF AfterAppend, Seeding, Hist
<1> QED
  BY <1>2, <1>3, <1>4, <1>5, Ways

\* What is left of a plan is a stage of the migration.
LEMMA Stages == \A adds, drops : Stage(adds, drops) \in Mig
  BY DEF Stage, Mig

\* A statement of the migration is followed by another, or by what comes after them.
LEMMA MigGoes ==
    ASSUME TypeOK, NEW p \in Procs, Diff(p) \/ Batch(p) \/ Index(p) \/ AddLinks(p) \/ Verify(p)
    PROVE  pc[p] \in Mig /\ pc'[p] \in Mig \cup {AfterApply(p), AfterFailure(p)}
<1> USE DEF TypeOK, Goto
<1>1. CASE Diff(p)
  <2>1. ASSUME NEW owned, NEW b, Planned(p, owned, b)
        PROVE  pc'[p] \in Mig \cup {AfterApply(p), AfterFailure(p)}
    BY <2>1, Stages DEF Planned
  <2>2. pc[p] = "diff"
    BY <1>1 DEF Diff
  <2> QED
    BY <1>1, <2>1, <2>2 DEF Diff, Mig
<1>2. CASE Batch(p)
  BY <1>2, Stages DEF Batch, Mig
<1>3. CASE Index(p)
  BY <1>3, Stages DEF Index, After, Mig
<1>4. CASE AddLinks(p)
  BY <1>4, Stages DEF AddLinks, After, Mig
<1>5. CASE Verify(p)
  BY <1>5 DEF Verify, Mig
<1> QED
  BY <1>1, <1>2, <1>3, <1>4, <1>5

\* A statement of the migration leaves the deploy what it is: the diff uses its
\* approvals up, and nothing else of it changes.
LEMMA SameDeploy ==
    ASSUME TypeOK, NEW p \in Procs, Diff(p) \/ Batch(p) \/ Index(p) \/ AddLinks(p) \/ Verify(p)
    PROVE  /\ op' = op \/ op' = [op EXCEPT ![p].approved = {}]
           /\ \A q \in Procs : op'[q].kind = op[q].kind /\ op'[q].doc = op[q].doc
<1>1. op' = op \/ op' = [op EXCEPT ![p].approved = {}]
  BY DEF Diff, Batch, Index, AddLinks, Verify, proc
<1>2. OpTyped
  BY DEF TypeOK, OpTyped
<1>3. CASE op' = [op EXCEPT ![p].approved = {}]
  BY <1>2, <1>3 DEF OpTyped
<1> QED
  BY <1>1, <1>3

\* What is planned.
LEMMA PlanIs ==
    ASSUME TypeOK, NEW p \in Procs, NEW owned, NEW b, Planned(p, owned, b)
    PROVE  /\ plan'[p].adds = op[p].doc \ Real
           /\ plan'[p].drops \subseteq Droppable(p, owned)
           /\ plan'[p].blind = b
<1> DEFINE adds    == op[p].doc \ Real
           alters  == {x \in adds : Shapes[x] \cap Real # {}}
           renames == {x \in (adds \cap Columns) \ alters : From[x] \cap Real # {}}
           drops   == Droppable(p, owned) \ Ousted(alters, renames)
<1>1. plan' = [plan EXCEPT ![p] = [adds |-> adds, alters |-> alters, renames |-> renames,
                                   drops |-> drops, blind |-> b]]
  BY DEF Planned
<1> HIDE DEF alters, renames
<1> QED
  BY <1>1 DEF TypeOK

\* What trying to add an object leaves of a plan.
LEMMA TriedLeaves ==
    ASSUME TypeOK, NEW p \in Procs, NEW o, Tried(p, o)
    PROVE  /\ plan'[p].adds = plan[p].adds \ {o} /\ plan'[p].drops = plan[p].drops
           /\ plan'[p].blind = plan[p].blind
  BY DEF TypeOK, Tried

\* A verification that could not run leaves the plan blind.
LEMMA VerifyLeaves ==
    ASSUME TypeOK, NEW p \in Procs, Verify(p)
    PROVE  /\ plan'[p].adds = plan[p].adds /\ plan'[p].drops = plan[p].drops
           /\ plan[p].blind => plan'[p].blind
<1>1. \/ plan' = plan
      \/ plan' = [plan EXCEPT ![p] = [plan[p] EXCEPT !.blind = TRUE]]
  BY DEF Verify
<1> QED
  BY <1>1 DEF TypeOK

\* The record and the PostgreSQL schema stay sets of objects, the history a sequence
\* of versions.
LEMMA DbStep == TypeOK /\ Routed /\ DbTyped /\ [Next]_vars => DbTyped'
<1> SUFFICES ASSUME TypeOK, Routed, DbTyped, [Next]_vars PROVE DbTyped'
  OBVIOUS
<1> USE DEF TypeOK, DbTyped, Procs, Fault, NoFault, Goto, db, jobs, proc, marks, bounds
<1>1. ASSUME NEW p \in Deployers, Insert(p) PROVE DbTyped'
  BY <1>1 DEF Insert, Docs
<1>2. ASSUME NEW p \in Deployers, AppendInsert(p) PROVE DbTyped'
  <2>1. Item(p) \in Version
    BY DEF Item, Version, Routed, Seeds, Kind
  <2>2. Append(history, Item(p)) \in Seq(Version)
    BY <2>1
  <2> QED
    BY <1>2, <2>2 DEF AppendInsert, AppendFails
<1>3. ASSUME NEW p \in Deployers, Update(p) PROVE DbTyped'
  BY <1>3 DEF Update
<1>4. ASSUME NEW p \in Deployers, Restore(p) PROVE DbTyped'
  BY <1>4 DEF Restore
<1>5. ASSUME NEW p \in Deployers, DropSchema(p) PROVE DbTyped'
  BY <1>5 DEF DropSchema, Cleanup
<1>6. ASSUME NEW p \in Deployers, DeleteHistory(p) PROVE DbTyped'
  BY <1>6 DEF DeleteHistory, Cleanup
<1>7. ASSUME NEW p \in Deployers, DeleteTenant(p) PROVE DbTyped'
  BY <1>7 DEF DeleteTenant, Cleanup
<1>8. ASSUME NEW p, tables # None, NEW gone, NEW added \in Docs, Change(p, gone, added)
      PROVE  tables' \in Docs
  BY <1>8 DEF Change, Docs
<1>9. ASSUME NEW p \in Procs, Batch(p) PROVE DbTyped'
  <2>1. plan[p].adds \cap Columns \in Docs
    BY DEF Docs
  <2> QED
    BY <1>8, <1>9, <2>1 DEF Batch, Unchanged
<1>10. ASSUME NEW p \in Procs, Index(p) \/ AddLinks(p) PROVE DbTyped'
  <2>1. \A o \in plan[p].adds : {o} \in Docs
    BY DEF Docs
  <2> QED
    BY <1>8, <1>10, <2>1 DEF Index, AddLinks, Unchanged
<1>11. ASSUME NEW p \in Deployers, NEW k \in DeployKinds, NEW s \in Schemas \cup {{}},
              NEW a \in Approvals, Begin(p, k, s, a)
       PROVE DbTyped'
  BY <1>11 DEF Begin
<1>12. ASSUME NEW p \in Procs, ReadPrevious(p) \/ SeedCount(p) \/ SeedRead(p) \/ AppendLatest(p)
              \/ Hook(p) \/ Enqueue(p) \/ Return(p) \/ FanoutLock(p)
       PROVE DbTyped'
  BY <1>12 DEF ReadPrevious, SeedCount, SeedRead, AppendLatest, AppendFails, Hook, Enqueue, Return,
     Forget, FanoutLock
<1>13. ASSUME NEW p \in Procs, Diff(p) \/ Verify(p) \/ Unlock(p) \/ Read(p) \/ Take(p) \/ WorkerLock(p)
              \/ Retry(p) \/ Crash(p)
       PROVE DbTyped'
  BY <1>13 DEF Diff, Planned, Verify, Unlock, Forget, Read, Take, WorkerLock, Retry, Crash
<1>14. CASE UNCHANGED vars
  BY <1>14 DEF vars
<1> QED
  BY <1>1, <1>2, <1>3, <1>4, <1>5, <1>6, <1>7, <1>8, <1>9, <1>10, <1>11, <1>12, <1>13, <1>14
     DEF Next, DeployStep, JobStep, Migrate, Procs

\* The lock has an owner or none; the stream and the workers have jobs.
LEMMA JobsStep == TypeOK /\ Handed /\ JobsTyped /\ [Next]_vars => JobsTyped'
<1> SUFFICES ASSUME TypeOK, Handed, JobsTyped, [Next]_vars PROVE JobsTyped'
  OBVIOUS
<1> USE DEF TypeOK, JobsTyped, Procs, Fault, NoFault, Goto, db, jobs, proc, marks, bounds
<1>t. ASSUME NEW w \in Workers, inbox[w] # <<>>
      PROVE  /\ Head(inbox[w]).id \in Nat /\ Head(inbox[w]).doc \in Docs
             /\ Head(inbox[w]).attempt \in 0..MaxRetries
             /\ Tail(inbox[w]) \in Seq(Job)
  <2>1. inbox[w] \in Seq(Job) /\ inbox[w] # <<>>
    BY <1>t
  <2>2. Head(inbox[w]) \in Job /\ Tail(inbox[w]) \in Seq(Job)
    BY <2>1
  <2> QED
    BY <2>2 DEF Job
<1>d. ASSUME NEW w \in Workers, Drop(w), inbox[w] # <<>>
      PROVE  inbox' \in [Workers -> Seq(Job)]
  BY <1>t, <1>d DEF Drop
<1>1. ASSUME NEW p \in Deployers, Enqueue(p) PROVE JobsTyped'
  <2>1. [id |-> sent + 1, doc |-> op[p].doc, attempt |-> 0] \in Job
    BY SchemaDeployAssumption DEF Job
  <2>2. Append(stream, [id |-> sent + 1, doc |-> op[p].doc, attempt |-> 0]) \in Seq(Job)
    BY <2>1
  <2>3. /\ lock' = lock /\ inbox' = inbox
        /\ \/ open' = open /\ sent' = sent
           \/ open' = open \cup {sent + 1} /\ sent' = sent + 1
    BY <1>1 DEF Enqueue
  <2>4. (stream \in Seq(Job))'
    BY <1>1, <2>2 DEF Enqueue
  <2>5. CASE open' = open /\ sent' = sent
    BY <2>3, <2>4, <2>5
  <2>6. CASE open' = open \cup {sent + 1} /\ sent' = sent + 1
    <3>1. open \cup {sent + 1} \in SUBSET Nat /\ sent + 1 \in Nat
      OBVIOUS
    <3> QED
      BY <2>3, <2>4, <2>6, <3>1
  <2> QED
    BY <2>3, <2>5, <2>6
<1>2. ASSUME NEW p \in Procs, Unlock(p) PROVE JobsTyped'
  <2>1. CASE p \in Workers /\ pc[p] = "unlock"
    <3>1. Drop(p) /\ inbox[p] # <<>>
      BY <1>2, <2>1 DEF Unlock, Handed
    <3>2. inbox' \in [Workers -> Seq(Job)]
      BY <2>1, <3>1, <1>d
    <3> QED
      BY <1>2, <2>1, <3>2 DEF Unlock
  <2>2. CASE ~(p \in Workers /\ pc[p] = "unlock")
    BY <1>2, <2>2 DEF Unlock
  <2> QED
    BY <2>1, <2>2
<1>3. ASSUME NEW p \in Deployers, FanoutLock(p) PROVE JobsTyped'
  BY <1>3 DEF FanoutLock
<1>4. ASSUME NEW w \in Workers, Read(w) PROVE JobsTyped'
  <2> DEFINE n == IF Len(stream) < ReadCount THEN Len(stream) ELSE ReadCount
  <2>1. n \in 0..Len(stream)
    BY ReplacementAssumption
  <2>2. /\ stream' = SubSeq(stream, n + 1, Len(stream))
        /\ inbox' = inbox \/ inbox' = [inbox EXCEPT ![w] = SubSeq(stream, 1, n)]
        /\ UNCHANGED <<lock, open, sent>>
    BY <1>4 DEF Read
  <2> HIDE DEF n
  <2>3. SubSeq(stream, n + 1, Len(stream)) \in Seq(Job) /\ SubSeq(stream, 1, n) \in Seq(Job)
    BY <2>1
  <2> QED
    BY <2>2, <2>3
<1>5. ASSUME NEW w \in Workers, WorkerLock(w) PROVE JobsTyped'
  <2>1. inbox[w] # <<>>
    BY <1>5 DEF WorkerLock, Handed
  <2>2. [id |-> Head(inbox[w]).id, doc |-> op[w].doc, attempt |-> op[w].attempt] \in Job
    BY <1>t, <2>1 DEF Job
  <2>3. Again(w, op[w].attempt) \in Seq(Job)
    BY <2>2 DEF Again
  <2>4. inbox' = inbox \/ Drop(w)
    BY <1>5 DEF WorkerLock
  <2>5. inbox' \in [Workers -> Seq(Job)]
    BY <1>d, <2>1, <2>4
  <2> QED
    BY <1>5, <2>3, <2>5 DEF WorkerLock
<1>6. ASSUME NEW w \in Workers, Retry(w) PROVE JobsTyped'
  <2>1. inbox[w] # <<>>
    BY <1>6 DEF Retry, Handed
  <2>2. op[w].attempt < MaxRetries =>
            [id |-> Head(inbox[w]).id, doc |-> op[w].doc, attempt |-> op[w].attempt + 1] \in Job
    BY <1>t, <2>1, SchemaDeployAssumption DEF Job
  <2>3. op[w].attempt < MaxRetries => Again(w, op[w].attempt + 1) \in Seq(Job)
    BY <2>2 DEF Again
  <2>4. inbox' = inbox \/ Drop(w)
    BY <1>6 DEF Retry
  <2>5. inbox' \in [Workers -> Seq(Job)]
    BY <1>d, <2>1, <2>4
  <2> QED
    BY <1>6, <2>3, <2>5 DEF Retry
<1>7. ASSUME NEW p \in Procs, Crash(p) PROVE JobsTyped'
  <2>1. <<>> \in Seq(Job)
    OBVIOUS
  <2>2. inbox' \in [Workers -> Seq(Job)]
    BY <1>7, <2>1 DEF Crash
  <2> QED
    BY <1>7, <2>2 DEF Crash
<1>8. ASSUME NEW p \in Deployers, NEW k \in DeployKinds, NEW s \in Schemas \cup {{}},
             NEW a \in Approvals, Begin(p, k, s, a)
      PROVE JobsTyped'
  BY <1>8 DEF Begin
<1>9. ASSUME NEW p \in Procs, ReadPrevious(p) \/ Insert(p) \/ SeedCount(p) \/ SeedRead(p)
             \/ AppendLatest(p) \/ AppendInsert(p) \/ Update(p) \/ Restore(p) \/ Hook(p)
             \/ DropSchema(p) \/ DeleteHistory(p) \/ DeleteTenant(p) \/ Return(p)
      PROVE JobsTyped'
  BY <1>9 DEF ReadPrevious, Insert, SeedCount, SeedRead, AppendLatest, AppendFails, AppendInsert,
     Update, Restore, Hook, DropSchema, Cleanup, DeleteHistory, DeleteTenant, Return, Forget
<1>10. ASSUME NEW p \in Procs, Diff(p) \/ Batch(p) \/ Index(p) \/ AddLinks(p) \/ Verify(p) \/ Take(p)
       PROVE JobsTyped'
  BY <1>10 DEF Diff, Planned, Batch, Index, AddLinks, Verify, Take
<1>11. CASE UNCHANGED vars
  BY <1>11 DEF vars
<1> QED
  BY <1>1, <1>2, <1>3, <1>4, <1>5, <1>6, <1>7, <1>8, <1>9, <1>10, <1>11 DEF Next, DeployStep, JobStep,
     Migrate, Procs

\* What a process that has returned holds is of the right type.
LEMMA ForgetTyped ==
    ASSUME TypeOK, NEW p \in Procs, Forget(p)
    PROVE  OpTyped' /\ ReadTyped' /\ SeenTyped' /\ LatestTyped' /\ TriesTyped' /\ PlanTyped'
<1>1. OpTyped'
  BY SchemaDeployAssumption DEF Forget, Idle, TypeOK, OpTyped, Docs
<1>2. ReadTyped' /\ SeenTyped'
  BY DEF Forget, TypeOK, ReadTyped, SeenTyped
<1>3. LatestTyped'
  BY DEF Forget, TypeOK, LatestTyped
<1>4. TriesTyped'
  BY DEF Forget, TypeOK, TriesTyped
<1>5. PlanTyped'
  BY DEF Forget, NoPlan, TypeOK, PlanTyped, Docs
<1> QED
  BY <1>1, <1>2, <1>3, <1>4, <1>5

\* What a process deploys is one of the schemas, or the document of a job.
LEMMA OpStep == TypeOK /\ OpTyped /\ [Next]_vars => OpTyped'
<1> SUFFICES ASSUME TypeOK, OpTyped, [Next]_vars PROVE OpTyped'
  OBVIOUS
<1> USE DEF TypeOK, OpTyped, Procs, Fault, NoFault, Goto, db, jobs, proc, marks, bounds
<1>1. ASSUME NEW p \in Deployers, NEW k \in DeployKinds, NEW s \in Schemas \cup {{}},
             NEW a \in Approvals, Begin(p, k, s, a)
      PROVE OpTyped'
  BY <1>1, FirstSteps, SchemaDeployAssumption DEF Begin, Docs, DeployKinds
<1>2. ASSUME NEW w \in Workers, Take(w) PROVE OpTyped'
  <2>1. inbox[w] \in Seq(Job) /\ inbox[w] # <<>>
    BY <1>2 DEF Take
  <2>2. Head(inbox[w]) \in Job
    BY <2>1
  <2>3. Head(inbox[w]).doc \in Docs /\ Head(inbox[w]).attempt \in 0..MaxRetries
    BY <2>2 DEF Job
  <2> QED
    BY <1>2, <2>3 DEF Take
<1>3. ASSUME NEW p \in Procs, Return(p) \/ Crash(p) PROVE OpTyped'
  BY <1>3, ForgetTyped DEF Return, Crash
<1>4. ASSUME NEW p \in Procs, Unlock(p) PROVE OpTyped'
  <2>1. Forget(p) \/ UNCHANGED proc
    BY <1>4 DEF Unlock, WorkerLock
  <2> QED
    BY <2>1, ForgetTyped
<1>5. ASSUME NEW w \in Workers, WorkerLock(w) PROVE OpTyped'
  <2>1. Forget(w) \/ UNCHANGED proc
    BY <1>5 DEF Unlock, WorkerLock
  <2> QED
    BY <2>1, ForgetTyped
<1>6. ASSUME NEW p \in Procs, ReadPrevious(p) \/ Insert(p) \/ SeedCount(p) \/ SeedRead(p)
             \/ AppendLatest(p) \/ AppendInsert(p) \/ Update(p) \/ Restore(p) \/ Hook(p)
             \/ DropSchema(p) \/ DeleteHistory(p) \/ DeleteTenant(p) \/ Enqueue(p) \/ FanoutLock(p)
      PROVE OpTyped'
  BY <1>6 DEF ReadPrevious, Insert, SeedCount, SeedRead, AppendLatest, AppendFails, AppendInsert,
     Update, Restore, Hook, DropSchema, Cleanup, DeleteHistory, DeleteTenant, Enqueue, FanoutLock
<1>7. ASSUME NEW p \in Procs, Diff(p) \/ Batch(p) \/ Index(p) \/ AddLinks(p) \/ Verify(p)
             \/ Retry(p) \/ Read(p)
      PROVE OpTyped'
  <2>1. op' = op \/ op' = [op EXCEPT ![p].approved = {}]
    BY <1>7, SameDeploy DEF Retry, Read
  <2> HIDE DEF TypeOK
  <2>2. OpTyped
    BY DEF TypeOK
  <2>3. CASE op' = [op EXCEPT ![p].approved = {}]
    BY <2>2, <2>3
  <2> QED
    BY <2>1, <2>2, <2>3
<1>8. CASE UNCHANGED vars
  BY <1>8 DEF vars
<1> QED
  BY <1>1, <1>2, <1>3, <1>4, <1>5, <1>6, <1>7, <1>8 DEF Next, DeployStep, JobStep, Migrate, Procs

\* What a PUT goes back to is a set of objects, or nothing.
LEMMA ReadStep == TypeOK /\ ReadTyped /\ [Next]_vars => ReadTyped'
<1> SUFFICES ASSUME TypeOK, ReadTyped, [Next]_vars PROVE ReadTyped'
  OBVIOUS
<1> USE DEF TypeOK, ReadTyped, Procs, Fault, NoFault, Goto, db, jobs, proc, marks, bounds
<1>1. ASSUME NEW p \in Deployers, ReadPrevious(p) PROVE ReadTyped'
  BY <1>1 DEF ReadPrevious
<1>2. ASSUME NEW p \in Procs, Return(p) \/ Crash(p) PROVE ReadTyped'
  BY <1>2, ForgetTyped DEF Return, Crash
<1>3. ASSUME NEW p \in Procs, Unlock(p) PROVE ReadTyped'
  <2>1. Forget(p) \/ UNCHANGED proc
    BY <1>3 DEF Unlock, WorkerLock
  <2> QED
    BY <2>1, ForgetTyped
<1>4. ASSUME NEW w \in Workers, WorkerLock(w) PROVE ReadTyped'
  <2>1. Forget(w) \/ UNCHANGED proc
    BY <1>4 DEF Unlock, WorkerLock
  <2> QED
    BY <2>1, ForgetTyped
<1>5. ASSUME NEW p \in Deployers, NEW k \in DeployKinds, NEW s \in Schemas \cup {{}},
             NEW a \in Approvals, Begin(p, k, s, a)
      PROVE ReadTyped'
  BY <1>5 DEF Begin
<1>6. ASSUME NEW p \in Procs, Insert(p) \/ SeedCount(p) \/ SeedRead(p) \/ AppendLatest(p)
             \/ AppendInsert(p) \/ Update(p) \/ Restore(p) \/ Hook(p) \/ DropSchema(p)
             \/ DeleteHistory(p) \/ DeleteTenant(p) \/ Enqueue(p) \/ FanoutLock(p)
      PROVE ReadTyped'
  BY <1>6 DEF Insert, SeedCount, SeedRead, AppendLatest, AppendFails, AppendInsert, Update, Restore,
     Hook, DropSchema, Cleanup, DeleteHistory, DeleteTenant, Enqueue, FanoutLock
<1>7. ASSUME NEW p \in Procs, Diff(p) \/ Batch(p) \/ Index(p) \/ AddLinks(p) \/ Verify(p)
             \/ Read(p) \/ Take(p) \/ Retry(p)
      PROVE ReadTyped'
  BY <1>7 DEF Diff, Planned, Batch, Index, AddLinks, Verify, Read, Take, Retry
<1>8. CASE UNCHANGED vars
  BY <1>8 DEF vars
<1> QED
  BY <1>1, <1>2, <1>3, <1>4, <1>5, <1>6, <1>7, <1>8 DEF Next, DeployStep, JobStep, Migrate, Procs

\* What EnsureSeeded has read is a set of objects, or nothing.
LEMMA SeenStep == TypeOK /\ SeenTyped /\ [Next]_vars => SeenTyped'
<1> SUFFICES ASSUME TypeOK, SeenTyped, [Next]_vars PROVE SeenTyped'
  OBVIOUS
<1> USE DEF TypeOK, SeenTyped, Procs, Fault, NoFault, Goto, db, jobs, proc, marks, bounds
<1>1. ASSUME NEW p \in Deployers, SeedRead(p) PROVE SeenTyped'
  BY <1>1 DEF SeedRead, AfterSeed
<1>2. ASSUME NEW p \in Procs, Return(p) \/ Crash(p) PROVE SeenTyped'
  BY <1>2, ForgetTyped DEF Return, Crash
<1>3. ASSUME NEW p \in Procs, Unlock(p) PROVE SeenTyped'
  <2>1. Forget(p) \/ UNCHANGED proc
    BY <1>3 DEF Unlock, WorkerLock
  <2> QED
    BY <2>1, ForgetTyped
<1>4. ASSUME NEW w \in Workers, WorkerLock(w) PROVE SeenTyped'
  <2>1. Forget(w) \/ UNCHANGED proc
    BY <1>4 DEF Unlock, WorkerLock
  <2> QED
    BY <2>1, ForgetTyped
<1>5. ASSUME NEW p \in Deployers, NEW k \in DeployKinds, NEW s \in Schemas \cup {{}},
             NEW a \in Approvals, Begin(p, k, s, a)
      PROVE SeenTyped'
  BY <1>5 DEF Begin
<1>6. ASSUME NEW p \in Procs, ReadPrevious(p) \/ Insert(p) \/ SeedCount(p) \/ AppendLatest(p)
             \/ AppendInsert(p) \/ Update(p) \/ Restore(p) \/ Hook(p) \/ DropSchema(p)
             \/ DeleteHistory(p) \/ DeleteTenant(p) \/ Enqueue(p) \/ FanoutLock(p)
      PROVE SeenTyped'
  BY <1>6 DEF ReadPrevious, Insert, SeedCount, AppendLatest, AppendFails, AppendInsert, Update,
     Restore, Hook, DropSchema, Cleanup, DeleteHistory, DeleteTenant, Enqueue, FanoutLock
<1>7. ASSUME NEW p \in Procs, Diff(p) \/ Batch(p) \/ Index(p) \/ AddLinks(p) \/ Verify(p)
             \/ Read(p) \/ Take(p) \/ Retry(p)
      PROVE SeenTyped'
  BY <1>7 DEF Diff, Planned, Batch, Index, AddLinks, Verify, Read, Take, Retry
<1>8. CASE UNCHANGED vars
  BY <1>8 DEF vars
<1> QED
  BY <1>1, <1>2, <1>3, <1>4, <1>5, <1>6, <1>7, <1>8 DEF Next, DeployStep, JobStep, Migrate, Procs

\* The version Append has read is a number.
LEMMA LatestStep == TypeOK /\ LatestTyped /\ [Next]_vars => LatestTyped'
<1> SUFFICES ASSUME TypeOK, LatestTyped, [Next]_vars PROVE LatestTyped'
  OBVIOUS
<1> USE DEF TypeOK, LatestTyped, Procs, Fault, NoFault, Goto, db, jobs, proc, marks, bounds
<1>1. ASSUME NEW p \in Deployers, AppendLatest(p) PROVE LatestTyped'
  BY <1>1 DEF AppendLatest, AppendFails
<1>2. ASSUME NEW p \in Procs, Return(p) \/ Crash(p) PROVE LatestTyped'
  BY <1>2, ForgetTyped DEF Return, Crash
<1>3. ASSUME NEW p \in Procs, Unlock(p) PROVE LatestTyped'
  <2>1. Forget(p) \/ UNCHANGED proc
    BY <1>3 DEF Unlock, WorkerLock
  <2> QED
    BY <2>1, ForgetTyped
<1>4. ASSUME NEW w \in Workers, WorkerLock(w) PROVE LatestTyped'
  <2>1. Forget(w) \/ UNCHANGED proc
    BY <1>4 DEF Unlock, WorkerLock
  <2> QED
    BY <2>1, ForgetTyped
<1>5. ASSUME NEW p \in Deployers, NEW k \in DeployKinds, NEW s \in Schemas \cup {{}},
             NEW a \in Approvals, Begin(p, k, s, a)
      PROVE LatestTyped'
  BY <1>5 DEF Begin
<1>6. ASSUME NEW p \in Procs, ReadPrevious(p) \/ Insert(p) \/ SeedCount(p) \/ SeedRead(p)
             \/ AppendInsert(p) \/ Update(p) \/ Restore(p) \/ Hook(p) \/ DropSchema(p)
             \/ DeleteHistory(p) \/ DeleteTenant(p) \/ Enqueue(p) \/ FanoutLock(p)
      PROVE LatestTyped'
  BY <1>6 DEF ReadPrevious, Insert, SeedCount, SeedRead, AppendInsert, AppendFails, Update, Restore,
     Hook, DropSchema, Cleanup, DeleteHistory, DeleteTenant, Enqueue, FanoutLock
<1>7. ASSUME NEW p \in Procs, Diff(p) \/ Batch(p) \/ Index(p) \/ AddLinks(p) \/ Verify(p)
             \/ Read(p) \/ Take(p) \/ Retry(p)
      PROVE LatestTyped'
  BY <1>7 DEF Diff, Planned, Batch, Index, AddLinks, Verify, Read, Take, Retry
<1>8. CASE UNCHANGED vars
  BY <1>8 DEF vars
<1> QED
  BY <1>1, <1>2, <1>3, <1>4, <1>5, <1>6, <1>7, <1>8 DEF Next, DeployStep, JobStep, Migrate, Procs

\* The attempts are counted upwards.
LEMMA TriesStep == TypeOK /\ TriesTyped /\ [Next]_vars => TriesTyped'
<1> SUFFICES ASSUME TypeOK, TriesTyped, [Next]_vars PROVE TriesTyped'
  OBVIOUS
<1> USE DEF TypeOK, TriesTyped, Procs, Fault, NoFault, Goto, db, jobs, proc, marks, bounds
<1>1. ASSUME NEW p \in Deployers, AppendLatest(p) PROVE TriesTyped'
  <2>1. \/ tries' = tries
        \/ tries' = [tries EXCEPT ![p] = 0]
        \/ tries' = [tries EXCEPT ![p] = tries[p] + 1]
    BY <1>1 DEF AppendLatest, AppendInsert, AppendFails
  <2>2. [tries EXCEPT ![p] = 0] \in [Procs -> Nat]
    OBVIOUS
  <2>3. [tries EXCEPT ![p] = tries[p] + 1] \in [Procs -> Nat]
    OBVIOUS
  <2> QED
    BY <2>1, <2>2, <2>3
<1>2. ASSUME NEW p \in Deployers, AppendInsert(p) PROVE TriesTyped'
  <2>1. \/ tries' = tries
        \/ tries' = [tries EXCEPT ![p] = 0]
        \/ tries' = [tries EXCEPT ![p] = tries[p] + 1]
    BY <1>2 DEF AppendLatest, AppendInsert, AppendFails
  <2>2. [tries EXCEPT ![p] = 0] \in [Procs -> Nat]
    OBVIOUS
  <2>3. [tries EXCEPT ![p] = tries[p] + 1] \in [Procs -> Nat]
    OBVIOUS
  <2> QED
    BY <2>1, <2>2, <2>3
<1>3. ASSUME NEW p \in Deployers, FanoutLock(p) PROVE TriesTyped'
  <2>1. \/ tries' = tries
        \/ tries' = [tries EXCEPT ![p] = 0]
        \/ tries' = [tries EXCEPT ![p] = tries[p] + 1]
    BY <1>3 DEF FanoutLock
  <2>2. [tries EXCEPT ![p] = 0] \in [Procs -> Nat]
    OBVIOUS
  <2>3. [tries EXCEPT ![p] = tries[p] + 1] \in [Procs -> Nat]
    OBVIOUS
  <2> QED
    BY <2>1, <2>2, <2>3
<1>4. ASSUME NEW p \in Procs, Return(p) \/ Crash(p) PROVE TriesTyped'
  BY <1>4, ForgetTyped DEF Return, Crash
<1>5. ASSUME NEW p \in Procs, Unlock(p) PROVE TriesTyped'
  <2>1. Forget(p) \/ UNCHANGED proc
    BY <1>5 DEF Unlock, WorkerLock
  <2> QED
    BY <2>1, ForgetTyped
<1>6. ASSUME NEW w \in Workers, WorkerLock(w) PROVE TriesTyped'
  <2>1. Forget(w) \/ UNCHANGED proc
    BY <1>6 DEF Unlock, WorkerLock
  <2> QED
    BY <2>1, ForgetTyped
<1>7. ASSUME NEW p \in Deployers, NEW k \in DeployKinds, NEW s \in Schemas \cup {{}},
             NEW a \in Approvals, Begin(p, k, s, a)
      PROVE TriesTyped'
  BY <1>7 DEF Begin
<1>8. ASSUME NEW p \in Procs, ReadPrevious(p) \/ Insert(p) \/ SeedCount(p) \/ SeedRead(p)
             \/ Update(p) \/ Restore(p) \/ Hook(p) \/ DropSchema(p) \/ DeleteHistory(p)
             \/ DeleteTenant(p) \/ Enqueue(p)
      PROVE TriesTyped'
  BY <1>8 DEF ReadPrevious, Insert, SeedCount, SeedRead, Update, Restore, Hook, DropSchema, Cleanup,
     DeleteHistory, DeleteTenant, Enqueue
<1>9. ASSUME NEW p \in Procs, Diff(p) \/ Batch(p) \/ Index(p) \/ AddLinks(p) \/ Verify(p)
             \/ Read(p) \/ Take(p) \/ Retry(p)
      PROVE TriesTyped'
  BY <1>9 DEF Diff, Planned, Batch, Index, AddLinks, Verify, Read, Take, Retry
<1>10. CASE UNCHANGED vars
  BY <1>10 DEF vars
<1> QED
  BY <1>1, <1>2, <1>3, <1>4, <1>5, <1>6, <1>7, <1>8, <1>9, <1>10 DEF Next, DeployStep, JobStep,
     Migrate, Procs

\* A plan adds objects and drops columns.
LEMMA PlanStep == TypeOK /\ PlanTyped /\ [Next]_vars => PlanTyped'
<1> SUFFICES ASSUME TypeOK, PlanTyped, [Next]_vars PROVE PlanTyped'
  OBVIOUS
<1> USE DEF TypeOK, PlanTyped, Procs, Fault, NoFault, Goto, db, jobs, proc, marks, bounds
<1>1. ASSUME NEW p \in Procs, Diff(p) PROVE PlanTyped'
  <2>1. ASSUME NEW o, NEW b \in BOOLEAN, Planned(p, o, b) PROVE PlanTyped'
    <3> DEFINE adds    == op[p].doc \ Real
               alters  == {x \in adds : Shapes[x] \cap Real # {}}
               renames == {x \in (adds \cap Columns) \ alters : From[x] \cap Real # {}}
               drops   == Droppable(p, o) \ Ousted(alters, renames)
    <3>1. adds \in Docs /\ alters \in Docs /\ renames \in SUBSET Columns /\ drops \in SUBSET Columns
      BY DEF Droppable, Docs
    <3>2. plan' = [plan EXCEPT ![p] = [adds |-> adds, alters |-> alters, renames |-> renames,
                                       drops |-> drops, blind |-> b]]
      BY <2>1 DEF Planned
    <3> HIDE DEF adds, alters, renames, drops
    <3> QED
      BY <3>1, <3>2
  <2> QED
    BY <1>1, <2>1 DEF Diff
<1>2. ASSUME NEW p \in Procs, Verify(p) PROVE PlanTyped'
  <2>1. \/ plan' = plan
        \/ plan' = [plan EXCEPT ![p] = [plan[p] EXCEPT !.blind = TRUE]]
    BY <1>2 DEF Verify
  <2>2. [plan[p] EXCEPT !.blind = TRUE] \in [adds : Docs, alters : Docs, renames : SUBSET Columns,
                                             drops : SUBSET Columns, blind : BOOLEAN]
    OBVIOUS
  <2> QED
    BY <2>1, <2>2
<1>3. ASSUME NEW p \in Procs, Return(p) \/ Crash(p) PROVE PlanTyped'
  BY <1>3, ForgetTyped DEF Return, Crash
<1>4. ASSUME NEW p \in Procs, Unlock(p) PROVE PlanTyped'
  <2>1. Forget(p) \/ UNCHANGED proc
    BY <1>4 DEF Unlock, WorkerLock
  <2> QED
    BY <2>1, ForgetTyped
<1>5. ASSUME NEW w \in Workers, WorkerLock(w) PROVE PlanTyped'
  <2>1. Forget(w) \/ UNCHANGED proc
    BY <1>5 DEF Unlock, WorkerLock
  <2> QED
    BY <2>1, ForgetTyped
<1>6. ASSUME NEW p \in Deployers, NEW k \in DeployKinds, NEW s \in Schemas \cup {{}},
             NEW a \in Approvals, Begin(p, k, s, a)
      PROVE PlanTyped'
  BY <1>6 DEF Begin
<1>7. ASSUME NEW p \in Procs, ReadPrevious(p) \/ Insert(p) \/ SeedCount(p) \/ SeedRead(p)
             \/ AppendLatest(p) \/ AppendInsert(p) \/ Update(p) \/ Restore(p) \/ Hook(p)
             \/ DropSchema(p) \/ DeleteHistory(p) \/ DeleteTenant(p) \/ Enqueue(p) \/ FanoutLock(p)
      PROVE PlanTyped'
  BY <1>7 DEF ReadPrevious, Insert, SeedCount, SeedRead, AppendLatest, AppendFails, AppendInsert,
     Update, Restore, Hook, DropSchema, Cleanup, DeleteHistory, DeleteTenant, Enqueue, FanoutLock
<1>8. ASSUME NEW p \in Procs, Batch(p) \/ Read(p) \/ Take(p) \/ Retry(p)
      PROVE PlanTyped'
  BY <1>8 DEF Batch, Read, Take, Retry
<1>9. ASSUME NEW p \in Procs, Index(p) \/ AddLinks(p) PROVE PlanTyped'
  <2>1. PICK o : Tried(p, o)
    BY <1>9 DEF Index, AddLinks
  <2>2. plan' = [plan EXCEPT ![p] = [plan[p] EXCEPT !.adds = plan[p].adds \ {o}]]
    BY <2>1 DEF Tried
  <2>3. plan[p].adds \ {o} \in Docs
    BY DEF Docs
  <2> QED
    BY <2>2, <2>3
<1>10. CASE UNCHANGED vars
  BY <1>10 DEF vars
<1> QED
  BY <1>1, <1>2, <1>3, <1>4, <1>5, <1>6, <1>7, <1>8, <1>9, <1>10 DEF Next, DeployStep, JobStep, Migrate,
     Procs

\* What a deploy removed or skipped is a set of objects.
LEMMA GapsStep == TypeOK /\ GapsTyped /\ [Next]_vars => GapsTyped'
<1> SUFFICES ASSUME TypeOK, GapsTyped, [Next]_vars PROVE GapsTyped'
  OBVIOUS
<1> USE DEF TypeOK, GapsTyped, Procs, Fault, NoFault, Goto, db, jobs, proc, marks, bounds
<1>1. ASSUME NEW p, NEW gone, NEW added \in Docs, Change(p, gone, added) PROVE GapsTyped'
  BY <1>1 DEF Change, Real, Docs
<1>2. ASSUME NEW p \in Procs, Batch(p) PROVE GapsTyped'
  <2>1. plan[p].adds \cap Columns \in Docs
    BY DEF Docs
  <2> QED
    BY <1>1, <1>2, <2>1 DEF Batch, Unchanged
<1>3. ASSUME NEW p \in Procs, Index(p) \/ AddLinks(p) PROVE GapsTyped'
  <2>1. \A o \in plan[p].adds : {o} \in Docs
    BY DEF Docs
  <2> QED
    BY <1>1, <1>3, <2>1 DEF Index, AddLinks, Unchanged
<1>4. ASSUME NEW p \in Procs, Verify(p) PROVE GapsTyped'
  BY <1>4, Ways DEF Verify, Real, Docs
<1>5. ASSUME NEW p \in Deployers, Return(p) PROVE GapsTyped'
  BY <1>5 DEF Return, Forget, Docs
<1>6. ASSUME NEW p \in Deployers, NEW k \in DeployKinds, NEW s \in Schemas \cup {{}},
             NEW a \in Approvals, Begin(p, k, s, a)
      PROVE GapsTyped'
  BY <1>6 DEF Begin
<1>7. ASSUME NEW p \in Procs, ReadPrevious(p) \/ Insert(p) \/ SeedCount(p) \/ SeedRead(p)
             \/ AppendLatest(p) \/ AppendInsert(p) \/ Update(p) \/ Restore(p) \/ Hook(p)
             \/ DropSchema(p) \/ DeleteHistory(p) \/ DeleteTenant(p) \/ Enqueue(p) \/ FanoutLock(p)
      PROVE GapsTyped'
  BY <1>7 DEF ReadPrevious, Insert, SeedCount, SeedRead, AppendLatest, AppendFails, AppendInsert,
     Update, Restore, Hook, DropSchema, Cleanup, DeleteHistory, DeleteTenant, Enqueue, FanoutLock
<1>8. ASSUME NEW p \in Procs, Diff(p) \/ Unlock(p) \/ Read(p) \/ Take(p) \/ WorkerLock(p) \/ Retry(p)
             \/ Crash(p)
      PROVE GapsTyped'
  BY <1>8 DEF Diff, Planned, Unlock, Forget, Read, Take, WorkerLock, Retry, Crash
<1>9. CASE UNCHANGED vars
  BY <1>9 DEF vars
<1> QED
  BY <1>1, <1>2, <1>3, <1>4, <1>5, <1>6, <1>7, <1>8, <1>9 DEF Next, DeployStep, JobStep, Migrate,
     Procs

\* What happened to the deploys is true or false.
LEMMA FlagsStep == TypeOK /\ FlagsTyped /\ [Next]_vars => FlagsTyped'
<1> SUFFICES ASSUME TypeOK, FlagsTyped, [Next]_vars PROVE FlagsTyped'
  OBVIOUS
<1> USE DEF TypeOK, FlagsTyped, Procs, Fault, NoFault, Goto, db, jobs, proc, marks, bounds
<1>1. ASSUME NEW p \in Deployers, NEW k \in DeployKinds, NEW s \in Schemas \cup {{}},
             NEW a \in Approvals, Begin(p, k, s, a)
      PROVE FlagsTyped'
  BY <1>1, FirstSteps DEF Begin
<1>2. ASSUME NEW p \in Deployers, SeedCount(p) \/ SeedRead(p) PROVE FlagsTyped'
  BY <1>2 DEF SeedCount, AfterSeed, SeedRead
<1>3. ASSUME NEW p \in Deployers, AppendLatest(p) PROVE FlagsTyped'
  BY <1>3, Ways DEF AppendLatest, AppendFails, AfterAppend, AfterSeed, Item, Latest
<1>4. ASSUME NEW p \in Deployers, AppendInsert(p) PROVE FlagsTyped'
  BY <1>4, Ways DEF AppendInsert, AppendFails, AfterAppend, AfterSeed, Item
<1>5. ASSUME NEW p \in Deployers, Restore(p) PROVE FlagsTyped'
  BY <1>5 DEF Restore
<1>6. ASSUME NEW p \in Deployers, DropSchema(p) \/ DeleteTenant(p) PROVE FlagsTyped'
  BY <1>6 DEF DropSchema, Cleanup, DeleteTenant
<1>7. ASSUME NEW p \in Deployers, DeleteHistory(p) PROVE FlagsTyped'
  BY <1>7 DEF DeleteHistory, Cleanup
<1>8. ASSUME NEW p \in Deployers, Return(p) PROVE FlagsTyped'
  BY <1>8 DEF Return, Forget
<1>9. ASSUME NEW p \in Procs, Crash(p) PROVE FlagsTyped'
  BY <1>9 DEF Crash, Forget
<1>10. ASSUME NEW p \in Procs, ReadPrevious(p) \/ Insert(p) \/ Update(p) \/ Hook(p) \/ Enqueue(p)
              \/ FanoutLock(p)
       PROVE FlagsTyped'
  BY <1>10 DEF ReadPrevious, Insert, Update, Hook, Enqueue, FanoutLock
<1>11. ASSUME NEW p \in Procs, Diff(p) \/ Batch(p) \/ Index(p) \/ AddLinks(p) \/ Verify(p)
              \/ Unlock(p) \/ Read(p) \/ Take(p) \/ WorkerLock(p) \/ Retry(p)
       PROVE FlagsTyped'
  BY <1>11 DEF Diff, Planned, Batch, Index, AddLinks, Verify, Unlock, Forget, Read, Take, WorkerLock,
     Retry
<1>12. CASE UNCHANGED vars
  BY <1>12 DEF vars
<1> QED
  BY <1>1, <1>2, <1>3, <1>4, <1>5, <1>6, <1>7, <1>8, <1>9, <1>10, <1>11, <1>12 DEF Next, DeployStep,
     JobStep, Migrate, Procs

\* Deployers are alone; deploys and faults are counted.
LEMMA CountsStep == TypeOK /\ CountsTyped /\ [Next]_vars => CountsTyped'
<1> SUFFICES ASSUME CountsTyped, NEW p \in Procs, Acts(p) PROVE CountsTyped'
  BY Somebody DEF CountsTyped, vars, marks, bounds
<1> DEFINE Counted == UNCHANGED <<alone, deploys>> /\ (faults' = faults \/ faults' = faults + 1)
<1>a. ASSUME Counted PROVE CountsTyped'
  BY <1>a DEF CountsTyped
<1> USE DEF Fault, NoFault, Goto, db, jobs, proc, marks, bounds
<1>1. CASE p \in Deployers /\ \E k \in DeployKinds, s \in Schemas \cup {{}},
        a \in Approvals : Begin(p, k, s, a)
  BY <1>1 DEF Begin, CountsTyped
<1>2. CASE ReadPrevious(p) \/ Insert(p) \/ SeedCount(p) \/ SeedRead(p) \/ Update(p) \/ Hook(p)
        \/ Enqueue(p)
  <2>1. Counted
    BY <1>2 DEF ReadPrevious, Insert, SeedCount, SeedRead, Update, Hook, Enqueue
  <2> QED
    BY <1>a, <2>1
<1>3. CASE AppendLatest(p)
  <2>1. Counted
    BY <1>3 DEF AppendLatest, AppendFails
  <2> QED
    BY <1>a, <2>1
<1>4. CASE AppendInsert(p)
  <2>1. Counted
    BY <1>4 DEF AppendInsert, AppendFails
  <2> QED
    BY <1>a, <2>1
<1>5. CASE Restore(p) \/ Return(p)
  <2>1. Counted
    BY <1>5 DEF Restore, Return, Forget
  <2> QED
    BY <1>a, <2>1
<1>6. CASE DropSchema(p) \/ DeleteHistory(p) \/ DeleteTenant(p)
  <2>1. Counted
    BY <1>6 DEF DropSchema, Cleanup, DeleteHistory, DeleteTenant
  <2> QED
    BY <1>a, <2>1
<1>7. CASE FanoutLock(p)
  <2>1. Counted
    BY <1>7 DEF FanoutLock
  <2> QED
    BY <1>a, <2>1
<1>8. CASE Diff(p)
  <2>1. Counted
    BY <1>8 DEF Diff, Planned
  <2> QED
    BY <1>a, <2>1
<1>9. CASE Batch(p) \/ Index(p)
  <2>1. Counted
    BY <1>9 DEF Batch, Index
  <2> QED
    BY <1>a, <2>1
<1>10. CASE AddLinks(p) \/ Verify(p) \/ Unlock(p)
  <2>1. Counted
    BY <1>10 DEF AddLinks, Verify, Unlock, Forget
  <2> QED
    BY <1>a, <2>1
<1>11. CASE Read(p) \/ Take(p) \/ WorkerLock(p) \/ Retry(p) \/ Crash(p)
  <2>1. Counted
    BY <1>11 DEF Read, Take, WorkerLock, Forget, Again, Retry, Crash
  <2> QED
    BY <1>a, <2>1
<1> QED
  BY <1>1, <1>2, <1>3, <1>4, <1>5, <1>6, <1>7, <1>8, <1>9, <1>10, <1>11 DEF Acts, DeployStep,
     JobStep, Migrate

\* From the migration and from Append, a deploy goes on along its path.
LEMMA Onward ==
    ASSUME TypeOK, NEW p \in Procs, OnPath(Kind(p), pc[p])
    PROVE  /\ pc[p] \in Mig => /\ OnPath(Kind(p), AfterApply(p)) /\ OnPath(Kind(p), AfterFailure(p))
                               /\ \A l \in Mig : OnPath(Kind(p), l)
           /\ pc[p] \in Hist \cup {"seedLatest", "seedInsert"} => OnPath(Kind(p), AfterAppend(p))
<1>1. Kind(p) \in {"put", "register", "fanout", "cli", "backfill", "idle", "job"}
  BY DEF TypeOK, Kind, DeployKinds
<1>2. pc[p] \in Mig => Kind(p) \in {"put", "register", "fanout", "cli", "job"}
  BY <1>1 DEF OnPath, Mig, Seed
<1>3. pc[p] \in Hist => Kind(p) \in {"put", "register", "fanout", "cli"}
  BY <1>1 DEF OnPath, Mig, Seed, Hist
<1>4. pc[p] \in Seed => Kind(p) \in {"put", "fanout", "cli", "backfill"}
  BY <1>1 DEF OnPath, Mig, Seed, Hist
<1>5. pc[p] \in Mig => OnPath(Kind(p), AfterApply(p)) /\ OnPath(Kind(p), AfterFailure(p))
  BY <1>2, Ways DEF OnPath, Seed, Hist
<1>6. pc[p] \in Mig => \A l \in Mig : OnPath(Kind(p), l)
  BY <1>2 DEF OnPath
<1>7. pc[p] \in Hist => OnPath(Kind(p), AfterHistory(p)) /\ AfterAppend(p) = AfterHistory(p)
  BY <1>3, Ways DEF OnPath, AfterAppend, Seeding, Mig, Hist
<1>8. pc[p] \in {"seedLatest", "seedInsert"} => OnPath(Kind(p), AfterAppend(p))
  BY <1>4 DEF OnPath, Seed, AfterAppend, Seeding, AfterSeed
<1> QED
  BY <1>5, <1>6, <1>7, <1>8

\* A process goes on along the path of its kind.
LEMMA PathsStep == TypeOK /\ Routed /\ Paths /\ [Next]_vars => Paths'
<1> SUFFICES ASSUME TypeOK, Routed, Paths, NEW p \in Procs, Acts(p) PROVE (OnPath(Kind(p), pc[p]))'
  BY Somebody, OthersKept DEF Paths, Kept, vars, proc, Kind
<1> USE DEF TypeOK, Routed, Paths, Roles, Role, OnPath, Mig, Seed, Hist, Kind, Seeding, Fault,
      NoFault, Goto, db, jobs, proc, marks, bounds
<1>1. CASE p \in Deployers
        /\ (\E k \in DeployKinds, s \in Schemas \cup {{}}, a \in Approvals : Begin(p, k, s, a))
  BY <1>1, FirstSteps DEF Begin, DeployKinds, Active
<1>2. CASE p \in Deployers /\ ReadPrevious(p)
  BY <1>2 DEF ReadPrevious
<1>3. CASE p \in Deployers /\ Insert(p)
  <2>1. op' = op /\ pc'[p] \in {"histLatest", "failed"} /\ pc[p] = "insert"
    BY <1>3 DEF Insert
  <2>2. Kind(p) = "register"
    BY <2>1 DEF DeployKinds
  <2> QED
    BY <2>1, <2>2
<1>4. CASE p \in Deployers /\ SeedCount(p)
  BY <1>4 DEF SeedCount, AfterSeed
<1>5. CASE p \in Deployers /\ SeedRead(p)
  BY <1>5 DEF SeedRead, AfterSeed
<1>6. CASE p \in Deployers /\ AppendLatest(p)
  <2>1. OnPath(Kind(p), pc[p]) /\ pc[p] \in Hist \cup {"seedLatest", "seedInsert"}
    BY <1>6 DEF AppendLatest, AppendFails
  <2>2. \/ pc' = [pc EXCEPT ![p] = AfterAppend(p)]
        \/ Seeding(p) /\ \E l \in {"seedLatest", "seedInsert"} : pc' = [pc EXCEPT ![p] = l]
        \/ ~Seeding(p) /\ \E l \in Hist : pc' = [pc EXCEPT ![p] = l]
    BY <1>6 DEF AppendLatest, AppendFails
  <2>3. OnPath(Kind(p), AfterAppend(p))
    BY <2>1, Onward
  <2>4. op' = op
    BY <1>6 DEF AppendLatest, AppendFails
  <2> HIDE DEF OnPath
  <2>5. CASE pc' = [pc EXCEPT ![p] = AfterAppend(p)]
    BY <2>3, <2>4, <2>5
  <2>6. CASE Seeding(p) /\ \E l \in {"seedLatest", "seedInsert"} : pc' = [pc EXCEPT ![p] = l]
    BY <2>1, <2>4, <2>6 DEF OnPath
  <2>7. CASE ~Seeding(p) /\ \E l \in Hist : pc' = [pc EXCEPT ![p] = l]
    BY <2>1, <2>4, <2>7 DEF OnPath
  <2> QED
    BY <2>2, <2>5, <2>6, <2>7
<1>7. CASE p \in Deployers /\ AppendInsert(p)
  <2>1. OnPath(Kind(p), pc[p]) /\ pc[p] \in Hist \cup {"seedLatest", "seedInsert"}
    BY <1>7 DEF AppendInsert, AppendFails
  <2>2. \/ pc' = [pc EXCEPT ![p] = AfterAppend(p)]
        \/ Seeding(p) /\ \E l \in {"seedLatest", "seedInsert"} : pc' = [pc EXCEPT ![p] = l]
        \/ ~Seeding(p) /\ \E l \in Hist : pc' = [pc EXCEPT ![p] = l]
    BY <1>7 DEF AppendInsert, AppendFails
  <2>3. OnPath(Kind(p), AfterAppend(p))
    BY <2>1, Onward
  <2>4. op' = op
    BY <1>7 DEF AppendInsert, AppendFails
  <2> HIDE DEF OnPath
  <2>5. CASE pc' = [pc EXCEPT ![p] = AfterAppend(p)]
    BY <2>3, <2>4, <2>5
  <2>6. CASE Seeding(p) /\ \E l \in {"seedLatest", "seedInsert"} : pc' = [pc EXCEPT ![p] = l]
    BY <2>1, <2>4, <2>6 DEF OnPath
  <2>7. CASE ~Seeding(p) /\ \E l \in Hist : pc' = [pc EXCEPT ![p] = l]
    BY <2>1, <2>4, <2>7 DEF OnPath
  <2> QED
    BY <2>2, <2>5, <2>6, <2>7
<1>8. CASE p \in Deployers /\ Update(p)
  BY <1>8 DEF Update
<1>9. CASE p \in Deployers /\ Restore(p)
  BY <1>9 DEF Restore
<1>10. CASE p \in Deployers /\ Hook(p)
  BY <1>10 DEF Hook
<1>11. CASE p \in Deployers /\ DropSchema(p)
  BY <1>11 DEF DropSchema, Cleanup
<1>12. CASE p \in Deployers /\ DeleteHistory(p)
  BY <1>12 DEF DeleteHistory, Cleanup
<1>13. CASE p \in Deployers /\ DeleteTenant(p)
  BY <1>13 DEF DeleteTenant, Cleanup
<1>14. CASE p \in Deployers /\ Enqueue(p)
  BY <1>14 DEF Enqueue
<1>15. CASE p \in Deployers /\ FanoutLock(p)
  BY <1>15 DEF FanoutLock
<1>16. CASE Diff(p) \/ Batch(p) \/ Index(p) \/ AddLinks(p) \/ Verify(p)
  <2>1. OnPath(Kind(p), pc[p]) /\ pc[p] \in Mig
    BY <1>16 DEF Diff, Planned, Batch, Index, AddLinks, Verify
  <2>2. \E l \in Mig \cup {AfterApply(p), AfterFailure(p)} : pc' = [pc EXCEPT ![p] = l]
    BY <1>16, Stages DEF Diff, Planned, Batch, Index, After, AddLinks, Verify
  <2>3. Kind(p)' = Kind(p)
    BY <1>16, SameDeploy DEF Kind
  <2> HIDE DEF OnPath
  <2> QED
    BY <2>1, <2>2, <2>3, Onward
<1>17. CASE p \in Workers /\ Retry(p)
  BY <1>17 DEF Retry, Again
<1>18. CASE p \in Workers /\ (Read(p) \/ Take(p))
  BY <1>18 DEF Read, Take, Idle
<1>19. CASE Unlock(p)
  <2>1. CASE p \in Workers
    BY <1>19, <2>1 DEF Unlock, Forget, Idle
  <2>2. CASE p \notin Workers
    <3>1. op' = op /\ pc'[p] = IF pc[p] = "unlock" THEN "report" ELSE "failed"
      BY <1>19, <2>2 DEF Unlock
    <3>2. pc[p] \in {"unlock", "unlockFailed"} /\ Kind(p) # "job"
      BY <1>19, <2>2 DEF Unlock, Procs
    <3> QED
      BY <3>1, <3>2
  <2> QED
    BY <2>1, <2>2
<1>20. CASE p \in Workers /\ WorkerLock(p)
  <2>1. CASE Goto(p, "diff") /\ UNCHANGED proc
    BY <1>20, <2>1 DEF WorkerLock
  <2>2. CASE Goto(p, "idle") /\ Forget(p)
    BY <2>2 DEF Forget, Idle
  <2> QED
    BY <1>20, <2>1, <2>2 DEF WorkerLock
<1>21. CASE Return(p) \/ Crash(p)
  BY <1>21 DEF Return, Forget, Crash, Idle
<1> QED
  BY <1>1, <1>2, <1>3, <1>4, <1>5, <1>6, <1>7, <1>8, <1>9, <1>10, <1>11, <1>12, <1>13, <1>14, <1>15,
     <1>16, <1>17, <1>18, <1>19, <1>20, <1>21 DEF Acts, DeployStep, JobStep, Migrate

\* Every location is one of the program's.
LEMMA PcStep == TypeOK /\ Paths' /\ OpTyped' /\ [Next]_vars => PcTyped'
<1> SUFFICES ASSUME TypeOK, Paths', OpTyped', [Next]_vars PROVE PcTyped'
  OBVIOUS
<1>1. \A p \in Procs : pc'[p] \in Location
  BY DEF Paths, OpTyped, OnPath, Kind, DeployKinds, Mig, Seed, Hist, Location
<1>2. pc' = pc \/ \E p \in Procs : \E l : pc' = [pc EXCEPT ![p] = l]
  <2>1. ASSUME NEW p \in Procs, Acts(p) PROVE \E l : pc' = [pc EXCEPT ![p] = l]
    <3>1. CASE Diff(p)
      BY <3>1 DEF Diff, Planned, Goto
    <3>2. CASE Batch(p)
      BY <3>2 DEF Batch, Goto
    <3>3. CASE Index(p)
      BY <3>3 DEF Index, Goto
    <3>4. CASE AddLinks(p)
      BY <3>4 DEF AddLinks, Goto
    <3>5. CASE Verify(p)
      BY <3>5 DEF Verify, Goto
    <3>6. CASE Read(p)
      <4>1. pc' = [pc EXCEPT ![p] = pc[p]]
        BY <3>6 DEF Read, TypeOK
      <4> QED
        BY <4>1
    <3>7. CASE Unlock(p) \/ Take(p) \/ WorkerLock(p) \/ Retry(p) \/ Crash(p)
      BY <3>7 DEF Unlock, Take, WorkerLock, Retry, Crash, Goto
    <3>8. CASE ReadPrevious(p) \/ Insert(p) \/ SeedCount(p) \/ SeedRead(p) \/ AppendLatest(p)
            \/ AppendInsert(p) \/ Update(p) \/ Restore(p)
      BY <3>8 DEF Goto, ReadPrevious, Insert, SeedCount, SeedRead, AppendLatest, AppendInsert,
         AppendFails, Update, Restore
    <3>9. CASE Hook(p) \/ DropSchema(p) \/ DeleteHistory(p) \/ DeleteTenant(p) \/ Enqueue(p)
            \/ Return(p) \/ FanoutLock(p)
      BY <3>9 DEF Goto, Hook, DropSchema, DeleteHistory, DeleteTenant, Cleanup, Enqueue, Return,
         FanoutLock
    <3>10. CASE \E k \in DeployKinds, s \in Schemas \cup {{}}, a \in Approvals : Begin(p, k, s, a)
      BY <3>10 DEF Begin, Goto
    <3> QED
      BY <2>1, <3>1, <3>2, <3>3, <3>4, <3>5, <3>6, <3>7, <3>8, <3>9, <3>10
         DEF Acts, DeployStep, JobStep, Migrate
  <2> QED
    BY <2>1, Somebody DEF vars
<1> QED
  BY <1>1, <1>2 DEF PcTyped, TypeOK

\* Workers have jobs, deployers deploys; a process without either holds nothing.
LEMMA RolesStep == TypeOK /\ Routed /\ Roles /\ [Next]_vars => Roles'
<1> SUFFICES ASSUME TypeOK, Routed, Roles, NEW p \in Procs, Acts(p) PROVE (Role(p))'
  BY Somebody, OthersKept DEF Roles, Kept, vars, proc, Role, Kind
<1> USE DEF TypeOK, Routed, Roles, Role, Kind, Fault, NoFault, Goto, db, jobs, proc, marks, bounds
<1>1. CASE p \in Deployers
        /\ (\E k \in DeployKinds, s \in Schemas \cup {{}}, a \in Approvals : Begin(p, k, s, a))
  BY <1>1, SchemaDeployAssumption DEF Begin, DeployKinds
<1>2. CASE Diff(p)
  BY <1>2 DEF Diff, Paths, OnPath, Mig, Seed, Hist, Idle
<1>3. CASE Verify(p)
  BY <1>3 DEF Verify, Idle, Paths, OnPath
<1>4. CASE p \in Workers /\ Take(p)
  BY <1>4, SchemaDeployAssumption DEF Take
<1>5. CASE Return(p) \/ Crash(p)
  <2>1. op'[p] = Idle /\ plan'[p] = NoPlan
    BY <1>5 DEF Return, Forget, Crash
  <2> QED
    BY <2>1 DEF Idle
<1>6. CASE Unlock(p)
  <2>1. CASE Forget(p)
    <3>1. op'[p] = Idle /\ plan'[p] = NoPlan
      BY <2>1 DEF Forget
    <3> QED
      BY <3>1 DEF Idle
  <2>2. CASE UNCHANGED proc
    BY <2>2
  <2> QED
    BY <1>6, <2>1, <2>2 DEF Unlock, WorkerLock
<1>7. CASE p \in Workers /\ WorkerLock(p)
  <2>1. CASE Forget(p)
    <3>1. op'[p] = Idle /\ plan'[p] = NoPlan
      BY <2>1 DEF Forget
    <3> QED
      BY <3>1 DEF Idle
  <2>2. CASE UNCHANGED proc
    BY <2>2
  <2> QED
    BY <1>7, <2>1, <2>2 DEF Unlock, WorkerLock
<1>8. CASE ReadPrevious(p) \/ Insert(p) \/ SeedCount(p) \/ SeedRead(p) \/ AppendLatest(p)
        \/ AppendInsert(p) \/ Update(p) \/ Restore(p) \/ Hook(p) \/ DropSchema(p)
        \/ DeleteHistory(p) \/ DeleteTenant(p) \/ Enqueue(p) \/ FanoutLock(p)
  BY <1>8 DEF ReadPrevious, Insert, SeedCount, SeedRead, AppendLatest, AppendFails, AppendInsert,
     Update, Restore, Hook, DropSchema, Cleanup, DeleteHistory, DeleteTenant, Enqueue, FanoutLock
<1>9. CASE Batch(p) \/ Retry(p) \/ Read(p)
  BY <1>9 DEF Batch, Retry, Read
<1>10. CASE Index(p) \/ AddLinks(p)
  BY <1>10 DEF Index, AddLinks, Tried, Paths, OnPath, Mig, Idle
<1> QED
  BY <1>1, <1>2, <1>3, <1>4, <1>5, <1>6, <1>7, <1>8, <1>9, <1>10 DEF Acts, DeployStep, JobStep, Migrate

\* A plan follows its schema and what was approved; a job drops nothing.
LEMMA PlanningStep == TypeOK /\ Routed /\ Planning /\ [Next]_vars => Planning'
<1> SUFFICES ASSUME TypeOK, Routed, Planning, NEW p \in Procs, Acts(p) PROVE (Sound(p))'
  BY Somebody, OthersKept DEF Planning, Kept, vars, proc, Sound
<1> USE DEF TypeOK, Routed, Planning, Sound, Kind, Fault, NoFault, Goto, db, jobs, proc, marks,
      bounds
<1>1. CASE p \in Deployers
        /\ (\E k \in DeployKinds, s \in Schemas \cup {{}}, a \in Approvals : Begin(p, k, s, a))
  <2>1. Kind(p) = "idle"
    BY <1>1 DEF Begin, Active, Paths, OnPath, Mig, Seed, Hist, DeployKinds
  <2>2. plan[p] = NoPlan
    BY <2>1 DEF Roles, Role
  <2> QED
    BY <1>1, <2>2, SchemaDeployAssumption DEF Begin, NoPlan, DeployKinds
<1>2. CASE Diff(p)
  <2>1. op'[p].doc = op[p].doc /\ op'[p].approved = {}
    BY <1>2 DEF Diff
  <2>2. ASSUME NEW owned, NEW b, Planned(p, owned, b) PROVE (Sound(p))'
    BY <2>1, <2>2, PlanIs DEF Droppable
  <2>3. CASE plan' = plan
    BY <2>1, <2>3
  <2> QED
    BY <1>2, <2>2, <2>3 DEF Diff
<1>3. CASE Verify(p)
  BY <1>3, VerifyLeaves DEF Verify
<1>4. CASE p \in Workers /\ Take(p)
  <2>1. Kind(p) = "idle"
    BY <1>4 DEF Take, Active, Paths, OnPath, Mig, Seed, Hist, DeployKinds
  <2>2. plan[p] = NoPlan
    BY <2>1 DEF Roles, Role
  <2> QED
    BY <1>4, <2>2, SchemaDeployAssumption DEF Take, NoPlan, DeployKinds
<1>5. CASE Return(p) \/ Crash(p)
  BY <1>5 DEF Return, Forget, Crash, Idle, NoPlan
<1>6. CASE Unlock(p)
  BY <1>6 DEF Unlock, Forget, Idle, NoPlan
<1>7. CASE p \in Workers /\ WorkerLock(p)
  BY <1>7 DEF WorkerLock, Forget, Again, Idle, NoPlan
<1>8. CASE ReadPrevious(p) \/ Insert(p) \/ SeedCount(p) \/ SeedRead(p) \/ AppendLatest(p)
        \/ AppendInsert(p) \/ Update(p) \/ Restore(p) \/ Hook(p) \/ DropSchema(p)
        \/ DeleteHistory(p) \/ DeleteTenant(p) \/ Enqueue(p) \/ FanoutLock(p)
  BY <1>8 DEF ReadPrevious, Insert, SeedCount, SeedRead, AppendLatest, AppendFails, AppendInsert,
     Update, Restore, Hook, DropSchema, Cleanup, DeleteHistory, DeleteTenant, Enqueue, FanoutLock
<1>9. CASE Batch(p) \/ Retry(p) \/ Read(p)
  BY <1>9 DEF Batch, Retry, Read
<1>10. CASE Index(p) \/ AddLinks(p)
  <2>1. op' = op /\ \E o : Tried(p, o)
    BY <1>10 DEF Index, AddLinks
  <2> QED
    BY <2>1, TriedLeaves
<1> QED
  BY <1>1, <1>2, <1>3, <1>4, <1>5, <1>6, <1>7, <1>8, <1>9, <1>10 DEF Acts, DeployStep, JobStep, Migrate

\* Only a PUT reads the schema to go back to.
LEMMA ReadsStep == TypeOK /\ Routed /\ Reads /\ [Next]_vars => Reads'
<1> SUFFICES ASSUME TypeOK, Routed, Reads, NEW p \in Procs, Acts(p)
             PROVE (Kind(p) # "put" \/ pc[p] = "readPrev" => prev[p] = None)'
  BY Somebody, OthersKept DEF Reads, Kept, vars, proc, Kind
<1> USE DEF TypeOK, Routed, Reads, Kind, Fault, NoFault, Goto, db, jobs, proc, marks, bounds
<1>1. CASE p \in Deployers
        /\ (\E k \in DeployKinds, s \in Schemas \cup {{}}, a \in Approvals : Begin(p, k, s, a))
  <2>1. Kind(p) = "idle"
    BY <1>1 DEF Begin, Active, Paths, OnPath, Mig, Seed, Hist, DeployKinds
  <2> QED
    BY <1>1, <2>1 DEF Begin, DeployKinds
<1>2. CASE p \in Deployers /\ ReadPrevious(p)
  BY <1>2 DEF ReadPrevious, Paths, OnPath, Mig, Seed, Hist, DeployKinds
<1>3. CASE p \in Deployers /\ (AppendLatest(p) \/ AppendInsert(p))
  <2>1. OnPath(Kind(p), pc[p])
    BY DEF Paths
  <2>2. pc'[p] \in {"seedLatest", "seedInsert"} \cup Hist \cup {AfterAppend(p)}
    BY <1>3 DEF AppendLatest, AppendFails, AppendInsert, Hist, Mig
  <2>3. prev' = prev /\ op' = op
    BY <1>3 DEF AppendLatest, AppendFails, AppendInsert
  <2>4. pc[p] \in Hist \cup {"seedLatest", "seedInsert"}
    BY <1>3 DEF AppendLatest, AppendFails, AppendInsert, Hist, Mig
  <2>5. pc[p] # "readPrev" /\ pc'[p] # "readPrev"
    BY <2>1, <2>2, <2>4, Targets DEF Hist, Mig
  <2> QED
    BY <2>3, <2>5
<1>4. CASE Diff(p) \/ Batch(p) \/ Index(p) \/ AddLinks(p) \/ Verify(p)
  <2>1. OnPath(Kind(p), pc[p])
    BY DEF Paths
  <2>2. pc'[p] \in Mig \cup {AfterApply(p), AfterFailure(p)}
    BY <1>4, MigGoes
  <2>3. prev' = prev /\ op'[p].kind = op[p].kind
    BY <1>4, SameDeploy DEF Diff, Batch, Index, AddLinks, Verify
  <2>4. pc[p] \in Mig
    BY <1>4, MigGoes
  <2>5. pc[p] # "readPrev" /\ pc'[p] # "readPrev"
    BY <2>1, <2>2, <2>4, Targets DEF Hist, Mig
  <2> QED
    BY <2>3, <2>5
<1>5. CASE Return(p) \/ Crash(p)
  BY <1>5 DEF Return, Forget, Crash, Idle
<1>6. CASE Unlock(p)
  BY <1>6 DEF Unlock, Forget, Idle
<1>7. CASE p \in Workers /\ WorkerLock(p)
  BY <1>7 DEF WorkerLock, Forget, Again, Idle
<1>8. CASE p \in Workers /\ Take(p)
  <2>1. Kind(p) = "idle"
    BY <1>8 DEF Take, Active, Paths, OnPath, Mig, Seed, Hist, DeployKinds
  <2> QED
    BY <1>8, <2>1 DEF Take, DeployKinds
<1>9. CASE Insert(p) \/ SeedCount(p) \/ SeedRead(p) \/ Update(p) \/ Restore(p) \/ Hook(p)
        \/ DropSchema(p) \/ DeleteHistory(p) \/ DeleteTenant(p) \/ Enqueue(p) \/ FanoutLock(p)
  BY <1>9 DEF Insert, SeedCount, SeedRead, Update, Restore, Hook, DropSchema, Cleanup,
     DeleteHistory, DeleteTenant, Enqueue, FanoutLock, AfterSeed
<1>10. CASE Retry(p) \/ Read(p)
  BY <1>10 DEF Retry, Read, AfterSeed
<1> QED
  BY <1>1, <1>2, <1>3, <1>4, <1>5, <1>6, <1>7, <1>8, <1>9, <1>10 DEF Acts, DeployStep, JobStep,
     Migrate

\* EnsureSeeded goes on to Append only with a schema it has read.
LEMMA SeedsStep == TypeOK /\ Routed /\ Seeds /\ [Next]_vars => Seeds'
<1> SUFFICES ASSUME TypeOK, Routed, Seeds, NEW p \in Procs, Acts(p)
             PROVE (Seeding(p) => seen[p] # None)'
  BY Somebody, OthersKept DEF Seeds, Kept, vars, proc, Seeding
<1> USE DEF TypeOK, Routed, Seeds, Seeding, Fault, NoFault, Goto, db, jobs, proc, marks, bounds
<1>1. CASE p \in Deployers
        /\ (\E k \in DeployKinds, s \in Schemas \cup {{}}, a \in Approvals : Begin(p, k, s, a))
  BY <1>1, FirstSteps DEF Begin, DeployKinds
<1>2. CASE p \in Deployers /\ (SeedCount(p) \/ SeedRead(p))
  BY <1>2 DEF SeedCount, SeedRead, AfterSeed
<1>3. CASE p \in Deployers /\ (AppendLatest(p) \/ AppendInsert(p))
  <2>1. OnPath(Kind(p), pc[p])
    BY DEF Paths
  <2>2. pc'[p] \in (IF Seeding(p) THEN {"seedLatest", "seedInsert"} ELSE Hist) \cup {AfterAppend(p)}
    BY <1>3 DEF AppendLatest, AppendFails, AppendInsert, Hist, Mig
  <2>3. seen' = seen
    BY <1>3 DEF AppendLatest, AppendFails, AppendInsert
  <2>4. pc[p] \in Hist \cup {"seedLatest", "seedInsert"}
    BY <1>3 DEF AppendLatest, AppendFails, AppendInsert, Hist, Mig
  <2>5. Seeding(p)' => Seeding(p)
    BY <2>1, <2>2, <2>4, Targets DEF Hist, Mig
  <2> QED
    BY <2>3, <2>5
<1>4. CASE Diff(p) \/ Batch(p) \/ Index(p) \/ AddLinks(p) \/ Verify(p)
  <2>1. OnPath(Kind(p), pc[p])
    BY DEF Paths
  <2>2. pc'[p] \in Mig \cup {AfterApply(p), AfterFailure(p)}
    BY <1>4, MigGoes
  <2>3. seen' = seen
    BY <1>4 DEF Diff, Planned, Batch, Index, AddLinks, Verify
  <2>4. pc[p] \in Mig
    BY <1>4, MigGoes
  <2>5. ~Seeding(p)'
    BY <2>1, <2>2, <2>4, Targets DEF Hist, Mig
  <2> QED
    BY <2>3, <2>5
<1>5. CASE Return(p) \/ Crash(p)
  BY <1>5 DEF Return, Forget, Crash, Idle
<1>6. CASE Unlock(p)
  BY <1>6 DEF Unlock, Forget, Idle
<1>7. CASE p \in Workers /\ WorkerLock(p)
  BY <1>7 DEF WorkerLock, Forget, Again, Idle
<1>8. CASE ReadPrevious(p) \/ Insert(p) \/ Update(p) \/ Restore(p) \/ Hook(p) \/ DropSchema(p)
        \/ DeleteHistory(p) \/ DeleteTenant(p) \/ Enqueue(p) \/ FanoutLock(p)
  BY <1>8 DEF ReadPrevious, Insert, Update, Restore, Hook, DropSchema, Cleanup, DeleteHistory,
     DeleteTenant, Enqueue, FanoutLock
<1>9. CASE Read(p) \/ Take(p) \/ Retry(p)
  BY <1>9 DEF Read, Take, Retry, Again
<1> QED
  BY <1>1, <1>2, <1>3, <1>4, <1>5, <1>6, <1>7, <1>8, <1>9 DEF Acts, DeployStep, JobStep, Migrate

\* What a deployer has read or is deploying declares nothing of the consumer's.
LEMMA HeldStep == TypeOK /\ Declared /\ Held /\ [Next]_vars => Held'
<1> SUFFICES ASSUME TypeOK, Declared, Held, NEW p \in Procs, Acts(p)
             PROVE (p \in Deployers => Holds(p))'
  BY Somebody, OthersKept DEF Held, Kept, vars, proc, Holds, Kind
<1> USE DEF TypeOK, Held, Holds, Kind, Proper, Fault, NoFault, Goto, db, jobs, proc, marks, bounds
<1>1. CASE p \in Deployers
        /\ (\E k \in DeployKinds, s \in Schemas \cup {{}}, a \in Approvals : Begin(p, k, s, a))
  <2>1. PICK k \in DeployKinds, s \in Schemas \cup {{}}, a \in Approvals : Begin(p, k, s, a)
    BY <1>1
  <2>2. s \cap Foreign = {} /\ (k # "backfill" => s # {})
    BY <2>1, SchemaDeployAssumption DEF Begin
  <2>3. op'[p].doc = s /\ op'[p].kind = k /\ prev'[p] = prev[p] /\ seen'[p] = seen[p]
    BY <2>1 DEF Begin
  <2> QED
    BY <2>2, <2>3
<1>2. CASE p \in Deployers /\ ReadPrevious(p)
  BY <1>2 DEF ReadPrevious, Declared
<1>3. CASE p \in Deployers /\ SeedRead(p)
  BY <1>3 DEF SeedRead, Declared
<1>4. CASE Return(p) \/ Crash(p)
  <2>1. op'[p] = Idle /\ prev'[p] = None /\ seen'[p] = None
    BY <1>4 DEF Return, Forget, Crash
  <2> QED
    BY <2>1 DEF Idle
<1>5. CASE Unlock(p)
  <2>1. CASE Forget(p)
    <3>1. op'[p] = Idle /\ prev'[p] = None /\ seen'[p] = None
      BY <2>1 DEF Forget
    <3> QED
      BY <3>1 DEF Idle
  <2>2. CASE UNCHANGED proc
    BY <2>2
  <2> QED
    BY <1>5, <2>1, <2>2 DEF Unlock, WorkerLock
<1>6. CASE p \in Workers /\ (Read(p) \/ Take(p) \/ WorkerLock(p))
  BY <1>6, SchemaDeployAssumption DEF Read, Take, WorkerLock, Forget, Again
<1>7. CASE Insert(p) \/ SeedCount(p) \/ AppendLatest(p) \/ AppendInsert(p) \/ Update(p)
        \/ Restore(p) \/ Hook(p) \/ DropSchema(p) \/ DeleteHistory(p) \/ DeleteTenant(p)
        \/ Enqueue(p) \/ FanoutLock(p)
  BY <1>7 DEF Insert, SeedCount, AppendLatest, AppendFails, AppendInsert, Update, Restore, Hook,
     DropSchema, Cleanup, DeleteHistory, DeleteTenant, Enqueue, FanoutLock
<1>8. CASE Diff(p) \/ Batch(p) \/ Index(p) \/ AddLinks(p) \/ Verify(p) \/ Retry(p)
  <2>1. op'[p].kind = op[p].kind /\ op'[p].doc = op[p].doc
    BY <1>8, SameDeploy DEF Retry
  <2> QED
    BY <1>8, <2>1 DEF Diff, Planned, Batch, Index, AddLinks, Verify, Retry, Again
<1> QED
  BY <1>1, <1>2, <1>3, <1>4, <1>5, <1>6, <1>7, <1>8 DEF Acts, DeployStep, JobStep, Migrate

\* Nothing recorded declares a column of the consumer.
LEMMA DeclaredStep == TypeOK /\ Routed /\ Held /\ Declared /\ [Next]_vars => Declared'
<1> SUFFICES ASSUME TypeOK, Routed, Held, Declared, NEW p \in Procs, Acts(p) PROVE Declared'
  BY Somebody DEF TypeOK, Declared, Proper, vars, Fault, NoFault, Goto, db, jobs, proc, marks,
     bounds
<1> USE DEF TypeOK, Declared, Proper, Fault, NoFault, Goto, db, jobs, proc, marks, bounds
<1>1. CASE p \in Deployers /\ Insert(p)
  <2>1. Kind(p) = "register"
    BY <1>1 DEF Insert, Routed, Paths, OnPath, Mig, Seed, Hist, DeployKinds, Kind
  <2> QED
    BY <1>1, <2>1 DEF Insert, Held, Holds
<1>2. CASE p \in Deployers /\ AppendInsert(p)
  <2>1. Proper(record)'
    BY <1>2 DEF AppendInsert
  <2>2. Item(p).doc \cap Foreign = {}
    BY <1>2 DEF AppendInsert, Item, Held, Holds, Routed, Seeds
  <2>3. \A v \in DOMAIN Append(history, Item(p)) : Append(history, Item(p))[v].doc \cap Foreign = {}
    BY <2>2
  <2>4. history' = history \/ history' = Append(history, Item(p))
    BY <1>2 DEF AppendInsert, AppendFails
  <2> QED
    BY <2>1, <2>3, <2>4
<1>3. CASE p \in Deployers /\ Update(p)
  <2>1. Kind(p) \notin {"idle", "backfill"}
    BY <1>3 DEF Update, Routed, Paths, OnPath, Mig, Seed, Hist, Kind
  <2> QED
    BY <1>3, <2>1 DEF Update, Held, Holds
<1>4. CASE p \in Deployers /\ Restore(p)
  BY <1>4 DEF Restore, Held, Holds
<1>5. CASE p \in Deployers /\ DeleteHistory(p)
  BY <1>5 DEF DeleteHistory, Cleanup
<1>6. CASE p \in Deployers /\ DeleteTenant(p)
  BY <1>6 DEF DeleteTenant, Cleanup
<1>7. CASE \E k \in DeployKinds, s \in Schemas \cup {{}}, a \in Approvals : Begin(p, k, s, a)
  BY <1>7 DEF Begin
<1>8. CASE ReadPrevious(p) \/ SeedCount(p) \/ SeedRead(p) \/ AppendLatest(p) \/ Hook(p)
        \/ DropSchema(p) \/ Enqueue(p) \/ Return(p) \/ FanoutLock(p)
  BY <1>8 DEF ReadPrevious, SeedCount, SeedRead, AppendLatest, AppendFails, Hook, DropSchema,
     Cleanup, Enqueue, Return, Forget, FanoutLock
<1>9. CASE Diff(p) \/ Batch(p) \/ Index(p) \/ AddLinks(p) \/ Verify(p) \/ Unlock(p) \/ Read(p) \/ Take(p)
        \/ WorkerLock(p) \/ Retry(p) \/ Crash(p)
  BY <1>9 DEF Diff, Planned, Batch, Index, AddLinks, Verify, Unlock, Forget, Read, Take, WorkerLock,
     Again, Retry, Crash
<1> HIDE DEF TypeOK, Declared, Proper
<1> QED
  BY <1>1, <1>2, <1>3, <1>4, <1>5, <1>6, <1>7, <1>8, <1>9 DEF Acts, DeployStep, JobStep, Migrate

\* A step keeps the registrations in order if neither the row nor the PostgreSQL
\* schema appears or disappears and it takes no process into the clean-up.
LEMMA RowedKept ==
    ASSUME TypeOK, Rowed, NEW p \in Procs, \A q \in Procs \ {p} : Kept(q),
           record = None <=> record' = None, tables = None => tables' = None,
           Registering(p)' => Registering(p),
           Registering(p)' => pc'[p] \notin {"deleteHistory", "deleteTenant"}
    PROVE  Rowed'
<1>1. \A q \in Procs \ {p} : Registering(q)' = Registering(q) /\ pc'[q] = pc[q]
  BY DEF Kept, Registering, Kind
<1>2. \A q \in Deployers : Registering(q)' => Registering(q)
  BY <1>1 DEF Procs
<1>3. (record = None => tables = None)'
  BY DEF Rowed
<1>4. ASSUME NEW q \in Deployers, Registering(q)'
      PROVE record' # None /\ \A r \in Deployers : Registering(r)' => r = q
  BY <1>2, <1>4 DEF Rowed
<1>5. ASSUME NEW q \in Deployers, Registering(q)', pc'[q] \in {"deleteHistory", "deleteTenant"}
      PROVE tables' = None
  BY <1>1, <1>2, <1>5 DEF Rowed, Procs
<1> QED
  BY <1>3, <1>4, <1>5 DEF Rowed

\* One registration at a time, and its row is there.
LEMMA RowedStep == TypeOK /\ Routed /\ Rowed /\ [Next]_vars => Rowed'
<1> SUFFICES ASSUME TypeOK, Routed, Rowed, NEW p \in Procs, Acts(p) PROVE Rowed'
  BY Somebody DEF Rowed, Registering, Kind, vars, db, proc
<1>0. \A q \in Procs \ {p} : Kept(q)
  BY OthersKept
<1> USE DEF TypeOK, Fault, NoFault, Goto, db, jobs, proc, marks, bounds
<1>1. CASE p \in Deployers
        /\ (\E k \in DeployKinds, s \in Schemas \cup {{}}, a \in Approvals : Begin(p, k, s, a))
  <2>1. record' = record /\ tables' = tables
    BY <1>1 DEF Begin
  <2>2. ~Registering(p)'
    <3>1. PICK k \in DeployKinds, s \in Schemas \cup {{}}, a \in Approvals : Begin(p, k, s, a)
      BY <1>1
    <3>2. k = "register" => pc'[p] = "insert"
      BY <3>1, FirstSteps DEF Begin
    <3>3. op'[p].kind = k
      BY <3>1 DEF Begin
    <3> QED
      BY <3>2, <3>3 DEF Registering, Kind
  <2> QED
    BY <1>0, <2>1, <2>2, RowedKept
<1>2. CASE p \in Deployers /\ Insert(p)
  <2>0. \A q \in Deployers \ {p} : (Registering(q)' <=> Registering(q)) /\ pc'[q] = pc[q]
    BY <1>0 DEF Kept, Registering, Kind, Procs
  <2>1. Kind(p) = "register" /\ op' = op
    BY <1>2 DEF Insert, Routed, Paths, OnPath, Mig, Seed, Hist, DeployKinds, Kind
  <2>2. CASE record = None /\ record' = op[p].doc /\ Goto(p, "histLatest")
    <3>1. record' # None
      BY <2>2, SchemaDeployAssumption DEF Docs
    <3>2. \A q \in Deployers : Registering(q)' => q = p
      BY <2>0, <2>2 DEF Rowed
    <3>3. pc'[p] = "histLatest"
      BY <2>2
    <3> QED
      BY <3>1, <3>2, <3>3 DEF Rowed
  <2>3. CASE Goto(p, "failed") /\ UNCHANGED <<record, tables>>
    BY <1>0, <2>3, RowedKept DEF Registering
  <2> QED
    BY <1>2, <2>2, <2>3 DEF Insert
<1>3. CASE p \in Deployers /\ (AppendLatest(p) \/ AppendInsert(p))
  <2>1. record' = record /\ tables' = tables /\ op' = op
    BY <1>3 DEF AppendLatest, AppendFails, AppendInsert
  <2>2. pc[p] \in Hist \cup {"seedLatest", "seedInsert"}
    BY <1>3 DEF AppendLatest, AppendFails, AppendInsert, Hist
  <2>3. pc'[p] \in Hist \cup {"seedLatest", "seedInsert", AfterAppend(p)}
    BY <1>3 DEF AppendLatest, AppendFails, AppendInsert, Hist
  <2>4. Registering(p)' => Registering(p)
    BY <2>1, <2>2 DEF Registering, Kind, Hist
  <2>5. pc'[p] \notin {"deleteHistory", "deleteTenant"}
    BY <2>2, <2>3, Targets DEF Routed, Paths, Hist
  <2> QED
    BY <1>0, <2>1, <2>4, <2>5, RowedKept
<1>4. CASE p \in Deployers /\ Update(p)
  <2>1. (record = None <=> record' = None) /\ (tables = None => tables' = None)
    BY <1>4, SchemaDeployAssumption DEF Update, Docs
  <2>2. Registering(p)' => Registering(p)
    BY <1>4 DEF Update, Registering, Kind
  <2>3. Registering(p)' => pc'[p] \notin {"deleteHistory", "deleteTenant"}
    BY <1>4 DEF Update
  <2> QED
    BY <1>0, <2>1, <2>2, <2>3, RowedKept
<1>5. CASE p \in Deployers /\ Restore(p)
  <2>1. (record = None <=> record' = None) /\ (tables = None => tables' = None)
    BY <1>5, SchemaDeployAssumption DEF Restore, Docs
  <2>2. Registering(p)' => Registering(p)
    BY <1>5 DEF Restore, Registering, Kind
  <2>3. Registering(p)' => pc'[p] \notin {"deleteHistory", "deleteTenant"}
    BY <1>5 DEF Restore
  <2> QED
    BY <1>0, <2>1, <2>2, <2>3, RowedKept
<1>6. CASE p \in Deployers /\ DropSchema(p)
  <2>0. \A q \in Deployers \ {p} : (Registering(q)' <=> Registering(q)) /\ pc'[q] = pc[q]
    BY <1>0 DEF Kept, Registering, Kind, Procs
  <2>1. Registering(p) /\ op' = op
    BY <1>6 DEF DropSchema, Cleanup, Routed, Paths, OnPath, Mig, Seed, Hist, DeployKinds, Kind,
       Registering
  <2>2. record' = record /\ (tables' = None \/ (tables' = tables /\ pc'[p] = "failed"))
    BY <1>6 DEF DropSchema, Cleanup
  <2>3. \A q \in Deployers : Registering(q)' => q = p
    BY <1>6, <2>0, <2>1 DEF Rowed
  <2> QED
    BY <2>1, <2>2, <2>3 DEF Rowed, Registering
<1>7. CASE p \in Deployers /\ DeleteHistory(p)
  <2>0. \A q \in Deployers \ {p} : (Registering(q)' <=> Registering(q)) /\ pc'[q] = pc[q]
    BY <1>0 DEF Kept, Registering, Kind, Procs
  <2>1. Registering(p) /\ op' = op /\ tables = None
    BY <1>7 DEF DeleteHistory, Cleanup, Routed, Paths, OnPath, Mig, Seed, Hist, DeployKinds, Kind,
       Registering, Rowed
  <2>2. record' = record /\ tables' = tables
    BY <1>7 DEF DeleteHistory, Cleanup
  <2>3. \A q \in Deployers : Registering(q)' => q = p
    BY <1>7, <2>0, <2>1 DEF Rowed
  <2> QED
    BY <2>1, <2>2, <2>3 DEF Rowed
<1>8. CASE p \in Deployers /\ DeleteTenant(p)
  <2>0. \A q \in Deployers \ {p} : (Registering(q)' <=> Registering(q)) /\ pc'[q] = pc[q]
    BY <1>0 DEF Kept, Registering, Kind, Procs
  <2>1. Registering(p) /\ op' = op /\ tables = None
    BY <1>8 DEF DeleteTenant, Cleanup, Routed, Paths, OnPath, Mig, Seed, Hist, DeployKinds, Kind,
       Registering, Rowed
  <2>2. tables' = tables /\ pc'[p] = "failed"
    BY <1>8 DEF DeleteTenant, Cleanup
  <2>3. \A q \in Deployers : ~Registering(q)'
    BY <1>8, <2>0, <2>1, <2>2 DEF Rowed, Registering
  <2> QED
    BY <2>1, <2>2, <2>3 DEF Rowed
<1>9. CASE Diff(p) \/ Batch(p) \/ Index(p) \/ AddLinks(p) \/ Verify(p)
  <2>1. record' = record /\ (tables = None => tables' = None) /\ op'[p].kind = op[p].kind
    BY <1>9, SameDeploy DEF Diff, Batch, Index, AddLinks, Verify, Unchanged
  <2>2. pc[p] \in Mig /\ pc'[p] \in Mig \cup {AfterApply(p), AfterFailure(p)}
    BY <1>9, MigGoes
  <2>3. Registering(p)' => Registering(p)
    BY <2>1, <2>2 DEF Registering, Kind, Mig
  <2>4. pc'[p] \notin {"deleteHistory", "deleteTenant"}
    BY <2>2, Targets DEF Routed, Paths, Mig
  <2> QED
    BY <1>0, <2>1, <2>3, <2>4, RowedKept
<1>10. CASE Unlock(p)
  <2>1. record' = record /\ tables' = tables
    BY <1>10 DEF Unlock, Forget
  <2>2. ~Registering(p)'
    <3>1. CASE Forget(p)
      BY <3>1 DEF Forget, Registering, Kind, Idle
    <3>2. CASE UNCHANGED op
      BY <1>10, <3>2 DEF Unlock, Forget, Registering, Kind, Routed, Paths, OnPath, Mig, Seed, Hist
    <3> QED
      BY <1>10, <3>1, <3>2 DEF Unlock, Forget
  <2> QED
    BY <1>0, <2>1, <2>2, RowedKept
<1>11. CASE p \in Workers /\ WorkerLock(p)
  <2>1. record' = record /\ tables' = tables
    BY <1>11 DEF WorkerLock, Forget, Again
  <2>2. ~Registering(p)'
    <3>1. CASE Forget(p)
      BY <3>1 DEF Forget, Registering, Kind, Idle
    <3>2. CASE UNCHANGED op
      BY <1>11, <3>2 DEF WorkerLock, Forget, Again, Registering, Kind, Routed, Paths, OnPath, Mig,
         Seed, Hist
    <3> QED
      BY <1>11, <3>1, <3>2 DEF WorkerLock, Forget, Again
  <2> QED
    BY <1>0, <2>1, <2>2, RowedKept
<1>12. CASE Return(p) \/ Crash(p)
  <2>1. record' = record /\ tables' = tables
    BY <1>12 DEF Return, Forget, Crash
  <2>2. ~Registering(p)'
    BY <1>12 DEF Return, Forget, Crash, Registering, Kind, Idle
  <2> QED
    BY <1>0, <2>1, <2>2, RowedKept
<1>13. CASE p \in Deployers /\ (ReadPrevious(p) \/ SeedCount(p) \/ SeedRead(p) \/ Hook(p)
         \/ Enqueue(p) \/ FanoutLock(p))
  <2>1. record' = record /\ tables' = tables
    BY <1>13 DEF ReadPrevious, SeedCount, SeedRead, Hook, Enqueue, FanoutLock
  <2>2. Registering(p)' => Registering(p)
    BY <1>13 DEF ReadPrevious, SeedCount, SeedRead, Hook, Enqueue, FanoutLock, Registering, Kind
  <2>3. pc'[p] \notin {"deleteHistory", "deleteTenant"}
    BY <1>13 DEF ReadPrevious, SeedCount, SeedRead, Hook, Enqueue, FanoutLock, AfterSeed
  <2> QED
    BY <1>0, <2>1, <2>2, <2>3, RowedKept
<1>14. CASE p \in Workers /\ (Read(p) \/ Take(p) \/ Retry(p))
  <2>1. record' = record /\ tables' = tables
    BY <1>14 DEF Read, Take, Retry, Again
  <2>2. Registering(p)' => Registering(p)
    BY <1>14 DEF Read, Take, Retry, Again, Registering, Kind
  <2>3. Registering(p)' => pc'[p] \notin {"deleteHistory", "deleteTenant"}
    BY <1>14 DEF Read, Take, Retry, Again
  <2> QED
    BY <1>0, <2>1, <2>2, <2>3, RowedKept
<1> QED
  BY <1>1, <1>2, <1>3, <1>4, <1>5, <1>6, <1>7, <1>8, <1>9, <1>10, <1>11, <1>12, <1>13, <1>14
     DEF Acts, DeployStep, JobStep, Migrate

\* What some schema has declared is not the consumer's; and if there are tables,
\* something has been declared.
LEMMA OwnedDeclared ==
    ASSUME TypeOK, Declared, Rowed
    PROVE  Owned \cap Foreign = {} /\ (tables # None => Owned # {})
<1> DEFINE declared == (IF record = None THEN {} ELSE record)
                           \cup UNION {history[v].doc : v \in DOMAIN history}
<1>1. \A v \in DOMAIN history : history[v].doc \in Docs
  <2> SUFFICES ASSUME NEW v \in DOMAIN history PROVE history[v].doc \in Docs
    OBVIOUS
  <2>1. history[v] \in Version
    BY DEF TypeOK
  <2> QED
    BY <2>1 DEF Version
<1>2. declared \subseteq Objects /\ declared \cap Foreign = {}
  BY <1>1 DEF Declared, Proper, TypeOK, Docs
<1>3. tables # None => declared # {}
  BY DEF Declared, Proper, Rowed
<1>o. Owned = (UNION {Same(o) : o \in declared}) \cup (UNION {From[o] : o \in declared \cap Columns})
  BY DEF Owned
<1> HIDE DEF declared
<1>4. \A x : x \in Owned <=> \/ \E o \in declared : x \in Same(o)
                            \/ \E o \in declared \cap Columns : x \in From[o]
  <2> DEFINE names == UNION {Same(o) : o \in declared}
             olds  == UNION {From[o] : o \in declared \cap Columns}
  <2>1. \A x : x \in names <=> \E o \in declared : x \in Same(o)
    OBVIOUS
  <2>2. \A x : x \in olds <=> \E o \in declared \cap Columns : x \in From[o]
    OBVIOUS
  <2>3. Owned = names \cup olds
    BY <1>o
  <2> HIDE DEF names, olds
  <2> QED
    BY <2>1, <2>2, <2>3
<1>5. \A o \in declared : o \in Same(o) /\ Same(o) \cap Foreign = {}
  BY <1>2, ReplacementAssumption DEF Same
<1>6. \A o \in declared \cap Columns : From[o] \cap Foreign = {}
  BY ReplacementAssumption
<1>7. Owned \cap Foreign = {}
  <2> SUFFICES ASSUME NEW x \in Owned PROVE x \notin Foreign
    OBVIOUS
  <2>1. CASE \E o \in declared : x \in Same(o)
    BY <2>1, <1>5
  <2>2. CASE \E o \in declared \cap Columns : x \in From[o]
    BY <2>2, <1>6
  <2> QED
    BY <1>4, <2>1, <2>2
<1>8. tables # None => Owned # {}
  <2> SUFFICES ASSUME tables # None PROVE Owned # {}
    OBVIOUS
  <2>1. PICK o \in declared : TRUE
    BY <1>3
  <2>2. o \in Same(o)
    BY <1>5, <2>1
  <2> QED
    BY <1>4, <2>2
<1> QED
  BY <1>7, <1>8

\* Who owns the columns is asked before a drop is planned.
LEMMA AskedStep == TypeOK /\ Declared /\ Rowed /\ Asked /\ [Next]_vars => Asked'
<1> SUFFICES ASSUME TypeOK, Declared, Rowed, Asked, NEW p \in Procs, Acts(p)
             PROVE (plan[p].blind \/ plan[p].drops \cap Foreign = {})'
  BY Somebody, OthersKept DEF Asked, Kept, vars, proc
<1> USE DEF TypeOK, Asked, Fault, NoFault, Goto, db, jobs, proc, marks, bounds
<1>1. CASE Diff(p)
  <2>1. CASE Planned(p, IF Owned = {} THEN Columns ELSE Owned, FALSE)
    <3>1. (Real \ op[p].doc) \cap (IF Owned = {} THEN Columns ELSE Owned) \cap Foreign = {}
      BY OwnedDeclared DEF Real
    <3>2. Droppable(p, IF Owned = {} THEN Columns ELSE Owned) \cap Foreign = {}
      BY <3>1 DEF Droppable
    <3>3. plan'[p].drops \subseteq Droppable(p, IF Owned = {} THEN Columns ELSE Owned)
      BY <2>1, PlanIs
    <3> QED
      BY <3>2, <3>3
  <2>2. CASE Planned(p, Columns, TRUE)
    BY <2>2, PlanIs
  <2> QED
    BY <1>1, <2>1, <2>2 DEF Diff
<1>2. CASE Verify(p)
  BY <1>2, VerifyLeaves
<1>3. CASE Return(p) \/ Crash(p)
  <2>1. Forget(p) \/ UNCHANGED plan
    BY <1>3 DEF Return, Forget, Crash
  <2> QED
    BY <2>1 DEF Forget, NoPlan
<1>4. CASE Unlock(p)
  <2>1. Forget(p) \/ UNCHANGED plan
    BY <1>4 DEF Unlock, Forget
  <2> QED
    BY <2>1 DEF Forget, NoPlan
<1>5. CASE p \in Workers /\ WorkerLock(p)
  <2>1. Forget(p) \/ UNCHANGED plan
    BY <1>5 DEF WorkerLock, Forget, Again
  <2> QED
    BY <2>1 DEF Forget, NoPlan
<1>6. CASE \E k \in DeployKinds, s \in Schemas \cup {{}}, a \in Approvals : Begin(p, k, s, a)
  BY <1>6 DEF Begin
<1>7. CASE ReadPrevious(p) \/ Insert(p) \/ SeedCount(p) \/ SeedRead(p) \/ AppendLatest(p)
        \/ AppendInsert(p) \/ Update(p) \/ Restore(p) \/ Hook(p) \/ DropSchema(p)
        \/ DeleteHistory(p) \/ DeleteTenant(p) \/ Enqueue(p) \/ FanoutLock(p)
  BY <1>7 DEF ReadPrevious, Insert, SeedCount, SeedRead, AppendLatest, AppendFails, AppendInsert,
     Update, Restore, Hook, DropSchema, Cleanup, DeleteHistory, DeleteTenant, Enqueue, FanoutLock
<1>8. CASE Batch(p) \/ Read(p) \/ Take(p) \/ Retry(p)
  BY <1>8 DEF Batch, Read, Take, Retry, Again
<1>9. CASE Index(p) \/ AddLinks(p)
  <2>1. \E o : Tried(p, o)
    BY <1>9 DEF Index, AddLinks
  <2> QED
    BY <2>1, TriedLeaves
<1> QED
  BY <1>1, <1>2, <1>3, <1>4, <1>5, <1>6, <1>7, <1>8, <1>9 DEF Acts, DeployStep, JobStep, Migrate

\* The consumer's columns survive every step that is not blind.
LEMMA ForeignStep ==
    TypeOK /\ Asked /\ [Next]_vars =>
        ((tables # None /\ tables' # None /\ ~\E p \in Procs : plan[p].blind) => Foreign \cap tables \subseteq tables')
<1> SUFFICES ASSUME TypeOK, Asked, NEW p \in Procs, Acts(p), tables # None, tables' # None,
      ~plan[p].blind
             PROVE  Foreign \cap tables \subseteq tables'
  BY Somebody DEF vars, db
<1>1. plan[p].drops \cap Foreign = {}
  BY DEF Asked
<1>2. CASE Insert(p)
  BY <1>2 DEF Insert
<1>3. CASE DropSchema(p)
  BY <1>3 DEF DropSchema
<1>c. ASSUME NEW gone, NEW added, gone \cap Foreign = {}, Change(p, gone, added)
      PROVE  Foreign \cap tables \subseteq tables'
  BY <1>c DEF Change
<1>4. CASE Batch(p)
  <2>1. \A o \in plan[p].alters \cap Columns : Shapes[o] \cap Foreign = {}
    BY ReplacementAssumption DEF Objects
  <2>2. \A o \in plan[p].renames : From[o] \cap Foreign = {}
    BY ReplacementAssumption DEF TypeOK
  <2>3. \A o \in plan[p].drops : (Same(o) \cup Parts[o]) \cap Foreign = {}
    BY <1>1, ReplacementAssumption, SchemaDeployAssumption DEF TypeOK, Same, Objects
  <2>4. (Ousted(plan[p].alters \cap Columns, plan[p].renames)
            \cup UNION {Same(o) \cup Parts[o] : o \in plan[p].drops}) \cap Foreign = {}
    <3> DEFINE gone == Ousted(plan[p].alters \cap Columns, plan[p].renames)
                           \cup UNION {Same(o) \cup Parts[o] : o \in plan[p].drops}
               altered == UNION {Shapes[o] : o \in plan[p].alters \cap Columns}
               renamed == UNION {From[o] : o \in plan[p].renames}
               dropped == UNION {Same(o) \cup Parts[o] : o \in plan[p].drops}
    <3>1. altered \cap Foreign = {} /\ renamed \cap Foreign = {} /\ dropped \cap Foreign = {}
      BY <2>1, <2>2, <2>3
    <3>2. gone = (altered \cup renamed) \cup dropped
      BY DEF Ousted
    <3> HIDE DEF gone, altered, renamed, dropped
    <3>3. gone \cap Foreign = {}
      BY <3>1, <3>2
    <3> QED
      BY <3>3 DEF gone
  <2> QED
    BY <1>4, <1>c, <2>4 DEF Batch, Unchanged
<1>5. CASE Index(p)
  BY <1>5, <1>c DEF Index, Unchanged
<1>6. CASE AddLinks(p)
  <2>1. \A l \in Links : Shapes[l] \cap Foreign = {}
    BY ReplacementAssumption DEF Objects
  <2> QED
    BY <1>6, <1>c, <2>1 DEF AddLinks, Unchanged
<1>7. CASE ~(Insert(p) \/ DropSchema(p) \/ Batch(p) \/ Index(p) \/ AddLinks(p))
  <2>1. tables' = tables
    BY <1>7 DEF Acts, DeployStep, JobStep, Migrate, db, Begin, ReadPrevious, SeedCount, SeedRead,
       AppendLatest, AppendInsert, Update, Restore, Hook, DeleteHistory, DeleteTenant, Enqueue,
       Return, FanoutLock, Diff, Verify, Unlock, Read, Take, WorkerLock, Retry, Crash
  <2> QED
    BY <2>1
<1> QED
  BY <1>2, <1>3, <1>4, <1>5, <1>6, <1>7

\* What is left of a sequence of jobs without the first.
LEMMA JobsTail ==
    ASSUME NEW s \in Seq(Job), s # <<>>, Distinct(s)
    PROVE  /\ Tail(s) \in Seq(Job) /\ Len(Tail(s)) <= Len(s)
           /\ Ids(s) = {Head(s).id} \cup Ids(Tail(s)) /\ Head(s).id \notin Ids(Tail(s))
           /\ Distinct(Tail(s))
<1>1. /\ Len(s) \in Nat \ {0} /\ DOMAIN s = 1..Len(s) /\ Head(s) = s[1]
      /\ Tail(s) \in Seq(Job) /\ DOMAIN Tail(s) = 1..(Len(s) - 1) /\ Len(Tail(s)) = Len(s) - 1
      /\ \A i \in 1..(Len(s) - 1) : Tail(s)[i] = s[i + 1]
  OBVIOUS
<1>2. \A i \in 1..Len(s) : i = 1 \/ (i - 1 \in 1..(Len(s) - 1) /\ Tail(s)[i - 1] = s[i])
  BY <1>1
<1>3. Ids(s) \subseteq {Head(s).id} \cup Ids(Tail(s))
  <2>1. \A i \in 1..(Len(s) - 1) : Tail(s)[i].id \in Ids(Tail(s))
    BY <1>1 DEF Ids
  <2>2. \A i \in 1..Len(s) : s[i].id \in {Head(s).id} \cup Ids(Tail(s))
    BY <1>1, <1>2, <2>1
  <2> QED
    BY <1>1, <2>2 DEF Ids
<1>4. Ids(Tail(s)) \subseteq Ids(s) /\ Head(s).id \in Ids(s)
  BY <1>1 DEF Ids
<1>5. Head(s).id \notin Ids(Tail(s))
  <2>1. ASSUME NEW i \in DOMAIN Tail(s), Tail(s)[i].id = Head(s).id PROVE FALSE
    <3>1. i \in 1..(Len(s) - 1) /\ i + 1 \in DOMAIN s /\ 1 \in DOMAIN s /\ s[i + 1].id = s[1].id
      BY <1>1, <2>1
    <3>2. i + 1 = 1
      BY <3>1 DEF Distinct
    <3> QED
      BY <3>1, <3>2
  <2> QED
    BY <2>1 DEF Ids
<1>6. Distinct(Tail(s))
  <2>1. ASSUME NEW i \in DOMAIN Tail(s), NEW j \in DOMAIN Tail(s), Tail(s)[i].id = Tail(s)[j].id
        PROVE  i = j
    <3>1. i \in 1..(Len(s) - 1) /\ j \in 1..(Len(s) - 1) /\ s[i + 1].id = s[j + 1].id
      BY <1>1, <2>1
    <3>2. i + 1 \in DOMAIN s /\ j + 1 \in DOMAIN s
      BY <1>1, <3>1
    <3>3. i + 1 = j + 1
      BY <3>1, <3>2 DEF Distinct
    <3> QED
      BY <3>1, <3>3
  <2> QED
    BY <2>1 DEF Distinct
<1> QED
  BY <1>1, <1>3, <1>4, <1>5, <1>6

\* A job more at the end.
LEMMA JobsMore ==
    ASSUME NEW s \in Seq(Job), NEW j \in Job
    PROVE  /\ Ids(Append(s, j)) = Ids(s) \cup {j.id}
           /\ Distinct(s) /\ j.id \notin Ids(s) => Distinct(Append(s, j))
<1> DEFINE t == Append(s, j)
           n == Len(s)
<1>1. /\ n \in Nat /\ DOMAIN s = 1..n /\ DOMAIN t = 1..(n + 1)
      /\ t[n + 1] = j /\ \A i \in 1..n : t[i] = s[i]
  OBVIOUS
<1> HIDE DEF t, n
<1>2. \A i \in DOMAIN t : i = n + 1 \/ i \in DOMAIN s
  BY <1>1
<1>3. Ids(t) = Ids(s) \cup {j.id}
  <2>1. Ids(t) \subseteq Ids(s) \cup {j.id}
    BY <1>1, <1>2 DEF Ids
  <2>2. j.id \in Ids(t)
    BY <1>1 DEF Ids
  <2>3. Ids(s) \subseteq Ids(t)
    BY <1>1 DEF Ids
  <2> QED
    BY <2>1, <2>2, <2>3
<1>4. ASSUME Distinct(s), j.id \notin Ids(s) PROVE Distinct(t)
  <2>1. \A i \in DOMAIN s : s[i].id # j.id
    BY <1>4 DEF Ids
  <2> QED
    BY <1>1, <1>2, <1>4, <2>1 DEF Distinct
<1> QED
  BY <1>3, <1>4 DEF t

\* The jobs a worker reads, and those it leaves.
LEMMA JobsRead ==
    ASSUME NEW s \in Seq(Job), NEW n \in 0..Len(s), Distinct(s)
    PROVE  LET a == SubSeq(s, 1, n)
               b == SubSeq(s, n + 1, Len(s))
           IN  /\ a \in Seq(Job) /\ b \in Seq(Job) /\ Len(a) = n
               /\ Ids(s) = Ids(a) \cup Ids(b) /\ Ids(a) \cap Ids(b) = {}
               /\ Distinct(a) /\ Distinct(b)
<1> DEFINE a == SubSeq(s, 1, n)
           b == SubSeq(s, n + 1, Len(s))
           l == Len(s)
<1>1. /\ a \in Seq(Job) /\ b \in Seq(Job)
      /\ l \in Nat /\ n \in 0..l /\ DOMAIN s = 1..l
      /\ Len(a) = n /\ DOMAIN a = 1..n /\ DOMAIN b = 1..(l - n)
      /\ \A i \in 1..n : a[i] = s[i]
      /\ \A i \in 1..(l - n) : b[i] = s[n + i]
  OBVIOUS
<1> HIDE DEF a, b, l
<1>2. \A i \in DOMAIN s : i \in 1..n \/ (i - n \in 1..(l - n) /\ b[i - n] = s[i])
  BY <1>1
<1>3. Ids(s) = Ids(a) \cup Ids(b)
  <2>1. Ids(s) \subseteq Ids(a) \cup Ids(b)
    BY <1>1, <1>2 DEF Ids
  <2>2. Ids(a) \subseteq Ids(s)
    BY <1>1 DEF Ids
  <2>3. Ids(b) \subseteq Ids(s)
    <3>1. \A i \in DOMAIN b : n + i \in DOMAIN s
      BY <1>1
    <3> QED
      BY <1>1, <3>1 DEF Ids
  <2> QED
    BY <2>1, <2>2, <2>3
<1>4. Ids(a) \cap Ids(b) = {}
  <2>1. ASSUME NEW i \in DOMAIN a, NEW j \in DOMAIN b, a[i].id = b[j].id PROVE FALSE
    <3>1. i \in DOMAIN s /\ n + j \in DOMAIN s /\ s[i].id = s[n + j].id
      BY <1>1, <2>1
    <3>2. i = n + j
      BY <3>1 DEF Distinct
    <3> QED
      BY <1>1, <2>1, <3>2
  <2> QED
    BY <2>1 DEF Ids
<1>5. Distinct(a)
  BY <1>1 DEF Distinct
<1>6. Distinct(b)
  <2>1. ASSUME NEW i \in DOMAIN b, NEW j \in DOMAIN b, b[i].id = b[j].id PROVE i = j
    <3>1. n + i \in DOMAIN s /\ n + j \in DOMAIN s /\ s[n + i].id = s[n + j].id
      BY <1>1, <2>1
    <3>2. n + i = n + j
      BY <3>1 DEF Distinct
    <3> QED
      BY <1>1, <2>1, <3>2
  <2> QED
    BY <2>1 DEF Distinct
<1> QED
  BY <1>1, <1>3, <1>4, <1>5, <1>6 DEF a, b

\* A sequence has no more jobs than places.
LEMMA JobsFew ==
    ASSUME NEW s \in Seq(Job), NEW n \in Nat, Len(s) <= n
    PROVE  IsFiniteSet(Ids(s)) /\ Cardinality(Ids(s)) \in Nat /\ Cardinality(Ids(s)) <= n
<1> DEFINE f == [i \in 1..Len(s) |-> s[i].id]
<1>1. f \in Surjection(1..Len(s), Ids(s))
  BY DEF Surjection, Ids
<1>2. IsFiniteSet(1..Len(s)) /\ Cardinality(1..Len(s)) = Len(s)
  <2>1. Len(s) \in Nat /\ 1 \in Int /\ Len(s) \in Int
    OBVIOUS
  <2>2. /\ IsFiniteSet(1..Len(s))
        /\ Cardinality(1..Len(s)) = IF 1 > Len(s) THEN 0 ELSE Len(s) - 1 + 1
    BY <2>1, FS_Interval
  <2> QED
    BY <2>1, <2>2
<1>3. IsFiniteSet(Ids(s)) /\ Cardinality(Ids(s)) <= Len(s)
  BY <1>1, <1>2, FS_Surjection
<1>4. Cardinality(Ids(s)) \in Nat
  BY <1>3, FS_CardinalityType
<1> QED
  BY <1>3, <1>4

\* The jobs that other workers have read.
Others(w) == UNION {Ids(inbox[v]) : v \in Workers \ {w}}

\* The jobs attended to after a worker's have changed.
LEMMA AttendedMoves ==
    ASSUME TypeOK, NEW w \in Workers
    PROVE  /\ Attended = Ids(stream) \cup Ids(inbox[w]) \cup Others(w)
           /\ \A x : inbox' = [inbox EXCEPT ![w] = x] => Attended' = Ids(stream') \cup Ids(x) \cup Others(w)
           /\ Single => Ids(inbox[w]) \cap Others(w) = {}
<1>1. Attended = Ids(stream) \cup Ids(inbox[w]) \cup Others(w)
  BY DEF Attended, Others
<1>2. ASSUME NEW x, inbox' = [inbox EXCEPT ![w] = x]
      PROVE  Attended' = Ids(stream') \cup Ids(x) \cup Others(w)
  <2>1. inbox'[w] = x /\ \A v \in Workers \ {w} : inbox'[v] = inbox[v]
    BY <1>2 DEF TypeOK
  <2>2. UNION {Ids(inbox'[v]) : v \in Workers} = Ids(x) \cup Others(w)
    BY <2>1 DEF Others
  <2>3. Attended' = Ids(stream') \cup UNION {Ids(inbox'[v]) : v \in Workers}
    BY DEF Attended, Ids
  <2> QED
    BY <2>2, <2>3
<1>3. Single => Ids(inbox[w]) \cap Others(w) = {}
  BY DEF Single, Others
<1> QED
  BY <1>1, <1>2, <1>3

\* No job is in two places after jobs went from one worker to the stream, back, or away.
LEMMA SingleMoves ==
    ASSUME TypeOK, Single, NEW w \in Workers, NEW x, inbox' = [inbox EXCEPT ![w] = x],
           Distinct(x), Distinct(stream'), Ids(x) \cap Ids(stream') = {},
           Ids(x) \cup Ids(stream') \subseteq Ids(stream) \cup Ids(inbox[w])
    PROVE  Single'
<1>1. inbox'[w] = x /\ \A v \in Workers \ {w} : inbox'[v] = inbox[v]
  BY DEF TypeOK
<1>2. \A v \in Workers : Distinct(inbox'[v])
  BY <1>1 DEF Single
<1>3. \A v \in Workers : Ids(stream') \cap Ids(inbox'[v]) = {}
  <2>1. ASSUME NEW v \in Workers, v # w PROVE Ids(stream') \cap Ids(inbox[v]) = {}
    <3>1. Ids(stream) \cap Ids(inbox[v]) = {} /\ Ids(inbox[w]) \cap Ids(inbox[v]) = {}
      BY <2>1 DEF Single
    <3> QED
      BY <3>1
  <2> QED
    BY <1>1, <2>1
<1>4. \A v \in Workers, u \in Workers : v # u => Ids(inbox'[v]) \cap Ids(inbox'[u]) = {}
  <2>1. ASSUME NEW v \in Workers, v # w PROVE Ids(x) \cap Ids(inbox[v]) = {}
    <3>1. Ids(stream) \cap Ids(inbox[v]) = {} /\ Ids(inbox[w]) \cap Ids(inbox[v]) = {}
      BY <2>1 DEF Single
    <3> QED
      BY <3>1
  <2>2. \A v \in Workers, u \in Workers : v # u => Ids(inbox[v]) \cap Ids(inbox[u]) = {}
    BY DEF Single
  <2> QED
    BY <1>1, <2>1, <2>2
<1> QED
  BY <1>2, <1>3, <1>4 DEF Single, Distinct, Ids

\* The jobs enqueued, not settled, and not attended to.
Lost == open \ Attended

\* What a step may do to the jobs.
Posted(p) ==
    /\ \E j \in Job : j.id = sent + 1 /\ stream' = Append(stream, j)
    /\ open' = open \cup {sent + 1} /\ sent' = sent + 1
    /\ inbox' = inbox /\ faults' = faults

PutBack(w) ==
    /\ \E j \in Job : j.id = Head(inbox[w]).id /\ stream' = Append(stream, j)
    /\ Drop(w) /\ UNCHANGED <<open, sent, faults>>

LeftPending(w) == Drop(w) /\ UNCHANGED <<stream, open, sent>> /\ faults' = faults + 1

Settled(w) == Drop(w) /\ UNCHANGED <<stream, sent, faults>> /\ open' = open \ {Head(inbox[w]).id}

Died(w) ==
    /\ inbox' = [inbox EXCEPT ![w] = <<>>]
    /\ UNCHANGED <<stream, open, sent>> /\ faults' = faults + 1

Idles == UNCHANGED jobs /\ faults' \in {faults, faults + 1}

\* And it does nothing else.
LEMMA JobMoves ==
    ASSUME TypeOK, Handed, NEW p \in Procs, Acts(p)
    PROVE  \/ Idles \/ Posted(p)
           \/ p \in Workers /\ (Read(p) \/ Died(p))
           \/ p \in Workers /\ inbox[p] # <<>> /\ (PutBack(p) \/ LeftPending(p) \/ Settled(p))
<1>s. faults \in Nat /\ stream \in Seq(Job)
  BY DEF TypeOK
<1>j. ASSUME NEW w \in Workers, inbox[w] # <<>>, NEW n \in 0..MaxRetries
      PROVE  [id |-> Head(inbox[w]).id, doc |-> op[w].doc, attempt |-> n] \in Job
  <2>1. Head(inbox[w]) \in Job
    BY <1>j DEF TypeOK
  <2>2. Head(inbox[w]).id \in Nat /\ op[w].doc \in Docs
    BY <2>1 DEF Job, TypeOK, Procs
  <2> QED
    BY <2>2 DEF Job
<1> USE DEF Fault, NoFault, db, jobs, proc, marks, bounds
<1>1. CASE p \in Deployers
        /\ (\E k \in DeployKinds, s \in Schemas \cup {{}}, a \in Approvals : Begin(p, k, s, a))
  BY <1>1 DEF Begin, Idles
<1>2. CASE p \in Deployers /\ Enqueue(p)
  <2>1. [id |-> sent + 1, doc |-> op[p].doc, attempt |-> 0] \in Job
    BY SchemaDeployAssumption DEF Job, TypeOK
  <2> QED
    BY <1>2, <2>1 DEF Enqueue, Posted, Idles
<1>3. CASE p \in Workers /\ (Read(p) \/ Take(p))
  BY <1>3 DEF Take, Idles
<1>4. CASE p \in Workers /\ WorkerLock(p)
  <2>1. inbox[p] # <<>>
    BY <1>4 DEF WorkerLock, Handed
  <2>2. [id |-> Head(inbox[p]).id, doc |-> op[p].doc, attempt |-> op[p].attempt] \in Job
    BY <1>4, <1>j, <2>1 DEF TypeOK
  <2> QED
    BY <1>4, <2>1, <2>2 DEF WorkerLock, Again, PutBack, LeftPending, Idles
<1>5. CASE p \in Workers /\ Retry(p)
  <2>1. inbox[p] # <<>>
    BY <1>5 DEF Retry, Handed
  <2>2. op[p].attempt < MaxRetries =>
            [id |-> Head(inbox[p]).id, doc |-> op[p].doc, attempt |-> op[p].attempt + 1] \in Job
    <3>1. op[p].attempt < MaxRetries => op[p].attempt + 1 \in 0..MaxRetries
      BY SchemaDeployAssumption DEF TypeOK
    <3> QED
      BY <1>5, <1>j, <2>1, <3>1
  <2> QED
    BY <1>5, <2>1, <2>2 DEF Retry, Again, PutBack, LeftPending, Idles
<1>6. CASE Unlock(p)
  BY <1>6 DEF Unlock, Settled, Idles, Handed
<1>7. CASE Crash(p)
  <2>1. p \in Workers => inbox' = [inbox EXCEPT ![p] = <<>>]
    BY <1>7 DEF Crash, TypeOK
  <2>2. p \notin Workers => inbox' = inbox
    BY <1>7 DEF Crash, TypeOK
  <2> QED
    BY <1>7, <2>1, <2>2 DEF Crash, Died, Idles
<1>8. CASE Diff(p) \/ Batch(p) \/ Index(p) \/ AddLinks(p) \/ Verify(p)
  BY <1>8 DEF Diff, Planned, Batch, Index, AddLinks, Verify, Idles
<1>9. CASE p \in Deployers /\ (ReadPrevious(p) \/ Insert(p) \/ SeedCount(p) \/ SeedRead(p)
        \/ AppendLatest(p) \/ AppendInsert(p) \/ Update(p) \/ Restore(p) \/ Hook(p)
        \/ DropSchema(p) \/ DeleteHistory(p) \/ DeleteTenant(p) \/ Return(p) \/ FanoutLock(p))
  BY <1>9 DEF ReadPrevious, Insert, SeedCount, SeedRead, AppendLatest, AppendFails,
     AppendInsert, Update, Restore, Hook, DropSchema, Cleanup, DeleteHistory, DeleteTenant,
     Return, Forget, FanoutLock, Idles
<1> QED
  BY <1>1, <1>2, <1>3, <1>4, <1>5, <1>6, <1>7, <1>8, <1>9 DEF Acts, DeployStep, JobStep, Migrate

\* A worker at work has the job in hand.
LEMMA HandedStep == TypeOK /\ Routed /\ Handed /\ [Next]_vars => Handed'
<1> SUFFICES ASSUME TypeOK, Routed, Handed, NEW p \in Procs, Acts(p) PROVE Handed'
  BY Somebody DEF Handed, vars, jobs
<1> USE DEF Goto, db, jobs, proc, marks, bounds
<1>0. ASSUME NEW v \in Workers, v # p PROVE pc'[v] = pc[v] /\ inbox'[v] = inbox[v]
  <2>1. pc'[v] = pc[v]
    BY <1>0, OthersKept DEF Kept, Procs
  <2>2. \/ inbox' = inbox
        \/ p \in Workers /\ \E x : inbox' = [inbox EXCEPT ![p] = x]
    BY JobMoves DEF Idles, Posted, Read, PutBack, LeftPending, Settled, Died, Drop
  <2> QED
    BY <1>0, <2>1, <2>2 DEF TypeOK
<1>1. ASSUME p \in Workers, pc'[p] \notin {"idle", "unlockFailed"} PROVE inbox'[p] # <<>>
  <2>1. CASE Take(p)
    BY <2>1 DEF Take
  <2>2. CASE WorkerLock(p)
    BY <1>1, <2>2 DEF WorkerLock, Handed, TypeOK
  <2>3. CASE Retry(p)
    BY <1>1, <2>3 DEF Retry, Handed, TypeOK
  <2>4. CASE Unlock(p) \/ Crash(p)
    BY <1>1, <2>4 DEF Unlock, Crash, TypeOK
  <2>5. CASE Read(p)
    BY <1>1, <2>5 DEF Read, Handed
  <2>6. CASE Diff(p) \/ Batch(p) \/ Index(p) \/ AddLinks(p) \/ Verify(p)
    BY <1>1, <2>6 DEF Diff, Planned, Batch, Index, AddLinks, Verify, Handed
  <2> QED
    BY <1>1, <2>1, <2>2, <2>3, <2>4, <2>5, <2>6, SchemaDeployAssumption DEF Acts, JobStep, Migrate
<1> QED
  BY <1>0, <1>1 DEF Handed

\* The jobs after a step: each in one place, numbered, and no more than ReadCount of
\* them lost by one fault.
LEMMA JobsAccounted ==
    TypeOK /\ Routed /\ Shared /\ NoJobVanishes /\ [Next]_vars => Shared' /\ NoJobVanishes'
<1> SUFFICES ASSUME TypeOK, Routed, Shared, NoJobVanishes, NEW p \in Procs, Acts(p)
             PROVE  Single' /\ Numbered' /\ NoJobVanishes'
  <2>1. ASSUME UNCHANGED vars, Shared, NoJobVanishes PROVE Shared' /\ NoJobVanishes'
    <3>1. UNCHANGED <<stream, inbox, open, sent, pc, faults>>
      BY <2>1 DEF vars, jobs, bounds
    <3>2. Single' /\ Numbered' /\ Handed'
      BY <2>1, <3>1 DEF Shared, Single, Numbered, Handed
    <3>3. NoJobVanishes'
      BY <2>1, <3>1 DEF NoJobVanishes, Attended
    <3> QED
      BY <3>2, <3>3 DEF Shared
  <2> QED
    BY <2>1, Somebody, HandedStep DEF Shared
<1>s. /\ faults \in Nat /\ sent \in Nat /\ stream \in Seq(Job) /\ open \subseteq 1..sent
      /\ ReadCount \in Nat \ {0} /\ \A w \in Workers : inbox[w] \in Seq(Job)
  BY ReplacementAssumption DEF TypeOK, Shared, Numbered
<1>f. IsFiniteSet(Lost) /\ Cardinality(Lost) \in Nat /\ Cardinality(Lost) <= ReadCount * faults
  <2>1. IsFiniteSet(1..sent)
    BY <1>s, FS_Interval
  <2>2. IsFiniteSet(Lost)
    BY <1>s, <2>1, FS_Subset DEF Lost
  <2> QED
    BY <2>2, FS_CardinalityType DEF NoJobVanishes, Lost
<1>a. ASSUME faults' \in {faults, faults + 1}, (Attended \subseteq open)', Lost' \subseteq Lost
      PROVE  NoJobVanishes'
  <2>1. Cardinality(Lost') <= Cardinality(Lost) /\ Cardinality(Lost') \in Nat
    BY <1>a, <1>f, FS_Subset, FS_CardinalityType
  <2> DEFINE r == ReadCount * faults
  <2>2. r \in Nat /\ ReadCount * (faults + 1) = r + ReadCount
    BY <1>s
  <2> HIDE DEF r
  <2>3. Cardinality(Lost') <= ReadCount * faults'
    BY <1>a, <1>f, <1>s, <2>1, <2>2 DEF r
  <2> QED
    BY <1>a, <2>3 DEF NoJobVanishes, Lost
<1>b. ASSUME NEW s \in Seq(Job), Len(s) <= ReadCount, faults' = faults + 1,
             (Attended \subseteq open)', Lost' \subseteq Lost \cup Ids(s)
      PROVE  NoJobVanishes'
  <2>1. IsFiniteSet(Ids(s)) /\ Cardinality(Ids(s)) \in Nat /\ Cardinality(Ids(s)) <= ReadCount
    BY <1>b, <1>s, JobsFew
  <2>2. IsFiniteSet(Lost \cup Ids(s)) /\ IsFiniteSet(Lost \cap Ids(s))
    BY <1>f, <2>1, FS_Union, FS_Subset
  <2>3. Cardinality(Lost \cap Ids(s)) \in Nat /\ Cardinality(Lost \cup Ids(s)) \in Nat
    BY <2>2, FS_CardinalityType
  <2>4. Cardinality(Lost \cup Ids(s)) = Cardinality(Lost) + Cardinality(Ids(s)) - Cardinality(Lost \cap Ids(s))
    BY <1>f, <2>1, FS_Union
  <2>5. Cardinality(Lost') <= Cardinality(Lost \cup Ids(s)) /\ Cardinality(Lost') \in Nat
    BY <1>b, <2>2, FS_Subset, FS_CardinalityType
  <2> DEFINE r == ReadCount * faults
  <2>6. r \in Nat /\ ReadCount * (faults + 1) = r + ReadCount
    BY <1>s
  <2> HIDE DEF r
  <2>7. Cardinality(Lost') <= ReadCount * faults'
    BY <1>b, <1>f, <1>s, <2>1, <2>3, <2>4, <2>5, <2>6 DEF r
  <2> QED
    BY <1>b, <2>7 DEF NoJobVanishes, Lost
<1>o. Attended \subseteq open
  BY DEF NoJobVanishes
<1>1. CASE Idles
  <2>1. Attended' = Attended /\ open' = open
    BY <1>1 DEF Idles, jobs, Attended, Ids
  <2>2. NoJobVanishes'
    BY <1>1, <1>a, <1>o, <2>1 DEF Idles, Lost
  <2> QED
    BY <1>1, <2>2 DEF Idles, jobs, Shared, Single, Numbered
<1>2. CASE Posted(p)
  <2>1. PICK j \in Job : j.id = sent + 1 /\ stream' = Append(stream, j)
    BY <1>2 DEF Posted
  <2>2. open' = open \cup {sent + 1} /\ sent' = sent + 1 /\ inbox' = inbox /\ faults' = faults
    BY <1>2 DEF Posted
  <2>3. j.id \notin Attended
    BY <1>o, <1>s, <2>1
  <2>4. Ids(stream') = Ids(stream) \cup {j.id} /\ Distinct(stream')
    <3>1. j.id \notin Ids(stream)
      BY <2>3 DEF Attended
    <3> QED
      BY <1>s, <2>1, <3>1, JobsMore DEF Shared, Single
  <2>5. Attended' = Attended \cup {j.id}
    BY <2>2, <2>4 DEF Attended, Ids
  <2>6. NoJobVanishes'
    <3>1. (Attended \subseteq open)' /\ Lost' \subseteq Lost
      BY <1>o, <2>1, <2>2, <2>5 DEF Lost
    <3> QED
      BY <1>a, <2>2, <3>1
  <2>7. Numbered'
    BY <1>s, <2>2 DEF Shared, Numbered
  <2>8. Single'
    <3>1. \A w \in Workers : Ids(stream') \cap Ids(inbox[w]) = {}
      <4>1. \A w \in Workers : j.id \notin Ids(inbox[w])
        BY <2>3 DEF Attended
      <4> QED
        BY <2>4, <4>1 DEF Shared, Single
    <3> QED
      BY <2>2, <2>4, <3>1 DEF Shared, Single
  <2> QED
    BY <2>6, <2>7, <2>8
<1>3. CASE p \in Workers /\ Read(p)
  <2> DEFINE n == IF Len(stream) < ReadCount THEN Len(stream) ELSE ReadCount
             a == SubSeq(stream, 1, n)
             b == SubSeq(stream, n + 1, Len(stream))
  <2>1. n \in 0..Len(stream) /\ n <= ReadCount
    BY <1>s
  <2>2. /\ stream' = b /\ inbox[p] = <<>> /\ UNCHANGED <<open, sent>>
        /\ \/ inbox' = [inbox EXCEPT ![p] = a] /\ faults' = faults
           \/ inbox' = inbox /\ faults' = faults + 1
    BY <1>3 DEF Read, Fault, NoFault, bounds
  <2> HIDE DEF n
  <2>3. /\ a \in Seq(Job) /\ b \in Seq(Job) /\ Len(a) = n
        /\ Ids(stream) = Ids(a) \cup Ids(b) /\ Ids(a) \cap Ids(b) = {}
        /\ Distinct(a) /\ Distinct(b)
    BY <1>s, <2>1, JobsRead DEF Shared, Single
  <2> HIDE DEF a, b
  <2>4. Ids(inbox[p]) = {}
    BY <2>2 DEF Ids
  <2>5. CASE inbox' = [inbox EXCEPT ![p] = a] /\ faults' = faults
    <3>1. Single'
      BY <1>3, <2>2, <2>3, <2>5, SingleMoves DEF Shared
    <3>2. Numbered'
      BY <1>3, <1>s, <2>1, <2>2, <2>3, <2>5 DEF Shared, Numbered, TypeOK
    <3>3. Attended' = Attended
      BY <1>3, <2>2, <2>3, <2>4, <2>5, AttendedMoves
    <3>4. NoJobVanishes'
      BY <1>a, <1>o, <2>2, <2>5, <3>3 DEF Lost
    <3> QED
      BY <3>1, <3>2, <3>4
  <2>6. CASE inbox' = inbox /\ faults' = faults + 1
    <3>1. inbox' = [inbox EXCEPT ![p] = inbox[p]]
      BY <1>3, <2>6 DEF TypeOK
    <3>2. Distinct(inbox[p]) /\ Ids(inbox[p]) \cap Ids(b) = {}
      BY <1>3, <2>4 DEF Shared, Single
    <3>3. Single'
      BY <1>3, <2>2, <2>3, <2>4, <3>1, <3>2, SingleMoves DEF Shared
    <3>4. Numbered'
      BY <2>2, <2>6 DEF Shared, Numbered
    <3>5. Attended' = Ids(b) \cup Ids(inbox[p]) \cup Others(p)
            /\ Attended = Ids(stream) \cup Ids(inbox[p]) \cup Others(p)
      BY <1>3, <2>2, <3>1, AttendedMoves
    <3>6. (Attended \subseteq open)' /\ Lost' \subseteq Lost \cup Ids(a)
      BY <1>o, <2>2, <2>3, <3>5 DEF Lost
    <3>7. Len(a) <= ReadCount
      BY <1>s, <2>1, <2>3
    <3>8. NoJobVanishes'
      BY <1>b, <2>3, <2>6, <3>6, <3>7
    <3> QED
      BY <3>3, <3>4, <3>8
  <2> QED
    BY <2>2, <2>5, <2>6
<1>4. CASE p \in Workers /\ inbox[p] # <<>> /\ (PutBack(p) \/ LeftPending(p) \/ Settled(p))
  <2> DEFINE x == Tail(inbox[p])
             h == Head(inbox[p]).id
  <2>1. inbox' = [inbox EXCEPT ![p] = x] /\ sent' = sent
    BY <1>4 DEF PutBack, LeftPending, Settled, Drop
  <2>2. /\ x \in Seq(Job) /\ Len(x) <= Len(inbox[p])
        /\ Ids(inbox[p]) = {h} \cup Ids(x) /\ h \notin Ids(x) /\ Distinct(x)
    BY <1>4, <1>s, JobsTail DEF Shared, Single
  <2> HIDE DEF x, h
  <2>3. h \notin Ids(stream) /\ Ids(x) \cap Ids(stream) = {} /\ h \notin Others(p)
    BY <1>4, <2>2, AttendedMoves DEF Shared, Single
  <2>4. \A w \in Workers : (Len(inbox[w]) <= ReadCount)'
    <3>1. Len(x) <= ReadCount
      <4>1. Len(inbox[p]) <= ReadCount /\ Len(inbox[p]) \in Nat /\ Len(x) \in Nat
        BY <1>4, <1>s, <2>2 DEF Shared, Numbered
      <4> QED
        BY <1>s, <2>2, <4>1
    <3> QED
      BY <1>4, <2>1, <3>1 DEF Shared, Numbered, TypeOK
  <2>5. Attended' = Ids(stream') \cup Ids(x) \cup Others(p)
          /\ Attended = Ids(stream) \cup Ids(inbox[p]) \cup Others(p)
    BY <1>4, <2>1, AttendedMoves
  <2>6. CASE PutBack(p)
    <3>1. PICK j \in Job : j.id = h /\ stream' = Append(stream, j)
      BY <2>6 DEF PutBack, h
    <3>2. Ids(stream') = Ids(stream) \cup {h} /\ Distinct(stream')
      BY <1>s, <2>3, <3>1, JobsMore DEF Shared, Single
    <3>3. Single'
      BY <1>4, <2>1, <2>2, <2>3, <3>2, SingleMoves DEF Shared
    <3>4. Attended' = Attended /\ open' = open /\ faults' = faults
      BY <2>2, <2>5, <2>6, <3>2 DEF PutBack
    <3>5. NoJobVanishes'
      BY <1>a, <1>o, <3>4 DEF Lost
    <3>6. Numbered'
      BY <1>s, <2>1, <2>4, <3>4 DEF Numbered
    <3> QED
      BY <3>3, <3>5, <3>6
  <2>7. CASE LeftPending(p)
    <3>1. stream' = stream /\ open' = open /\ faults' = faults + 1
      BY <2>7 DEF LeftPending
    <3>2. Single'
      BY <1>4, <2>1, <2>2, <2>3, <3>1, SingleMoves DEF Shared, Single
    <3>3. (Attended \subseteq open)' /\ Lost' \subseteq Lost \cup Ids(inbox[p])
      BY <1>o, <2>2, <2>5, <3>1 DEF Lost
    <3>4. Len(inbox[p]) <= ReadCount
      BY <1>4 DEF Shared, Numbered
    <3>5. NoJobVanishes'
      BY <1>4, <1>b, <1>s, <3>1, <3>3, <3>4
    <3>6. Numbered'
      BY <1>s, <2>1, <2>4, <3>1 DEF Numbered
    <3> QED
      BY <3>2, <3>5, <3>6
  <2>8. CASE Settled(p)
    <3>1. stream' = stream /\ open' = open \ {h} /\ faults' = faults
      BY <2>8 DEF Settled, h
    <3>2. Single'
      BY <1>4, <2>1, <2>2, <2>3, <3>1, SingleMoves DEF Shared, Single
    <3>3. (Attended \subseteq open)' /\ Lost' \subseteq Lost
      BY <1>o, <2>2, <2>3, <2>5, <3>1 DEF Lost
    <3>4. NoJobVanishes'
      BY <1>a, <3>1, <3>3
    <3>5. Numbered'
      BY <1>s, <2>1, <2>4, <3>1 DEF Numbered
    <3> QED
      BY <3>2, <3>4, <3>5
  <2> QED
    BY <1>4, <2>6, <2>7, <2>8
<1>5. CASE p \in Workers /\ Died(p)
  <2>1. inbox' = [inbox EXCEPT ![p] = <<>>] /\ UNCHANGED <<stream, open, sent>> /\ faults' = faults + 1
    BY <1>5 DEF Died
  <2>2. Ids(<<>>) = {} /\ Distinct(<<>>) /\ Len(<<>>) = 0
    BY DEF Ids, Distinct
  <2>3. Single'
    BY <1>5, <2>1, <2>2, SingleMoves DEF Shared, Single
  <2>4. Numbered'
    BY <1>5, <1>s, <2>1, <2>2 DEF Shared, Numbered, TypeOK
  <2>5. Attended' = Ids(stream) \cup Ids(<<>>) \cup Others(p)
          /\ Attended = Ids(stream) \cup Ids(inbox[p]) \cup Others(p)
    BY <1>5, <2>1, AttendedMoves
  <2>6. (Attended \subseteq open)' /\ Lost' \subseteq Lost \cup Ids(inbox[p])
    BY <1>o, <2>1, <2>2, <2>5 DEF Lost
  <2>7. Len(inbox[p]) <= ReadCount
    BY <1>5 DEF Shared, Numbered
  <2>8. NoJobVanishes'
    BY <1>5, <1>b, <1>s, <2>1, <2>6, <2>7
  <2> QED
    BY <2>3, <2>4, <2>8
<1> QED
  BY <1>1, <1>2, <1>3, <1>4, <1>5, JobMoves DEF Shared

\* What a process appends depends on its own state.
LEMMA ItemKept == ASSUME NEW q, Kept(q) PROVE Item(q)' = Item(q) /\ Appending(q)' = Appending(q)
  BY DEF Kept, Item, Seeding, Kind, Appending

\* Only Append and the clean-up of a registration touch the history; and only Append
\* goes to its INSERT.
LEMMA HistoryWriters ==
    ASSUME TypeOK, Routed, NEW p \in Procs, Acts(p)
    PROVE  \/ AppendLatest(p) \/ AppendInsert(p) \/ DeleteHistory(p)
           \/ history' = history /\ wiped' = wiped /\ ~Appending(p)'
<1> USE DEF TypeOK, Fault, NoFault, Goto, db, jobs, proc, marks, bounds, Appending
<1>1. CASE p \in Deployers
        /\ (\E k \in DeployKinds, s \in Schemas \cup {{}}, a \in Approvals : Begin(p, k, s, a))
  <2>1. PICK k \in DeployKinds, s \in Schemas \cup {{}}, a \in Approvals : Begin(p, k, s, a)
    BY <1>1
  <2>2. FirstStep(k) \notin {"seedInsert", "histInsert"}
    BY FirstSteps DEF DeployKinds
  <2> QED
    BY <2>1, <2>2 DEF Begin
<1>2. CASE p \in Deployers /\ (AppendLatest(p) \/ AppendInsert(p) \/ DeleteHistory(p))
  BY <1>2
<1>3. CASE Diff(p) \/ Batch(p) \/ Index(p) \/ AddLinks(p) \/ Verify(p)
  <2>1. pc[p] \in Mig /\ pc'[p] \in Mig \cup {AfterApply(p), AfterFailure(p)}
    BY <1>3, MigGoes
  <2>2. ~Appending(p)'
    BY <2>1, Targets DEF Routed, Paths, Mig
  <2>3. history' = history /\ wiped' = wiped
    BY <1>3 DEF Diff, Planned, Batch, Index, AddLinks, Verify
  <2> QED
    BY <2>2, <2>3
<1>4. CASE ReadPrevious(p) \/ Insert(p) \/ SeedCount(p) \/ SeedRead(p) \/ Update(p) \/ Restore(p)
        \/ Hook(p) \/ DropSchema(p) \/ DeleteTenant(p) \/ Enqueue(p) \/ Return(p) \/ FanoutLock(p)
  BY <1>4 DEF ReadPrevious, Insert, SeedCount, SeedRead, Update, Restore, Hook, DropSchema, Cleanup,
     DeleteTenant, Enqueue, Return, Forget, FanoutLock, AfterSeed
<1>5. CASE Unlock(p) \/ Read(p) \/ Take(p) \/ WorkerLock(p) \/ Retry(p) \/ Crash(p)
  BY <1>5 DEF Unlock, Forget, Read, Take, WorkerLock, Again, Retry, Crash, AfterSeed
<1> QED
  BY <1>1, <1>2, <1>3, <1>4, <1>5 DEF Acts, DeployStep, JobStep, Migrate

\* Append finds its number taken, or appends something else than the latest version.
LEMMA FreshStep ==
    TypeOK /\ Routed /\ Fresh /\ VersionsDiffer /\ [Next]_vars => Fresh' /\ VersionsDiffer'
<1> SUFFICES ASSUME TypeOK, Routed, Fresh, VersionsDiffer, NEW p \in Procs, Acts(p)
             PROVE Fresh' /\ VersionsDiffer'
  BY Somebody DEF Fresh, FreshAt, VersionsDiffer, Appending, Latest, Item, Seeding, Kind, vars, db,
     proc, marks
<1>1. \A q \in Procs \ {p} : Kept(q) /\ Item(q)' = Item(q) /\ Appending(q)' = Appending(q)
  BY OthersKept, ItemKept
<1>2. CASE history' = history /\ wiped' = wiped /\ ~Appending(p)'
  <2>1. \A q \in Procs \ {p} : FreshAt(q)' = FreshAt(q)
    BY <1>1, <1>2 DEF FreshAt, Latest, Kept
  <2>2. FreshAt(p)'
    BY <1>2 DEF FreshAt
  <2> QED
    BY <1>2, <2>1, <2>2 DEF Fresh, VersionsDiffer
<1>3. CASE AppendLatest(p)
  <2>1. history' = history /\ wiped' = wiped
    BY <1>3 DEF AppendLatest, AppendFails, marks
  <2>2. \A q \in Procs \ {p} : FreshAt(q)' = FreshAt(q)
    BY <1>1, <2>1 DEF FreshAt, Latest, Kept
  <2>3. CASE latest' = [latest EXCEPT ![p] = Len(history)] /\ Latest # Item(p)
             /\ pc' = [pc EXCEPT ![p] = IF Seeding(p) THEN "seedInsert" ELSE "histInsert"]
    <3>1. latest'[p] = Len(history)
      BY <2>3 DEF TypeOK
    <3>2. Item(p)' = Item(p)
      <4>1. Seeding(p)' = Seeding(p)
        BY <1>3, <2>3 DEF Seeding, AppendLatest, TypeOK
      <4>2. seen' = seen /\ op' = op
        BY <1>3 DEF AppendLatest
      <4> QED
        BY <4>1, <4>2 DEF Item, Kind
    <3>3. Latest' = Latest
      BY <2>1 DEF Latest
    <3>4. Len(history) \in Nat
      BY DEF TypeOK
    <3>5. FreshAt(p)'
      BY <2>1, <2>3, <3>1, <3>2, <3>3, <3>4 DEF FreshAt
    <3> QED
      BY <2>1, <2>2, <3>5 DEF Fresh, VersionsDiffer
  <2>4. CASE Goto(p, AfterAppend(p))
    <3>1. ~Appending(p)'
      BY <1>3, <2>4, Targets DEF AppendLatest, Hist, Goto, Appending, TypeOK, Routed, Paths
    <3> QED
      BY <2>1, <2>2, <3>1 DEF Fresh, FreshAt, VersionsDiffer
  <2> QED
    BY <1>3, <2>3, <2>4 DEF AppendLatest, AppendFails, Goto
<1>4. CASE AppendInsert(p)
  <2>1. wiped' = wiped
    BY <1>4 DEF AppendInsert, AppendFails, marks
  <2>2. ~Appending(p)'
    <3>1. AfterAppend(p) \notin {"seedInsert", "histInsert"}
      BY <1>4, Targets DEF AppendInsert, Hist, Routed, Paths
    <3> QED
      BY <1>4, <3>1 DEF AppendInsert, AppendFails, Goto, Appending, TypeOK
  <2>3. CASE history' = Append(history, Item(p)) /\ latest[p] >= Len(history)
    <3>1. Len(history') = Len(history) + 1 /\ Len(history) \in Nat
      BY <2>3 DEF TypeOK
    <3>2. ASSUME ~wiped, NEW q \in Procs \ {p}, Appending(q) PROVE latest[q] <= Len(history)
      BY <3>2 DEF Fresh, FreshAt
    <3>3. ASSUME ~wiped, NEW q \in Procs \ {p} PROVE FreshAt(q)'
      <4>1. latest[q] \in Nat /\ latest'[q] = latest[q]
        BY <1>1 DEF TypeOK, Kept
      <4> QED
        BY <1>1, <3>1, <3>2, <3>3, <4>1 DEF FreshAt
    <3>4. FreshAt(p)'
      BY <2>2 DEF FreshAt
    <3>5. ~wiped /\ history # <<>> => history[Len(history)] # Item(p)
      <4>1. ~wiped => latest[p] <= Len(history) /\ (latest[p] = Len(history) => Latest # Item(p))
        BY <1>4 DEF Fresh, FreshAt, Appending, AppendInsert
      <4>2. latest[p] \in Nat
        BY DEF TypeOK
      <4> QED
        BY <2>3, <3>1, <4>1, <4>2 DEF Latest
    <3>6. ASSUME ~wiped, NEW v \in 1..(Len(history') - 1) PROVE history'[v] # history'[v + 1]
      <4>1. CASE v < Len(history)
        <5>1. v \in 1..(Len(history) - 1) /\ history'[v] = history[v]
                /\ history'[v + 1] = history[v + 1]
          BY <2>3, <3>1, <3>6, <4>1 DEF TypeOK
        <5> QED
          BY <3>6, <5>1 DEF VersionsDiffer
      <4>2. CASE v = Len(history)
        <5>1. history'[v] = history[v] /\ history'[v + 1] = Item(p) /\ history # <<>>
          BY <2>3, <3>1, <4>2 DEF TypeOK
        <5> QED
          BY <3>5, <3>6, <4>2, <5>1
      <4> QED
        BY <3>1, <3>6, <4>1, <4>2
    <3> QED
      BY <2>1, <3>3, <3>4, <3>6 DEF Fresh, VersionsDiffer
  <2>4. CASE history' = history
    <3>1. \A q \in Procs \ {p} : FreshAt(q)' = FreshAt(q)
      BY <1>1, <2>4 DEF FreshAt, Latest, Kept
    <3> QED
      BY <2>1, <2>2, <2>4, <3>1 DEF Fresh, FreshAt, VersionsDiffer
  <2> QED
    BY <1>4, <2>3, <2>4 DEF AppendInsert, AppendFails
<1>5. CASE DeleteHistory(p)
  <2>1. ~Appending(p)'
    BY <1>5 DEF DeleteHistory, Cleanup, Goto, Appending, TypeOK
  <2>2. CASE history' = history /\ wiped' = wiped
    BY <1>2, <2>1, <2>2
  <2>3. CASE history' = <<>> /\ wiped' = (wiped \/ \E q \in Procs : Appending(q))
    <3>1. ~wiped' => \A q \in Procs : ~Appending(q)'
      BY <1>1, <2>1, <2>3
    <3> QED
      BY <2>3, <3>1 DEF Fresh, FreshAt, VersionsDiffer
  <2> QED
    BY <1>5, <2>2, <2>3 DEF DeleteHistory, Appending, TypeOK
<1> QED
  BY <1>2, <1>3, <1>4, <1>5, HistoryWriters

\* Only the beginning of a deploy changes who is alone; a process that goes on was
\* active.
LEMMA AloneKept ==
    ASSUME TypeOK, NEW p \in Procs, Acts(p)
    PROVE  \/ p \in Deployers /\ \E k \in DeployKinds, s \in Schemas \cup {{}}, a \in Approvals : Begin(p, k, s, a)
           \/ alone' = alone /\ (p \in Deployers => Active(p))
<1> USE DEF Fault, NoFault, Goto, db, jobs, proc, marks, bounds, Active
<1>1. CASE p \in Deployers
        /\ (\E k \in DeployKinds, s \in Schemas \cup {{}}, a \in Approvals : Begin(p, k, s, a))
  BY <1>1
<1>2. CASE p \in Workers /\ (Read(p) \/ Take(p) \/ WorkerLock(p) \/ Retry(p))
  BY <1>2, SchemaDeployAssumption DEF Read, Take, WorkerLock, Forget, Again, Retry
<1>3. CASE ReadPrevious(p) \/ Insert(p) \/ SeedCount(p) \/ SeedRead(p) \/ AppendLatest(p)
        \/ AppendInsert(p) \/ Update(p) \/ Restore(p) \/ Hook(p) \/ DropSchema(p)
        \/ DeleteHistory(p) \/ DeleteTenant(p) \/ Enqueue(p) \/ Return(p) \/ FanoutLock(p)
  BY <1>3 DEF ReadPrevious, Insert, SeedCount, SeedRead, AppendLatest, AppendFails, AppendInsert,
     Update, Restore, Hook, DropSchema, Cleanup, DeleteHistory, DeleteTenant, Enqueue, Return,
     Forget, FanoutLock
<1>4. CASE Diff(p) \/ Batch(p) \/ Verify(p) \/ Unlock(p)
  BY <1>4 DEF Diff, Planned, Batch, Verify, Unlock, Forget
<1>5. CASE Index(p)
  BY <1>5 DEF Index
<1>6. CASE AddLinks(p)
  BY <1>6 DEF AddLinks
<1>7. CASE Crash(p)
  BY <1>7, SchemaDeployAssumption DEF Crash
<1> QED
  BY <1>1, <1>2, <1>3, <1>4, <1>5, <1>6, <1>7 DEF Acts, DeployStep, JobStep, Migrate

\* What happened to the deploys is forgotten only when one that was alone succeeds.
LEMMA Settles ==
    ASSUME TypeOK, NEW p \in Procs, Acts(p), disturbed, ~disturbed'
    PROVE  Return(p) /\ pc[p] = "report" /\ p \in alone
<1> USE DEF TypeOK, Fault, NoFault, Goto, db, jobs, proc, marks, bounds
<1>1. CASE p \in Deployers /\ Return(p)
  BY <1>1 DEF Return, Forget
<1>2. CASE p \in Deployers /\ (DropSchema(p) \/ DeleteHistory(p) \/ DeleteTenant(p))
  BY <1>2 DEF DropSchema, DeleteHistory, DeleteTenant, Cleanup
<1>3. CASE \E k \in DeployKinds, s \in Schemas \cup {{}}, a \in Approvals : Begin(p, k, s, a)
  BY <1>3 DEF Begin
<1>4. CASE ReadPrevious(p) \/ Insert(p) \/ SeedCount(p) \/ SeedRead(p) \/ AppendLatest(p)
        \/ AppendInsert(p) \/ Update(p) \/ Restore(p) \/ Hook(p) \/ Enqueue(p) \/ FanoutLock(p)
  BY <1>4 DEF ReadPrevious, Insert, SeedCount, SeedRead, AppendLatest, AppendFails, AppendInsert,
     Update, Restore, Hook, Enqueue, FanoutLock
<1>5. CASE Diff(p) \/ Batch(p) \/ Index(p) \/ AddLinks(p) \/ Verify(p) \/ Unlock(p) \/ Read(p) \/ Take(p)
        \/ WorkerLock(p) \/ Retry(p) \/ Crash(p)
  BY <1>5 DEF Diff, Planned, Batch, Index, AddLinks, Verify, Unlock, Forget, Read, Take, WorkerLock,
     Again, Retry, Crash
<1> QED
  BY <1>1, <1>2, <1>3, <1>4, <1>5 DEF Acts, DeployStep, JobStep, Migrate

\* A deploy that is alone stays the only one until another begins.
LEMMA SolitaryStep == TypeOK /\ Solitary /\ [Next]_vars => Solitary'
<1> SUFFICES ASSUME TypeOK, Solitary, NEW p \in Procs, Acts(p) PROVE Solitary'
  BY Somebody DEF Solitary, Active, vars, marks
<1>1. \A q \in Procs \ {p} : Active(q)' = Active(q)
  BY OthersKept DEF Kept, Active
<1>2. CASE p \in Deployers /\ \E k \in DeployKinds, s \in Schemas \cup {{}},
        a \in Approvals : Begin(p, k, s, a)
  <2>1. CASE AtRest
    <3>1. \A q \in Deployers \ {p} : ~Active(q)'
      BY <1>1, <2>1 DEF AtRest, Procs
    <3>2. alone' = {p}
      BY <1>2, <2>1 DEF Begin
    <3> QED
      BY <3>1, <3>2 DEF Solitary
  <2>2. CASE ~AtRest
    <3>1. alone' = {} /\ disturbed'
      BY <1>2, <2>2 DEF Begin
    <3> QED
      BY <3>1 DEF Solitary
  <2> QED
    BY <2>1, <2>2
<1>3. CASE alone' = alone /\ (p \in Deployers => Active(p))
  <2>1. \A q \in Deployers : Active(q)' => Active(q)
    BY <1>1, <1>3 DEF Procs
  <2>2. (\A q \in alone, r \in Deployers : Active(r) => r = q)'
    BY <1>3, <2>1 DEF Solitary
  <2>3. CASE disturbed => disturbed'
    BY <1>3, <2>1, <2>2, <2>3 DEF Solitary
  <2>4. CASE disturbed /\ ~disturbed'
    <3>0. Return(p) /\ p \in alone
      BY <2>4, Settles
    <3>1. p \in alone /\ ~Active(p)'
      BY <3>0 DEF Return, Goto, Active, TypeOK
    <3>2. \A q \in Deployers : ~Active(q)'
      BY <2>1, <3>1 DEF Solitary
    <3> QED
      BY <2>2, <3>2 DEF Solitary
  <2> QED
    BY <2>3, <2>4
<1> QED
  BY <1>2, <1>3, AloneKept

\* What a statement of the migration leaves alone, and where it goes.
LEMMA MigMoves ==
    ASSUME TypeOK, Routed, NEW p \in Procs, Diff(p) \/ Batch(p) \/ Index(p) \/ AddLinks(p) \/ Verify(p)
    PROVE  /\ UNCHANGED <<record, history, prev, seen, alone, disturbed, unlogged>>
           /\ \A q \in Procs : op'[q].kind = op[q].kind /\ op'[q].doc = op[q].doc
           /\ pc[p] \in Mig /\ pc'[p] \in Mig \cup {AfterApply(p), AfterFailure(p)}
           /\ Kind(p) \in {"put", "register", "fanout", "cli", "job"} /\ Kind(p)' = Kind(p)
<1>1. UNCHANGED <<record, history, prev, seen, alone, disturbed, unlogged>>
  BY DEF Diff, Planned, Batch, Index, AddLinks, Verify, db, proc, marks
<1>2. pc[p] \in Mig /\ pc'[p] \in Mig \cup {AfterApply(p), AfterFailure(p)}
  BY MigGoes
<1>3. Kind(p) \in {"put", "register", "fanout", "cli", "job"}
  BY <1>2 DEF Routed, Paths, OnPath, Mig, Seed, Kind, DeployKinds, TypeOK
<1> QED
  BY <1>1, <1>2, <1>3, SameDeploy DEF Kind

\* The same for Append.
LEMMA AppendMoves ==
    ASSUME TypeOK, Routed, NEW p \in Procs, AppendLatest(p) \/ AppendInsert(p)
    PROVE  /\ UNCHANGED <<record, tables, op, prev, seen, plan, gaps, undone, alone, disturbed>> /\ Kind(p)' = Kind(p)
           /\ pc[p] \in {"seedLatest", "seedInsert"} \cup Hist
           /\ Seeding(p) => /\ Kind(p) \in {"put", "fanout", "cli", "backfill"}
                            /\ pc'[p] \in {"seedLatest", "seedInsert", AfterSeed(p)}
           /\ ~Seeding(p) => /\ Kind(p) \in {"put", "register", "fanout", "cli"}
                             /\ pc'[p] \in Hist \cup {AfterHistory(p)}
<1>1. UNCHANGED <<record, tables, op, prev, seen, plan, gaps, undone, alone, disturbed>>
  BY DEF AppendLatest, AppendInsert, AppendFails, marks
<1>2. pc[p] \in {"seedLatest", "seedInsert"} \cup Hist
  BY DEF AppendLatest, AppendInsert, Hist
<1>3. /\ Seeding(p) => pc'[p] \in {"seedLatest", "seedInsert", AfterSeed(p)}
      /\ ~Seeding(p) => pc'[p] \in Hist \cup {AfterHistory(p)}
  BY DEF AppendLatest, AppendInsert, AppendFails, AfterAppend, Goto, Hist, TypeOK
<1>4. /\ Seeding(p) => Kind(p) \in {"put", "fanout", "cli", "backfill"}
      /\ ~Seeding(p) => Kind(p) \in {"put", "register", "fanout", "cli"}
  BY <1>2 DEF Seeding, Routed, Paths, OnPath, Mig, Seed, Hist, Kind, DeployKinds, TypeOK
<1> QED
  BY <1>1, <1>2, <1>3, <1>4 DEF Kind

\* An Append leaves the row as it was: where it goes on, the deploy has touched the
\* row only if it had before.
LEMMA AppendUntouched ==
    ASSUME TypeOK, Routed, NEW p \in Procs, AppendLatest(p) \/ AppendInsert(p)
    PROVE  Untouched(p)' => Untouched(p)
<1>1. Kind(p)' = Kind(p) /\ pc[p] \in {"seedLatest", "seedInsert"} \cup Hist
  BY AppendMoves
<1>2. CASE Seeding(p)
  <2>1. pc[p] \in {"seedLatest", "seedInsert"}
    BY <1>2 DEF Seeding
  <2>2. Kind(p) \in {"put", "fanout", "cli", "backfill"}
    BY <1>2, AppendMoves
  <2> QED
    BY <2>1, <2>2 DEF Untouched, Seed
<1>3. CASE ~Seeding(p)
  <2>1. Kind(p) \in {"put", "register", "fanout", "cli"} /\ pc'[p] \in Hist \cup {AfterHistory(p)}
    BY <1>3, AppendMoves
  <2>2. pc'[p] \in Hist \cup {"enqueue", "diff", "unlock", "report"}
    BY <2>1, Ways
  <2>3. Kind(p) \in {"put", "register"} => pc'[p] \in Hist \cup {"enqueue", "diff"}
    BY <2>1, Ways
  <2>4. Kind(p) \in {"fanout", "cli"} => pc'[p] \in Hist \cup {"unlock", "report"}
    BY <2>1, Ways
  <2> QED
    BY <1>1, <2>1, <2>3, <2>4 DEF Untouched, Seed, Hist, Mig
<1> QED
  BY <1>2, <1>3

\* What a transaction takes away is counted, as a gap or as undone, and what it puts
\* in place is not any more.
LEMMA Counted ==
    ASSUME TypeOK, NEW p \in Procs, NEW gone, NEW added \in Docs, tables # None, Change(p, gone, added)
    PROVE  /\ tables' # None
           /\ gaps \subseteq Real' \cup gaps'
           /\ Real \cup gaps \cup undone \subseteq (Real \cup gaps \cup undone)'
           /\ p \notin Deployers => Real \cup undone \subseteq (Real \cup undone)'
<1>1. tables \in Docs
  BY DEF TypeOK
<1>2. (tables \ gone) \cup added \in Docs
  BY <1>1 DEF Docs
<1>3. tables' = (tables \ gone) \cup added /\ tables' # None
  BY <1>2, SchemaDeployAssumption DEF Change, Docs
<1>4. Real = tables /\ Real' = tables'
  BY <1>3 DEF Real
<1>5. /\ gaps' = IF p \in Deployers THEN (gaps \ added) \cup ((gone \cap tables) \ added) ELSE gaps \ added
      /\ undone' = IF p \in Workers THEN (undone \ added) \cup ((gone \cap tables) \ added) ELSE undone \ added
  BY <1>4 DEF Change
<1>6. p \in Deployers \/ p \in Workers
  BY DEF Procs
<1> QED
  BY <1>3, <1>4, <1>5, <1>6

\* A statement of the migration changes no object, or is such a transaction.
LEMMA Changes ==
    ASSUME TypeOK, NEW p \in Procs, Diff(p) \/ Batch(p) \/ Index(p) \/ AddLinks(p) \/ Verify(p)
    PROVE  \/ UNCHANGED <<tables, undone>> /\ gaps \subseteq gaps'
           \/ tables # None /\ \E gone, added : added \in Docs /\ Change(p, gone, added)
<1>1. plan[p].adds \cap Columns \in Docs /\ \A o \in plan[p].adds : {o} \in Docs
  BY DEF TypeOK, Docs
<1>2. CASE Diff(p)
  BY <1>2 DEF Diff, db, marks
<1>3. CASE Verify(p)
  BY <1>3 DEF Verify, db
<1>4. CASE Batch(p)
  BY <1>1, <1>4 DEF Batch, Unchanged
<1>5. CASE Index(p)
  BY <1>1, <1>5 DEF Index, Unchanged
<1>6. CASE AddLinks(p)
  BY <1>1, <1>6 DEF AddLinks, Unchanged
<1> QED
  BY <1>2, <1>3, <1>4, <1>5, <1>6

\* Whatever a migration does, what was there is there or is counted as a gap or as
\* undone; what a job does is not counted as a gap.
LEMMA Covering ==
    ASSUME TypeOK, NEW p \in Procs, Diff(p) \/ Batch(p) \/ Index(p) \/ AddLinks(p) \/ Verify(p)
    PROVE  /\ gaps \subseteq Real' \cup gaps'
           /\ Real \cup gaps \cup undone \subseteq (Real \cup gaps \cup undone)'
           /\ p \notin Deployers => Real \cup undone \subseteq (Real \cup undone)'
<1>1. CASE UNCHANGED <<tables, undone>> /\ gaps \subseteq gaps'
  BY <1>1 DEF Real
<1>2. CASE tables # None /\ \E gone, added : added \in Docs /\ Change(p, gone, added)
  <2>1. PICK gone, added : added \in Docs /\ Change(p, gone, added)
    BY <1>2
  <2> QED
    BY <1>2, <2>1, Counted
<1> QED
  BY <1>1, <1>2, Changes

\* A worker takes away only what is then counted as undone.
LEMMA WorkerStep ==
    ASSUME TypeOK, Routed, NEW p \in Procs, p \notin Deployers, Acts(p)
    PROVE  /\ UNCHANGED <<record, history, alone, unlogged>>
           /\ disturbed' = disturbed
           /\ gaps \subseteq Real' \cup gaps'
           /\ Real \cup gaps \cup undone \subseteq (Real \cup gaps \cup undone)'
           /\ Real \cup undone \subseteq (Real \cup undone)'
<1>1. JobStep(p) \/ Crash(p)
  BY DEF Acts
<1>2. CASE Diff(p) \/ Batch(p) \/ Index(p) \/ AddLinks(p) \/ Verify(p)
  BY <1>2, MigMoves, Covering
<1>3. CASE Read(p) \/ Take(p) \/ WorkerLock(p) \/ Retry(p) \/ Unlock(p) \/ Crash(p)
  <2>1. UNCHANGED <<record, tables, history, gaps, undone, alone, unlogged>> /\ disturbed' = disturbed
    BY <1>3 DEF Read, Take, WorkerLock, Retry, Unlock, Crash, db, marks, TypeOK
  <2> QED
    BY <2>1 DEF Real
<1> QED
  BY <1>1, <1>2, <1>3 DEF JobStep, Migrate

\* A deploy that is alone after a step has just begun, or has made the step itself,
\* or a worker has.
LEMMA Lone ==
    ASSUME TypeOK, Routed, Solitary, NEW p \in Procs, Acts(p), NEW r \in alone'
    PROVE  \/ r = p /\ p \in Deployers
           \/ p \notin Deployers /\ r \in alone /\ Kept(r)
<1>1. CASE p \in Deployers /\ \E k \in DeployKinds, s \in Schemas \cup {{}},
        a \in Approvals : Begin(p, k, s, a)
  BY <1>1 DEF Begin
<1>2. CASE alone' = alone /\ (p \in Deployers => Active(p))
  <2>1. r \in alone
    BY <1>2
  <2>2. p \in Deployers => r = p
    BY <1>2, <2>1 DEF Solitary
  <2>3. p \notin Deployers => Kept(r)
    BY <2>1, OthersKept DEF TypeOK, Procs
  <2> QED
    BY <2>1, <2>2, <2>3
<1> QED
  BY <1>1, <1>2, AloneKept

\* A deploy that is alone finds its own schema on record.
LEMMA RecordedStep ==
    TypeOK /\ Routed /\ Planning /\ Solitary /\ Recorded /\ [Next]_vars => Recorded'
<1> SUFFICES ASSUME TypeOK, Routed, Planning, Solitary, Recorded, NEW p \in Procs, Acts(p)
             PROVE Recorded'
  BY Somebody DEF Recorded, RecordedAt, Wrote, Kind, Mig, Seed, Hist, Excused, Real, vars, db, proc,
     marks
<1>w. ASSUME p \notin Deployers, NEW r \in alone, Kept(r), RecordedAt(r) PROVE RecordedAt(r)'
  BY <1>w, WorkerStep DEF RecordedAt, Wrote, Kind, Kept
<1>p. ASSUME p \in Deployers, p \in alone' PROVE RecordedAt(p)'
  <2> USE <1>p DEF TypeOK, Fault, NoFault, Goto, db, jobs, proc, marks, bounds, RecordedAt, Wrote,
        Kind, Mig, Seed, Hist
  <2>1. CASE p \in Deployers
          /\ (\E k \in DeployKinds, s \in Schemas \cup {{}}, a \in Approvals : Begin(p, k, s, a))
    <3>1. PICK k \in DeployKinds, s \in Schemas \cup {{}}, a \in Approvals : Begin(p, k, s, a)
      BY <2>1
    <3>2. op'[p].kind = k /\ pc'[p] = FirstStep(k)
      BY <3>1 DEF Begin
    <3> QED
      BY <3>2, FirstSteps DEF DeployKinds
  <2>2. CASE p \in Deployers /\ Insert(p)
    <3>1. op' = op /\ (record' = op[p].doc \/ pc'[p] = "failed")
      BY <2>2 DEF Insert
    <3> QED
      BY <3>1
  <2>3. CASE p \in Deployers /\ (AppendLatest(p) \/ AppendInsert(p))
    <3>0. RecordedAt(p)
      BY <2>3, AppendMoves DEF AppendLatest, AppendFails, AppendInsert, Recorded
    <3>1. Wrote(p)' => Wrote(p)
      BY <2>3, AppendMoves, Ways DEF Seeding, AfterSeed
    <3> QED
      BY <2>3, <3>0, <3>1, AppendMoves
  <2>4. CASE p \in Deployers /\ Update(p)
    <3>1. op' = op /\ (record' = op[p].doc \/ record' = None
            \/ pc'[p] \in {"failed", "unlockFailed"})
      BY <2>4 DEF Update
    <3> QED
      BY <3>1
  <2>5. CASE p \in Deployers /\ Restore(p)
    BY <2>5 DEF Restore
  <2>6. CASE Return(p) \/ Crash(p)
    <3>1. op'[p].kind = "idle"
      BY <2>6 DEF Return, Forget, Crash, Idle
    <3> QED
      BY <3>1
  <2>7. CASE Diff(p) \/ Batch(p) \/ Index(p) \/ AddLinks(p) \/ Verify(p)
    <3>0. RecordedAt(p)
      BY <2>7, MigMoves DEF Diff, Planned, Batch, Index, AddLinks, Verify, Recorded
    <3>1. Wrote(p)' => Wrote(p)
      BY <2>7, MigMoves, Ways
    <3> QED
      BY <2>7, <3>0, <3>1, MigMoves
  <2>8. CASE p \in Deployers /\ (ReadPrevious(p) \/ SeedCount(p) \/ SeedRead(p))
    BY <2>8 DEF ReadPrevious, SeedCount, SeedRead, Routed, Paths, OnPath, DeployKinds, AfterSeed
  <2>9. CASE p \in Deployers /\ (Hook(p) \/ Enqueue(p))
    <3>0. RecordedAt(p)
      BY <2>9 DEF Hook, Enqueue, Recorded
    <3>1. Wrote(p)' => Wrote(p)
      BY <2>9, SchemaDeployAssumption DEF Hook, Enqueue, Routed, Paths, OnPath, DeployKinds, Procs
    <3>2. record' = record /\ op' = op
      BY <2>9, SchemaDeployAssumption DEF Hook, Enqueue
    <3> QED
      BY <3>0, <3>1, <3>2
  <2>10. CASE p \in Deployers /\ (DropSchema(p) \/ DeleteHistory(p) \/ DeleteTenant(p))
    BY <2>10 DEF DropSchema, Cleanup, DeleteHistory, DeleteTenant
  <2>11. CASE p \in Deployers /\ FanoutLock(p)
    BY <2>11 DEF FanoutLock, Routed, Paths, OnPath, DeployKinds
  <2>12. CASE Unlock(p)
    <3>a. op' = op /\ pc[p] \in {"unlock", "unlockFailed"}
            /\ pc'[p] = (IF pc[p] = "unlock" THEN "report" ELSE "failed")
      BY <2>12, SchemaDeployAssumption DEF Unlock
    <3>b. Kind(p) = "fanout"
      BY <3>a DEF Routed, Paths, Roles, Role, OnPath, DeployKinds, Procs
    <3>0. RecordedAt(p)
      BY <2>12 DEF Unlock, Forget, Recorded
    <3>1. Wrote(p)' => Wrote(p)
      BY <3>a, <3>b
    <3>2. record' = record /\ op' = op
      BY <2>12, SchemaDeployAssumption DEF Unlock, Forget
    <3> QED
      BY <3>0, <3>1, <3>2
  <2>13. CASE p \in Workers /\ (Read(p) \/ Take(p) \/ WorkerLock(p) \/ Retry(p))
    BY <2>13, SchemaDeployAssumption DEF Read, Take, WorkerLock, Forget, Again, Retry
  <2> HIDE DEF RecordedAt
  <2> QED
    BY <2>1, <2>2, <2>3, <2>4, <2>5, <2>6, <2>7, <2>8, <2>9, <2>10, <2>11, <2>12, <2>13 DEF Acts,
       DeployStep, JobStep, Migrate
<1> QED
  BY <1>w, <1>p, Lone DEF Recorded

\* And what it declares in the database.
LEMMA ProgressStep ==
    TypeOK /\ Routed /\ Planning /\ Solitary /\ Progress /\ [Next]_vars => Progress'
<1> SUFFICES ASSUME TypeOK, Routed, Planning, Solitary, Progress, NEW p \in Procs, Acts(p)
             PROVE Progress'
  BY Somebody DEF Progress, ProgressAt, Migrated, Kind, Mig, Seed, Hist, Excused, Real, vars, db,
     proc, marks
<1>w. ASSUME p \notin Deployers, NEW r \in alone, Kept(r), ProgressAt(r) PROVE ProgressAt(r)'
  <2>1. Migrated(r)' = Migrated(r) /\ op'[r] = op[r]
    BY <1>w DEF Migrated, Kind, Kept
  <2>2. Excused(r) \subseteq Real' \cup Excused(r)'
    BY <1>w, WorkerStep DEF Excused, Kind, Kept
  <2> QED
    BY <1>w, <2>1, <2>2, WorkerStep DEF ProgressAt
<1>p. ASSUME p \in Deployers, p \in alone' PROVE ProgressAt(p)'
  <2> USE <1>p DEF TypeOK, Fault, NoFault, Goto, db, jobs, proc, marks, bounds, ProgressAt,
        Migrated, Kind, Mig, Seed, Hist
  <2>1. CASE p \in Deployers
          /\ (\E k \in DeployKinds, s \in Schemas \cup {{}}, a \in Approvals : Begin(p, k, s, a))
    <3>1. PICK k \in DeployKinds, s \in Schemas \cup {{}}, a \in Approvals : Begin(p, k, s, a)
      BY <2>1
    <3>2. op'[p].kind = k /\ pc'[p] = FirstStep(k)
      BY <3>1 DEF Begin
    <3> QED
      BY <3>2, FirstSteps DEF DeployKinds
  <2>2. CASE p \in Deployers /\ Insert(p)
    <3>1. ~Migrated(p)'
      BY <2>2 DEF Insert, AfterSeed, Routed, Paths, OnPath, DeployKinds
    <3> QED
      BY <3>1
  <2>3. CASE p \in Deployers /\ (AppendLatest(p) \/ AppendInsert(p))
    <3>0. ProgressAt(p)
      BY <2>3, AppendMoves DEF AppendLatest, AppendFails, AppendInsert, Progress
    <3>1. Migrated(p)' => Migrated(p)
      BY <2>3, AppendMoves, Ways DEF Seeding, AfterSeed
    <3>2. Real' = Real /\ Excused(p)' = Excused(p) /\ undone' = undone /\ op' = op
      BY <2>3, AppendMoves DEF Real, Excused
    <3> QED
      BY <3>0, <3>1, <3>2
  <2>4. CASE Diff(p)
    <3>1. CASE pc'[p] \in Mig \cup {AfterFailure(p)}
      <4>1. ~Migrated(p)'
        BY <2>4, <3>1, MigMoves, Ways
      <4> QED
        BY <4>1
    <3>2. CASE op[p].doc \ Real = {}
      <4>1. Real' = Real /\ op'[p].kind = op[p].kind /\ op'[p].doc = op[p].doc
        BY <2>4, SameDeploy DEF Diff, Real
      <4> QED
        BY <3>2, <4>1
    <3>3. ASSUME NEW owned, NEW b, Planned(p, owned, b), op[p].doc \ Real # {}
          PROVE  pc'[p] \in Mig
      BY <3>3, Stages DEF Planned
    <3> QED
      BY <2>4, <3>1, <3>2, <3>3 DEF Diff
  <2>5. CASE Batch(p) \/ Index(p) \/ AddLinks(p)
    <3>1. pc'[p] \in Mig \cup {AfterFailure(p)}
      <4>1. CASE Batch(p)
        BY <4>1, Stages DEF Batch
      <4>2. CASE Index(p)
        BY <4>2, Stages DEF Index, After
      <4>3. CASE AddLinks(p)
        BY <4>3, Stages DEF AddLinks, After
      <4> QED
        BY <2>5, <4>1, <4>2, <4>3
    <3>2. ~Migrated(p)'
      BY <2>5, <3>1, MigMoves, Ways
    <3> QED
      BY <3>2
  <2>6. CASE Verify(p)
    <3>1. tables' = tables /\ op' = op /\ Real' = Real
      BY <2>6 DEF Verify, Real
    <3>2. CASE pc'[p] = AfterFailure(p)
      <4>1. ~Migrated(p)'
        BY <2>6, <3>2, MigMoves, Ways
      <4> QED
        BY <4>1
    <3>3. CASE op[p].doc \ Real = {}
      BY <3>1, <3>3
    <3>4. CASE Kind(p) = "register" /\ gaps' = gaps \cup (op[p].doc \ Real)
      BY <3>1, <3>4 DEF Excused
    <3>5. CASE gaps' = gaps \cup (op[p].doc \ Real) /\ plan'[p].blind
      BY <3>1, <3>5 DEF Excused
    <3>6. CASE Kind(p) = "job"
      BY <2>6, <3>6, MigMoves
    <3> QED
      BY <2>6, <3>2, <3>3, <3>4, <3>5, <3>6 DEF Verify, Partial
  <2>7. CASE Return(p) \/ Crash(p)
    <3>1. op'[p].kind = "idle"
      BY <2>7 DEF Return, Forget, Crash, Idle
    <3> QED
      BY <3>1
  <2>8. CASE p \in Deployers /\ (ReadPrevious(p) \/ SeedCount(p))
    <3>0. ProgressAt(p)
      BY <2>8 DEF ReadPrevious, SeedCount, Progress
    <3>1. UNCHANGED <<tables, gaps, undone, op, plan>>
      BY <2>8, SchemaDeployAssumption DEF ReadPrevious, SeedCount
    <3>2. Migrated(p)' => Migrated(p)
      BY <2>8 DEF ReadPrevious, SeedCount, AfterSeed, Routed, Paths, OnPath, DeployKinds
    <3>3. Real' = Real /\ Excused(p)' = Excused(p)
      BY <3>1 DEF Real, Excused
    <3> QED
      BY <3>0, <3>1, <3>2, <3>3
  <2>9. CASE p \in Deployers /\ (SeedRead(p) \/ Update(p))
    <3>0. ProgressAt(p)
      BY <2>9 DEF SeedRead, Update, Progress
    <3>1. UNCHANGED <<tables, gaps, undone, op, plan>>
      BY <2>9, SchemaDeployAssumption DEF SeedRead, Update
    <3>2. Migrated(p)' => Migrated(p)
      BY <2>9 DEF SeedRead, Update, AfterSeed, Routed, Paths, OnPath, DeployKinds
    <3>3. Real' = Real /\ Excused(p)' = Excused(p)
      BY <3>1 DEF Real, Excused
    <3> QED
      BY <3>0, <3>1, <3>2, <3>3
  <2>10. CASE p \in Deployers /\ (Hook(p) \/ Enqueue(p))
    <3>0. ProgressAt(p)
      BY <2>10 DEF Hook, Enqueue, Progress
    <3>1. UNCHANGED <<tables, gaps, undone, op, plan>>
      BY <2>10, SchemaDeployAssumption DEF Hook, Enqueue
    <3>2. Migrated(p)' => Migrated(p)
      BY <2>10 DEF Hook, Enqueue, AfterSeed, Routed, Paths, OnPath, DeployKinds
    <3>3. Real' = Real /\ Excused(p)' = Excused(p)
      BY <3>1 DEF Real, Excused
    <3> QED
      BY <3>0, <3>1, <3>2, <3>3
  <2>11. CASE p \in Deployers /\ (Restore(p) \/ DropSchema(p) \/ DeleteHistory(p)
           \/ DeleteTenant(p) \/ FanoutLock(p))
    <3>1. ~Migrated(p)'
      BY <2>11 DEF Restore, DropSchema, Cleanup, DeleteHistory, DeleteTenant, FanoutLock, AfterSeed,
         Routed, Paths, OnPath, DeployKinds
    <3> QED
      BY <3>1
  <2>12. CASE Unlock(p)
    <3>a. op' = op /\ pc[p] \in {"unlock", "unlockFailed"}
            /\ pc'[p] = (IF pc[p] = "unlock" THEN "report" ELSE "failed")
      BY <2>12, SchemaDeployAssumption DEF Unlock
    <3>b. Kind(p) = "fanout"
      BY <3>a DEF Routed, Paths, Roles, Role, OnPath, DeployKinds, Procs
    <3>0. ProgressAt(p)
      BY <2>12 DEF Unlock, Forget, Progress
    <3>1. UNCHANGED <<tables, gaps, undone, op, plan>>
      BY <2>12, SchemaDeployAssumption DEF Unlock, Forget
    <3>2. Migrated(p)' => Migrated(p)
      BY <3>a, <3>b
    <3>3. Real' = Real /\ Excused(p)' = Excused(p)
      BY <3>1 DEF Real, Excused
    <3> QED
      BY <3>0, <3>1, <3>2, <3>3
  <2>13. CASE p \in Workers /\ (Read(p) \/ Take(p) \/ WorkerLock(p) \/ Retry(p))
    BY <2>13, SchemaDeployAssumption DEF Read, Take, WorkerLock, Forget, Again, Retry
  <2> HIDE DEF ProgressAt
  <2> QED
    BY <2>1, <2>2, <2>3, <2>4, <2>5, <2>6, <2>7, <2>8, <2>9, <2>10, <2>11, <2>12, <2>13 DEF Acts,
       DeployStep, JobStep, Migrate
<1> QED
  BY <1>w, <1>p, Lone DEF Progress

\* If nothing is disturbed after a deployer's step, nobody else deploys.
LEMMA Undisturbed ==
    ASSUME TypeOK, Routed, Solitary, NEW p \in Deployers, Acts(p), ~disturbed'
    PROVE  \A q \in Deployers \ {p} : Kept(q) /\ Kind(q) = "idle" /\ Kind(q)' = "idle" /\ prev[q] = None
<1>1. \A q \in Deployers \ {p} : Kept(q)
  BY OthersKept DEF Procs
<1>2. \A q \in Deployers : pc[q] = "idle" => Kind(q) = "idle"
  BY DEF Routed, Paths, OnPath, Mig, Seed, Hist, Kind, DeployKinds, TypeOK, Procs
<1>3. \A q \in Deployers \ {p} : pc[q] = "idle"
  <2>1. CASE \E k \in DeployKinds, s \in Schemas \cup {{}}, a \in Approvals : Begin(p, k, s, a)
    BY <2>1 DEF Begin, AtRest, Active
  <2>2. CASE alone' = alone /\ Active(p)
    <3>1. p \in alone
      <4>1. CASE disturbed
        BY <4>1, Settles DEF Procs
      <4>2. CASE ~disturbed
        BY <2>2, <4>2 DEF Solitary
      <4> QED
        BY <4>1, <4>2
    <3> QED
      BY <3>1 DEF Solitary, Active
  <2> QED
    BY <2>1, <2>2, AloneKept DEF Procs
<1>4. \A q \in Deployers \ {p} : Kind(q) = "idle" /\ Kind(q)' = "idle"
  BY <1>1, <1>2, <1>3 DEF Kept, Kind
<1> QED
  BY <1>1, <1>4 DEF Routed, Reads, Procs

\* Then it is quiet if the deployer has not touched the record.
LEMMA QuietOne ==
    ASSUME NEW p \in Deployers,
           \A q \in Deployers \ {p} : Kind(q) = "idle" /\ Kind(q)' = "idle"
    PROVE  (Quiet <=> Untouched(p)) /\ (Quiet' <=> Untouched(p)')
  BY DEF Quiet, Untouched

\* A deploy that was alone and has succeeded leaves nothing that is not recorded.
LEMMA Success ==
    ASSUME TypeOK, Routed, Recorded, Progress, NEW p \in Deployers, Return(p), pc[p] = "report", p \in alone
    PROVE  record' = record /\ (record # None => record = op[p].doc /\ Covered(record)')
<1>1. Kind(p) \in {"put", "register", "fanout", "cli"}
  BY DEF Routed, Paths, OnPath, Mig, Seed, Hist, Kind, DeployKinds, TypeOK, Procs
<1>2. Wrote(p) /\ Migrated(p)
  BY <1>1 DEF Wrote, Migrated
<1>3. record \in {None, op[p].doc} /\ op[p].doc \subseteq Real \cup Excused(p) \cup undone
  BY <1>2 DEF Recorded, RecordedAt, Progress, ProgressAt
<1>4. UNCHANGED <<record, tables, undone>> /\ gaps' = Excused(p)
  BY DEF Return, Excused, db
<1> QED
  BY <1>3, <1>4 DEF Covered, Real

\* The record is backed, and so is the schema a PUT goes back to.
LEMMA BackedStep ==
    TypeOK /\ Routed /\ Planning /\ Solitary /\ Recorded /\ Progress /\ Backed /\ [Next]_vars => Backed'
<1> SUFFICES ASSUME TypeOK, Routed, Planning, Solitary, Recorded, Progress, Backed, NEW p \in Procs,
      Acts(p), ~disturbed'
             PROVE  /\ (Quiet /\ record # None)' => Covered(record)'
                    /\ \A q \in Deployers : prev'[q] # None => Covered(prev[q])'
  BY Somebody DEF Backed, Quiet, Untouched, Covered, Real, Kind, vars, db, proc, marks
<1>1. CASE p \notin Deployers
  <2>1. UNCHANGED record /\ ~disturbed /\ \A x : Covered(x) => Covered(x)'
    BY <1>1, WorkerStep DEF Covered
  <2>2. \A q \in Deployers : Kept(q)
    BY <1>1, OthersKept DEF Procs
  <2>3. Quiet' => Quiet
    BY <2>2 DEF Quiet, Untouched, Kept, Kind
  <2> QED
    BY <2>1, <2>2, <2>3 DEF Backed, Kept
<1>2. CASE p \in Deployers
  <2> USE <1>2
  <2>1. \A q \in Deployers \ {p} : Kept(q) /\ Kind(q) = "idle" /\ Kind(q)' = "idle"
          /\ prev[q] = None
    BY Undisturbed
  <2>2. (Quiet <=> Untouched(p)) /\ (Quiet' <=> Untouched(p)')
    BY <2>1, QuietOne
  <2>3. SUFFICES /\ Untouched(p)' /\ record' # None => Covered(record)'
                 /\ prev'[p] # None => Covered(prev[p])'
    BY <2>1, <2>2 DEF Kept
  <2>4. ~disturbed => /\ Untouched(p) /\ record # None => Covered(record)
                      /\ prev[p] # None => Covered(prev[p])
    BY <2>2 DEF Backed
  <2>5. CASE Return(p) /\ pc[p] = "report" /\ p \in alone
    <3>1. prev'[p] = None
      BY <2>5 DEF Return, Forget, TypeOK
    <3> QED
      BY <2>5, <3>1, Success
  <2>6. CASE ~(Return(p) /\ pc[p] = "report" /\ p \in alone)
    <3>1. ~disturbed
      BY <2>6, Settles
    <3>2. /\ Untouched(p) /\ record # None => Covered(record)
          /\ prev[p] # None => Covered(prev[p])
      BY <2>4, <3>1
    <3> USE DEF TypeOK, Fault, NoFault, Goto, db, jobs, proc, marks, bounds, Untouched, Kind, Mig,
          Seed, Hist, Procs
    <3>11. CASE p \in Deployers
             /\ (\E k \in DeployKinds, s \in Schemas \cup {{}}, a \in Approvals : Begin(p, k, s, a))
      <4>1. UNCHANGED <<record, tables, gaps, undone, prev>>
        BY <3>11 DEF Begin
      <4>2. Untouched(p)
        BY <3>11 DEF Begin, Active, Routed, Paths, OnPath, DeployKinds
      <4>3. \A x : Covered(x)' <=> Covered(x)
        BY <4>1 DEF Covered, Real
      <4> QED
        BY <3>2, <4>1, <4>2, <4>3
    <3>12. CASE p \in Deployers /\ ReadPrevious(p)
      <4>1. UNCHANGED <<record, tables, gaps, undone>> /\ (prev'[p] = record \/ prev' = prev)
        BY <3>12 DEF ReadPrevious
      <4>2. Untouched(p)
        BY <3>12 DEF ReadPrevious, Routed, Paths, OnPath, DeployKinds
      <4>3. \A x : Covered(x)' <=> Covered(x)
        BY <4>1 DEF Covered, Real
      <4> QED
        BY <3>2, <4>1, <4>2, <4>3
    <3>13. CASE p \in Deployers /\ Insert(p)
      <4>1. Kind(p) = "register" /\ prev' = prev /\ prev[p] = None /\ op' = op
        BY <3>13 DEF Insert, Routed, Paths, Reads, OnPath, DeployKinds
      <4>2. pc'[p] = "histLatest" \/ (pc'[p] = "failed" /\ UNCHANGED <<record, tables, gaps, undone>>)
        BY <3>13 DEF Insert
      <4>3. pc'[p] = "failed" => \A x : Covered(x)' <=> Covered(x)
        BY <4>2 DEF Covered, Real
      <4>4. pc[p] = "insert"
        BY <3>13 DEF Insert
      <4> QED
        BY <3>2, <4>1, <4>2, <4>3, <4>4
    <3>14. CASE p \in Deployers /\ (SeedCount(p) \/ SeedRead(p))
      <4>1. UNCHANGED <<record, tables, gaps, undone>>
        BY <3>14 DEF SeedCount, SeedRead
      <4>2. Untouched(p)' => Untouched(p)
        BY <3>14 DEF SeedCount, SeedRead, AfterSeed, Routed, Paths, OnPath, DeployKinds
      <4>3. prev' = prev
        BY <3>14, SchemaDeployAssumption DEF SeedCount, SeedRead
      <4>4. \A x : Covered(x)' <=> Covered(x)
        BY <4>1 DEF Covered, Real
      <4> QED
        BY <3>2, <4>1, <4>2, <4>3, <4>4
    <3>15. CASE p \in Deployers /\ (AppendLatest(p) \/ AppendInsert(p))
      <4>1. UNCHANGED <<record, tables, gaps, undone, prev>>
        BY <3>15, AppendMoves
      <4>2. Untouched(p)' => Untouched(p)
        BY <3>15, AppendUntouched DEF Procs
      <4>3. \A x : Covered(x)' <=> Covered(x)
        BY <4>1 DEF Covered, Real
      <4> QED
        BY <3>2, <4>1, <4>2, <4>3
    <3>16. CASE p \in Deployers /\ Update(p)
      <4>1. UNCHANGED <<tables, gaps, undone, prev, op>>
        BY <3>16 DEF Update
      <4>2. \A x : Covered(x)' <=> Covered(x)
        BY <4>1 DEF Covered, Real
      <4>3. Untouched(p)' => Untouched(p) /\ record' = record
        BY <3>16 DEF Update, Routed, Paths, OnPath, DeployKinds
      <4> QED
        BY <3>2, <4>1, <4>2, <4>3
    <3>17. CASE p \in Deployers /\ Restore(p)
      <4>1. UNCHANGED <<tables, gaps, undone, prev>>
        BY <3>17 DEF Restore
      <4>2. \A x : Covered(x)' <=> Covered(x)
        BY <4>1 DEF Covered, Real
      <4>3. prev[p] # None /\ (record' = None \/ record' = prev[p])
        BY <3>17 DEF Restore
      <4> QED
        BY <3>2, <4>1, <4>2, <4>3
    <3>18. CASE p \in Deployers /\ (Hook(p) \/ Enqueue(p) \/ FanoutLock(p))
      <4>1. UNCHANGED <<record, tables, gaps, undone>>
        BY <3>18 DEF Hook, Enqueue, FanoutLock
      <4>2. Untouched(p)' => Untouched(p)
        BY <3>18 DEF Hook, Enqueue, FanoutLock, AfterSeed, Routed, Paths, OnPath, DeployKinds
      <4>3. prev' = prev
        BY <3>18, SchemaDeployAssumption DEF Hook, Enqueue, FanoutLock
      <4>4. \A x : Covered(x)' <=> Covered(x)
        BY <4>1 DEF Covered, Real
      <4> QED
        BY <3>2, <4>1, <4>2, <4>3, <4>4
    <3>19. CASE p \in Deployers /\ (DropSchema(p) \/ DeleteHistory(p) \/ DeleteTenant(p))
      <4>1. Kind(p) = "register" /\ prev' = prev /\ prev[p] = None /\ op' = op
        BY <3>19 DEF DropSchema, Cleanup, DeleteHistory, DeleteTenant, Routed, Paths, Reads, OnPath,
           DeployKinds
      <4>2. pc'[p] \in {"deleteHistory", "deleteTenant"} \/ record' = None
        BY <3>19 DEF DropSchema, Cleanup, DeleteHistory, DeleteTenant
      <4> QED
        BY <4>1, <4>2
    <3>20. CASE p \in Deployers /\ Return(p)
      <4>0. ~(pc[p] = "report" /\ p \in alone)
        BY <3>20, <2>6
      <4>1. UNCHANGED <<record, tables, gaps, undone>> /\ prev'[p] = None
        BY <3>20, <4>0 DEF Return, Forget
      <4>2. Untouched(p)
        BY <3>20, <4>0, <3>1 DEF Return, Forget, Solitary, Active, Routed, Paths, OnPath,
           DeployKinds
      <4>3. \A x : Covered(x)' <=> Covered(x)
        BY <4>1 DEF Covered, Real
      <4> QED
        BY <3>2, <4>1, <4>2, <4>3
    <3>21. CASE Diff(p) \/ Batch(p) \/ Index(p) \/ AddLinks(p) \/ Verify(p)
      <4>1. UNCHANGED <<record, prev>> /\ \A x : Covered(x) => Covered(x)'
        BY <3>21, MigMoves, Covering DEF Covered
      <4>2. Untouched(p)' => Untouched(p)
        BY <3>21, MigMoves, Ways
      <4> QED
        BY <3>2, <4>1, <4>2
    <3>22. CASE Unlock(p)
      <4>a. op' = op /\ pc[p] \in {"unlock", "unlockFailed"}
              /\ pc'[p] = (IF pc[p] = "unlock" THEN "report" ELSE "failed")
        BY <3>22, SchemaDeployAssumption DEF Unlock
      <4>b. Kind(p) = "fanout"
        BY <4>a DEF Routed, Paths, Roles, Role, OnPath, DeployKinds, Procs
      <4>1. UNCHANGED <<record, tables, gaps, undone>>
        BY <3>22, SchemaDeployAssumption DEF Unlock, Forget
      <4>2. Untouched(p)' => Untouched(p)
        BY <4>a, <4>b
      <4>3. prev' = prev
        BY <3>22, SchemaDeployAssumption DEF Unlock, Forget
      <4>4. \A x : Covered(x)' <=> Covered(x)
        BY <4>1 DEF Covered, Real
      <4> QED
        BY <3>2, <4>1, <4>2, <4>3, <4>4
    <3>23. CASE p \in Workers /\ (Read(p) \/ Take(p) \/ WorkerLock(p) \/ Retry(p))
      BY <3>23, SchemaDeployAssumption DEF Read, Take, WorkerLock, Forget, Again, Retry
    <3>24. CASE Crash(p)
      BY <3>24 DEF Crash, Forget
    <3> HIDE DEF Untouched, TypeOK
    <3> QED
      BY <3>11, <3>12, <3>13, <3>14, <3>15, <3>16, <3>17, <3>18, <3>19, <3>20, <3>21, <3>22, <3>23,
         <3>24 DEF Acts, DeployStep, JobStep, Migrate
  <2> QED
    BY <2>5, <2>6
<1> QED
  BY <1>1, <1>2

\* A failed Append is not forgotten.
LEMMA Unforgotten ==
    ASSUME TypeOK, NEW p \in Procs, Acts(p), unlogged
    PROVE  unlogged'
<1> USE DEF TypeOK, Fault, NoFault, Goto, db, jobs, proc, marks, bounds
<1>1. CASE \E k \in DeployKinds, s \in Schemas \cup {{}}, a \in Approvals : Begin(p, k, s, a)
  BY <1>1 DEF Begin
<1>2. CASE ReadPrevious(p) \/ Insert(p) \/ SeedCount(p) \/ SeedRead(p) \/ AppendLatest(p)
        \/ AppendInsert(p) \/ Update(p) \/ Restore(p) \/ Hook(p) \/ DropSchema(p)
        \/ DeleteHistory(p) \/ DeleteTenant(p) \/ Enqueue(p) \/ Return(p) \/ FanoutLock(p)
  BY <1>2 DEF ReadPrevious, Insert, SeedCount, SeedRead, AppendLatest, AppendFails, AppendInsert,
     Update, Restore, Hook, DropSchema, Cleanup, DeleteHistory, DeleteTenant, Enqueue, Return,
     Forget, FanoutLock
<1>3. CASE Diff(p) \/ Batch(p) \/ Index(p) \/ AddLinks(p) \/ Verify(p) \/ Unlock(p) \/ Read(p) \/ Take(p)
        \/ WorkerLock(p) \/ Retry(p) \/ Crash(p)
  BY <1>3 DEF Diff, Planned, Batch, Index, AddLinks, Verify, Unlock, Forget, Read, Take, WorkerLock,
     Again, Retry, Crash
<1> QED
  BY <1>1, <1>2, <1>3 DEF Acts, DeployStep, JobStep, Migrate

\* An Append that goes on without failing leaves the item as the latest version.
LEMMA AppendedItem ==
    ASSUME TypeOK, Routed, NEW p \in Procs, AppendLatest(p) \/ AppendInsert(p), ~unlogged', pc'[p] = AfterAppend(p)
    PROVE  history' # <<>> /\ LastDoc' = Item(p).doc
<1>1. AfterAppend(p) \notin {"seedLatest", "seedInsert", "histLatest", "histInsert"}
  BY Targets DEF AppendLatest, AppendInsert, Hist, Routed, Paths
<1>2. Item(p).raw \in BOOLEAN
  BY DEF Item
<1>3. CASE Latest = Item(p) /\ history' = history
  <2>1. history # <<>>
    BY <1>2, <1>3, SchemaDeployAssumption DEF Latest
  <2> QED
    BY <1>3, <2>1 DEF Latest, LastDoc
<1>4. CASE history' = Append(history, Item(p))
  <2>1. Len(history') = Len(history) + 1 /\ history'[Len(history) + 1] = Item(p) /\ history' # <<>>
    BY <1>4 DEF TypeOK
  <2> QED
    BY <2>1 DEF LastDoc
<1>5. CASE AppendLatest(p)
  BY <1>1, <1>3, <1>5 DEF AppendLatest, AppendFails, Goto, TypeOK
<1>6. CASE AppendInsert(p)
  BY <1>1, <1>4, <1>6 DEF AppendInsert, AppendFails, Goto, TypeOK
<1> QED
  BY <1>5, <1>6

\* What a deploy that is alone knows of the history.
LEMMA LoggedStep ==
    TypeOK /\ Routed /\ Planning /\ Solitary /\ Logged /\ [Next]_vars => Logged'
<1> SUFFICES ASSUME TypeOK, Routed, Planning, Solitary, Logged, NEW p \in Procs, Acts(p), ~unlogged'
             PROVE (\A r \in alone : LoggedAt(r))'
  BY Somebody DEF Logged, LoggedAt, Logs, LastDoc, Seeding, Kind, vars, db, proc, marks
<1>u. ~unlogged
  BY Unforgotten
<1>w. ASSUME p \notin Deployers, NEW r \in alone, Kept(r), LoggedAt(r) PROVE LoggedAt(r)'
  BY <1>w, WorkerStep DEF LoggedAt, Logs, LastDoc, Seeding, Kind, Kept
<1>p. ASSUME p \in Deployers, p \in alone' PROVE LoggedAt(p)'
  <2> USE <1>p DEF TypeOK, Fault, NoFault, Goto, db, jobs, proc, marks, bounds, Kind, Mig, Seed,
        Hist
  <2>11. CASE p \in Deployers
           /\ (\E k \in DeployKinds, s \in Schemas \cup {{}}, a \in Approvals : Begin(p, k, s, a))
    <3>1. PICK k \in DeployKinds, s \in Schemas \cup {{}}, a \in Approvals : Begin(p, k, s, a)
      BY <2>11
    <3>2. op'[p].kind = k /\ pc'[p] = FirstStep(k) /\ prev' = prev
      BY <3>1 DEF Begin
    <3>3. Kind(p) = "idle"
      BY <3>1 DEF Begin, Active, Routed, Paths, OnPath, DeployKinds
    <3>4. prev[p] = None
      BY <3>3 DEF Routed, Reads
    <3>5. ~Logs(p)' /\ ~Seeding(p)' /\ pc'[p] # "update"
      BY <3>2, FirstSteps DEF DeployKinds, Logs, Seeding
    <3> QED
      BY <3>2, <3>4, <3>5 DEF LoggedAt
  <2>12. CASE p \in Deployers /\ ReadPrevious(p)
    <3>1. pc'[p] = "seedCount" /\ UNCHANGED <<record, op>> /\ (prev'[p] = record \/ prev' = prev)
      BY <2>12 DEF ReadPrevious
    <3>2. prev'[p] \in {None, record}
      BY <2>12, <3>1 DEF ReadPrevious, Routed, Reads
    <3>3. ~Logs(p)'
      BY <3>1 DEF Logs
    <3> QED
      BY <3>1, <3>2, <3>3 DEF LoggedAt, Seeding
  <2>13. CASE p \in Deployers /\ SeedCount(p)
    <3>0. LoggedAt(p)
      BY <2>13, <1>u DEF SeedCount, Logged
    <3>1. pc[p] = "seedCount" /\ UNCHANGED <<record, history, op, prev, seen>>
      BY <2>13 DEF SeedCount
    <3>2. pc'[p] = "seedRead" \/ (pc'[p] \in {"done", "update"} /\ history # <<>>)
      BY <2>13 DEF SeedCount, AfterSeed
    <3>3. ~Logs(p)'
      BY <3>2 DEF Logs
    <3> QED
      BY <3>0, <3>1, <3>2, <3>3 DEF LoggedAt, Seeding
  <2>14. CASE p \in Deployers /\ SeedRead(p)
    <3>0. LoggedAt(p)
      BY <2>14, <1>u DEF SeedRead, Logged
    <3>1. pc[p] = "seedRead" /\ UNCHANGED <<record, history, op, prev>>
      BY <2>14 DEF SeedRead
    <3>2. \/ pc'[p] = "seedLatest" /\ seen'[p] = record
          \/ pc'[p] \in {"done", "update"} /\ record = None
      BY <2>14 DEF SeedRead, AfterSeed
    <3>3. ~Logs(p)'
      BY <3>2 DEF Logs
    <3> QED
      BY <3>0, <3>1, <3>2, <3>3 DEF LoggedAt, Seeding
  <2>15. CASE p \in Deployers /\ (AppendLatest(p) \/ AppendInsert(p))
    <3>0. LoggedAt(p)
      BY <2>15, <1>u, AppendMoves DEF Logged
    <3>1. UNCHANGED <<record, op, prev, seen>>
      BY <2>15, AppendMoves
    <3>2. CASE Seeding(p)
      <4>1. pc'[p] \in {"seedLatest", "seedInsert", "done", "update"}
        BY <2>15, <3>2, AppendMoves DEF AfterSeed
      <4>a. pc'[p] = "update" => pc'[p] = AfterAppend(p)
        BY <2>15, <3>2, AppendMoves DEF AfterAppend
      <4>2. pc'[p] = "update" => history' # <<>>
        BY <2>15, <4>a, AppendedItem
      <4>3. ~Logs(p)'
        BY <4>1 DEF Logs
      <4> QED
        BY <3>0, <3>1, <3>2, <4>1, <4>2, <4>3 DEF LoggedAt, Seeding
    <3>3. CASE ~Seeding(p)
      <4>1. pc'[p] \in Hist \cup {AfterHistory(p)} /\ AfterAppend(p) = AfterHistory(p)
        BY <2>15, <3>3, AppendMoves DEF AfterAppend
      <4>2. pc'[p] \notin Seed \cup {"update"}
        BY <2>15, <3>3, <4>1, AppendMoves, Ways
      <4>3. Logs(p)' => pc'[p] = AfterHistory(p)
        BY <2>15, <3>3, <4>1, AppendMoves DEF Logs
      <4>4. Logs(p)' => history' # <<>> /\ LastDoc' = op[p].doc
        BY <2>15, <3>3, <4>1, <4>3, AppendedItem DEF Item
      <4> QED
        BY <3>1, <4>2, <4>4 DEF LoggedAt, Seeding
    <3> QED
      BY <3>2, <3>3
  <2>16. CASE Diff(p) \/ Batch(p) \/ Index(p) \/ AddLinks(p) \/ Verify(p)
    <3>0. LoggedAt(p)
      BY <2>16, <1>u, MigMoves DEF Logged
    <3>1. ~Seeding(p)' /\ pc'[p] # "update" /\ (Logs(p)' => Logs(p))
      BY <2>16, MigMoves, Ways DEF Seeding, Logs
    <3>2. pc'[p] \in Seed => prev'[p] = None
      <4>1. pc'[p] \in Seed => Kind(p) # "put"
        BY <2>16, MigMoves, Ways
      <4> QED
        BY <2>16, <4>1, MigMoves DEF Routed, Reads
    <3>3. history' = history /\ op'[p].doc = op[p].doc
      BY <2>16, MigMoves
    <3> QED
      BY <3>0, <3>1, <3>2, <3>3 DEF LoggedAt, LastDoc
  <2>17. CASE p \in Deployers /\ (Hook(p) \/ Enqueue(p))
    <3>0. LoggedAt(p)
      BY <2>17, <1>u DEF Hook, Enqueue, Logged
    <3>1. UNCHANGED <<history, op>>
      BY <2>17, SchemaDeployAssumption DEF Hook, Enqueue
    <3>a. Kind(p) \in {"put", "register"} /\ (Kind(p) = "put" <=> pc[p] = "enqueue")
      BY <2>17 DEF Hook, Enqueue, Routed, Paths, OnPath, DeployKinds
    <3>2. pc'[p] \notin Seed \cup {"update"} /\ (Logs(p)' => Logs(p))
      BY <2>17, <3>1, <3>a DEF Hook, Enqueue, Logs
    <3> QED
      BY <3>0, <3>1, <3>2 DEF LoggedAt, Seeding, LastDoc
  <2>18. CASE Unlock(p)
    <3>a. op' = op /\ pc[p] \in {"unlock", "unlockFailed"}
            /\ pc'[p] = (IF pc[p] = "unlock" THEN "report" ELSE "failed")
      BY <2>18, SchemaDeployAssumption DEF Unlock
    <3>b. Kind(p) = "fanout"
      BY <3>a DEF Routed, Paths, Roles, Role, OnPath, DeployKinds, Procs
    <3>0. LoggedAt(p)
      BY <2>18, <1>u DEF Unlock, Forget, Logged
    <3>1. UNCHANGED history
      BY <2>18 DEF Unlock
    <3>2. pc'[p] \notin Seed \cup {"update"} /\ (Logs(p)' => Logs(p))
      BY <3>a, <3>b DEF Logs
    <3> QED
      BY <3>0, <3>1, <3>2, <3>a DEF LoggedAt, Seeding, LastDoc
  <2>19. CASE p \in Deployers /\ (Insert(p) \/ Update(p) \/ Restore(p) \/ DropSchema(p)
           \/ DeleteHistory(p) \/ DeleteTenant(p) \/ FanoutLock(p))
    <3>1. pc'[p] \notin Seed \cup {"update"} /\ ~Logs(p)'
      BY <2>19 DEF Insert, Update, Restore, DropSchema, Cleanup, DeleteHistory, DeleteTenant,
         FanoutLock, Logs, Idle, AfterSeed, Routed, Paths, OnPath, DeployKinds
    <3> QED
      BY <3>1 DEF LoggedAt, Seeding
  <2>20. CASE Return(p) \/ Crash(p)
    <3>1. pc'[p] \notin Seed \cup {"update"} /\ ~Logs(p)'
      BY <2>20 DEF Return, Forget, Crash, Logs, Idle, AfterSeed, Routed, Paths, OnPath, DeployKinds
    <3> QED
      BY <3>1 DEF LoggedAt, Seeding
  <2>21. CASE p \in Workers /\ (Read(p) \/ Take(p) \/ WorkerLock(p) \/ Retry(p))
    BY <2>21, SchemaDeployAssumption DEF Read, Take, WorkerLock, Forget, Again, Retry
  <2> QED
    BY <2>11, <2>12, <2>13, <2>14, <2>15, <2>16, <2>17, <2>18, <2>19, <2>20, <2>21 DEF Acts,
       DeployStep, JobStep, Migrate
<1> QED
  BY <1>u, <1>w, <1>p, Lone DEF Logged

\* The latest version is the schema on record, or the one a PUT goes back to.
LEMMA MirroredStep ==
    TypeOK /\ Routed /\ Planning /\ Solitary /\ Recorded /\ Progress /\ Logged /\ Mirrored /\ [Next]_vars => Mirrored'
<1> SUFFICES ASSUME TypeOK, Routed, Planning, Solitary, Recorded, Progress, Logged, Mirrored,
      NEW p \in Procs, Acts(p),
                    ~disturbed', ~unlogged', record' # None
             PROVE  /\ Quiet' => Mirrors(record)'
                    /\ \A q \in Deployers : Revocable(q)' => Mirrors(prev[q])'
  BY Somebody DEF Mirrored, Quiet, Untouched, Revocable, Mirrors, LastDoc, Kind, vars, db, proc,
     marks
<1>u. ~unlogged
  BY Unforgotten
<1>1. CASE p \notin Deployers
  <2>1. UNCHANGED <<record, history>> /\ ~disturbed
    BY <1>1, WorkerStep
  <2>2. \A q \in Deployers : Kept(q)
    BY <1>1, OthersKept DEF Procs
  <2>3. Quiet' => Quiet
    BY <2>2 DEF Quiet, Untouched, Kept, Kind
  <2>4. \A x : Mirrors(x)' <=> Mirrors(x)
    BY <2>1 DEF Mirrors, LastDoc
  <2>5. \A q \in Deployers : prev'[q] = prev[q] /\ (Revocable(q)' => Revocable(q))
    BY <2>2 DEF Kept, Revocable
  <2> QED
    BY <1>u, <2>1, <2>3, <2>4, <2>5 DEF Mirrored
<1>2. CASE p \in Deployers
  <2> USE <1>2
  <2>1. \A q \in Deployers \ {p} : Kept(q) /\ Kind(q) = "idle" /\ Kind(q)' = "idle"
          /\ prev[q] = None
    BY Undisturbed
  <2>2. (Quiet <=> Untouched(p)) /\ (Quiet' <=> Untouched(p)')
    BY <2>1, QuietOne
  <2>3. SUFFICES /\ Untouched(p)' => Mirrors(record)'
                 /\ Revocable(p)' => Mirrors(prev[p])'
    BY <2>1, <2>2 DEF Kept, Revocable
  <2>4. ~disturbed /\ record # None => /\ Untouched(p) => Mirrors(record)
                                       /\ Revocable(p) => Mirrors(prev[p])
    BY <1>u, <2>2 DEF Mirrored
  <2>5. CASE Return(p) /\ pc[p] = "report" /\ p \in alone
    <3>1. prev'[p] = None /\ UNCHANGED history
      BY <2>5 DEF Return, Forget, TypeOK, db
    <3>2. Logs(p)
      BY <2>5 DEF Logs, Routed, Paths, OnPath, Mig, Seed, Hist, Kind, DeployKinds, TypeOK, Procs
    <3>3. LastDoc = op[p].doc
      BY <1>u, <2>5, <3>2 DEF Logged, LoggedAt
    <3> QED
      BY <2>5, <3>1, <3>3, Success DEF Mirrors, LastDoc, Revocable
  <2>6. CASE ~(Return(p) /\ pc[p] = "report" /\ p \in alone)
    <3>1. ~disturbed
      BY <2>6, Settles
    <3>2. record # None => /\ Untouched(p) => Mirrors(record)
                           /\ Revocable(p) => Mirrors(prev[p])
      BY <2>4, <3>1
    <3>3. Active(p) => p \in alone /\ LoggedAt(p)
      BY <1>u, <3>1 DEF Solitary, Logged
    <3> USE DEF TypeOK, Fault, NoFault, Goto, db, jobs, proc, marks, bounds, Untouched, Kind, Mig,
          Seed, Hist, Procs
    <3>11. CASE p \in Deployers
             /\ (\E k \in DeployKinds, s \in Schemas \cup {{}}, a \in Approvals : Begin(p, k, s, a))
      <4>1. UNCHANGED <<record, history, prev>>
        BY <3>11 DEF Begin
      <4>2. Kind(p) = "idle"
        BY <3>11 DEF Begin, Active, Routed, Paths, OnPath, DeployKinds
      <4>3. prev[p] = None
        BY <4>2 DEF Routed, Reads
      <4>4. \A x : Mirrors(x)' <=> Mirrors(x)
        BY <4>1 DEF Mirrors, LastDoc
      <4> QED
        BY <3>2, <4>1, <4>2, <4>3, <4>4 DEF Revocable
    <3>12. CASE p \in Deployers /\ ReadPrevious(p)
      <4>1. UNCHANGED <<record, history>> /\ (prev'[p] = record \/ prev' = prev)
        BY <3>12 DEF ReadPrevious
      <4>2. Untouched(p) /\ prev[p] = None
        BY <3>12 DEF ReadPrevious, Routed, Paths, Reads, OnPath, DeployKinds
      <4>3. \A x : Mirrors(x)' <=> Mirrors(x)
        BY <4>1 DEF Mirrors, LastDoc
      <4> QED
        BY <3>2, <4>1, <4>2, <4>3 DEF Revocable
    <3>13. CASE p \in Deployers /\ Insert(p)
      <4>1. Kind(p) = "register" /\ UNCHANGED <<prev, op, history>> /\ prev[p] = None
        BY <3>13 DEF Insert, Routed, Paths, Reads, OnPath, DeployKinds
      <4>2. pc'[p] = "histLatest" \/ (pc'[p] = "failed" /\ record' = record)
        BY <3>13 DEF Insert
      <4>3. pc[p] = "insert"
        BY <3>13 DEF Insert
      <4>4. \A x : Mirrors(x)' <=> Mirrors(x)
        BY <4>1 DEF Mirrors, LastDoc
      <4> QED
        BY <3>2, <4>1, <4>2, <4>3, <4>4 DEF Revocable
    <3>14. CASE p \in Deployers /\ (SeedCount(p) \/ SeedRead(p))
      <4>1. UNCHANGED <<record, history, prev>>
        BY <3>14, SchemaDeployAssumption DEF SeedCount, SeedRead
      <4>2. Untouched(p)' => Untouched(p)
        BY <3>14 DEF SeedCount, SeedRead, AfterSeed, Routed, Paths, OnPath, DeployKinds
      <4>3. Revocable(p)' => Revocable(p)
        BY <3>14, <4>1 DEF SeedCount, SeedRead, AfterSeed, Revocable, Routed, Paths, Reads, OnPath,
           DeployKinds
      <4>4. \A x : Mirrors(x)' <=> Mirrors(x)
        BY <4>1 DEF Mirrors, LastDoc
      <4> QED
        BY <3>2, <4>1, <4>2, <4>3, <4>4
    <3>15. CASE p \in Deployers /\ (AppendLatest(p) \/ AppendInsert(p))
      <4>0. p \in alone /\ LoggedAt(p)
        BY <3>15, <3>3, AppendMoves DEF Active
      <4>1. UNCHANGED <<record, op, prev, seen>>
        BY <3>15, AppendMoves
      <4>2. CASE history' = history
        <5>1. \A x : Mirrors(x)' <=> Mirrors(x)
          BY <4>2 DEF Mirrors, LastDoc
        <5>2. Untouched(p)' => Untouched(p)
          BY <3>15, AppendUntouched DEF Procs
        <5>3. Revocable(p)' => Revocable(p)
          <6>1. CASE Seeding(p)
            BY <6>1, <4>1 DEF Revocable, Seeding
          <6>2. CASE ~Seeding(p)
            <7>1. prev[p] # None => Kind(p) = "put"
              BY DEF Routed, Reads
            <7> QED
              BY <3>15, <6>2, <4>1, <7>1, AppendMoves, Ways DEF Revocable
          <6> QED
            BY <6>1, <6>2
        <5> QED
          BY <3>2, <4>1, <5>1, <5>2, <5>3
      <4>3. CASE AppendInsert(p) /\ pc'[p] = AfterAppend(p)
        <5>1. LastDoc' = Item(p).doc
          BY <4>3, AppendedItem
        <5>2. CASE Seeding(p)
          <6>1. LastDoc' = record /\ prev[p] \in {None, record}
            BY <4>0, <5>1, <5>2 DEF LoggedAt, Item, Seeding
          <6> QED
            BY <4>1, <6>1 DEF Mirrors, Revocable
        <5>3. CASE ~Seeding(p)
          <6>1. ~Untouched(p)'
            BY <3>15, <5>3, <4>3, AppendMoves, Ways DEF AfterAppend
          <6>2. prev[p] # None => Kind(p) = "put"
            BY DEF Routed, Reads
          <6>3. ~Revocable(p)'
            BY <3>15, <5>3, <4>1, <4>3, <6>2, AppendMoves, Ways DEF Revocable, AfterAppend
          <6> QED
            BY <6>1, <6>3
        <5> QED
          BY <5>2, <5>3
      <4> QED
        BY <3>15, <4>2, <4>3 DEF AppendLatest, AppendInsert, AppendFails
    <3>16. CASE p \in Deployers /\ Update(p)
      <4>1. UNCHANGED <<history, prev, op>> /\ record # None
        BY <3>16 DEF Update
      <4>2. \A x : Mirrors(x)' <=> Mirrors(x)
        BY <4>1 DEF Mirrors, LastDoc
      <4>3. Untouched(p)' => Untouched(p) /\ record' = record
        BY <3>16 DEF Update, Routed, Paths, OnPath, DeployKinds
      <4>4. Revocable(p)' => Revocable(p)
        BY <3>16, <4>1 DEF Update, Revocable
      <4> QED
        BY <3>2, <4>1, <4>2, <4>3, <4>4
    <3>17. CASE p \in Deployers /\ Restore(p)
      <4>1. UNCHANGED <<history, prev>> /\ pc'[p] = "failed"
        BY <3>17 DEF Restore
      <4>2. \A x : Mirrors(x)' <=> Mirrors(x)
        BY <4>1 DEF Mirrors, LastDoc
      <4>3. record # None /\ record' = prev[p] /\ Revocable(p)
        BY <3>17 DEF Restore, Revocable
      <4> QED
        BY <3>2, <4>1, <4>2, <4>3 DEF Revocable
    <3>18. CASE p \in Deployers /\ (Hook(p) \/ Enqueue(p))
      <4>1. UNCHANGED <<record, history, prev>>
        BY <3>18, SchemaDeployAssumption DEF Hook, Enqueue
      <4>2. Untouched(p)' => Untouched(p)
        BY <3>18 DEF Hook, Enqueue, AfterSeed, Routed, Paths, OnPath, DeployKinds
      <4>3. Revocable(p)' => Revocable(p)
        BY <3>18, <4>1 DEF Hook, Enqueue, AfterSeed, Revocable, Routed, Paths, Reads, OnPath,
           DeployKinds
      <4>4. \A x : Mirrors(x)' <=> Mirrors(x)
        BY <4>1 DEF Mirrors, LastDoc
      <4> QED
        BY <3>2, <4>1, <4>2, <4>3, <4>4
    <3>19. CASE p \in Deployers /\ FanoutLock(p)
      <4>1. UNCHANGED <<record, history, prev>>
        BY <3>19, SchemaDeployAssumption DEF FanoutLock
      <4>2. Untouched(p)' => Untouched(p)
        BY <3>19 DEF FanoutLock, AfterSeed, Routed, Paths, OnPath, DeployKinds
      <4>3. Revocable(p)' => Revocable(p)
        BY <3>19, <4>1 DEF FanoutLock, AfterSeed, Revocable, Routed, Paths, Reads, OnPath,
           DeployKinds
      <4>4. \A x : Mirrors(x)' <=> Mirrors(x)
        BY <4>1 DEF Mirrors, LastDoc
      <4> QED
        BY <3>2, <4>1, <4>2, <4>3, <4>4
    <3>20. CASE p \in Deployers /\ (DropSchema(p) \/ DeleteHistory(p) \/ DeleteTenant(p))
      <4>1. Kind(p) = "register" /\ UNCHANGED <<prev, op>> /\ prev[p] = None
        BY <3>20 DEF DropSchema, Cleanup, DeleteHistory, DeleteTenant, Routed, Paths, Reads, OnPath,
           DeployKinds
      <4>2. pc'[p] \in {"deleteHistory", "deleteTenant"}
        BY <3>20 DEF DropSchema, Cleanup, DeleteHistory, DeleteTenant
      <4> QED
        BY <4>1, <4>2 DEF Revocable
    <3>21. CASE p \in Deployers /\ Return(p)
      <4>0. ~(pc[p] = "report" /\ p \in alone)
        BY <3>21, <2>6
      <4>1. UNCHANGED <<record, history>> /\ prev'[p] = None
        BY <3>21 DEF Return, Forget
      <4>2. Untouched(p)
        BY <3>21, <4>0, <3>1 DEF Return, Solitary, Active, Routed, Paths, OnPath, DeployKinds
      <4>3. \A x : Mirrors(x)' <=> Mirrors(x)
        BY <4>1 DEF Mirrors, LastDoc
      <4> QED
        BY <3>2, <4>1, <4>2, <4>3 DEF Revocable
    <3>22. CASE Diff(p) \/ Batch(p) \/ Index(p) \/ AddLinks(p) \/ Verify(p)
      <4>1. UNCHANGED <<record, history, prev>>
        BY <3>22, MigMoves
      <4>2. \A x : Mirrors(x)' <=> Mirrors(x)
        BY <4>1 DEF Mirrors, LastDoc
      <4>3. Untouched(p)' => Untouched(p)
        BY <3>22, MigMoves, Ways
      <4>4. Revocable(p)' => Revocable(p)
        BY <3>22, <4>1, MigMoves DEF Revocable
      <4> QED
        BY <3>2, <4>1, <4>2, <4>3, <4>4
    <3>23. CASE Unlock(p)
      <4>a. op' = op /\ pc[p] \in {"unlock", "unlockFailed"}
              /\ pc'[p] = (IF pc[p] = "unlock" THEN "report" ELSE "failed")
        BY <3>23, SchemaDeployAssumption DEF Unlock
      <4>b. Kind(p) = "fanout"
        BY <4>a DEF Routed, Paths, Roles, Role, OnPath, DeployKinds, Procs
      <4>1. UNCHANGED <<record, history, prev>>
        BY <3>23, SchemaDeployAssumption DEF Unlock, Forget
      <4>2. Untouched(p)' => Untouched(p)
        BY <4>a, <4>b
      <4>3. Revocable(p)' => Revocable(p)
        BY <4>a, <4>b, <4>1 DEF Revocable
      <4>4. \A x : Mirrors(x)' <=> Mirrors(x)
        BY <4>1 DEF Mirrors, LastDoc
      <4> QED
        BY <3>2, <4>1, <4>2, <4>3, <4>4
    <3>24. CASE p \in Workers /\ (Read(p) \/ Take(p) \/ WorkerLock(p) \/ Retry(p))
      BY <3>24, SchemaDeployAssumption DEF Read, Take, WorkerLock, Forget, Again, Retry
    <3>25. CASE Crash(p)
      BY <3>25 DEF Crash, Forget
    <3> HIDE DEF Untouched, TypeOK
    <3> QED
      BY <3>11, <3>12, <3>13, <3>14, <3>15, <3>16, <3>17, <3>18, <3>19, <3>20, <3>21, <3>22, <3>23,
         <3>24, <3>25 DEF Acts, DeployStep, JobStep, Migrate
  <2> QED
    BY <2>5, <2>6
<1> QED
  BY <1>1, <1>2

-----------------------------------------------------------------------------
(***************************************************************************)
(* The theorems.                                                           *)
(***************************************************************************)

\* The parts above are what TypeOK says.
LEMMA TypeParts ==
    TypeOK <=> /\ DbTyped /\ JobsTyped /\ PcTyped /\ OpTyped /\ ReadTyped /\ SeenTyped /\ LatestTyped
               /\ TriesTyped /\ PlanTyped /\ GapsTyped /\ FlagsTyped /\ CountsTyped
  BY DEF TypeOK, DbTyped, JobsTyped, PcTyped, OpTyped, ReadTyped, SeenTyped, LatestTyped,
     TriesTyped, PlanTyped, GapsTyped, FlagsTyped, CountsTyped

\* A step keeps every process on its path and every variable in its type.
LEMMA TypeStep == TypeOK /\ Routed /\ Handed /\ [Next]_vars => TypeOK' /\ Routed'
<1> SUFFICES ASSUME TypeOK, Routed, Handed, [Next]_vars PROVE TypeOK' /\ Routed'
  OBVIOUS
<1>1. DbTyped /\ JobsTyped /\ OpTyped /\ ReadTyped /\ SeenTyped /\ LatestTyped
      /\ TriesTyped /\ PlanTyped /\ GapsTyped /\ FlagsTyped /\ CountsTyped
  BY TypeParts
<1>2. DbTyped' /\ JobsTyped'
  BY <1>1, DbStep, JobsStep
<1>3. OpTyped' /\ ReadTyped' /\ SeenTyped' /\ LatestTyped'
  BY <1>1, OpStep, ReadStep, SeenStep, LatestStep
<1>4. TriesTyped' /\ PlanTyped' /\ GapsTyped' /\ FlagsTyped' /\ CountsTyped'
  BY <1>1, TriesStep, PlanStep, GapsStep, FlagsStep, CountsStep
<1>5. Paths' /\ Roles' /\ Reads' /\ Seeds'
  BY PathsStep, RolesStep, ReadsStep, SeedsStep DEF Routed
<1>6. PcTyped'
  BY <1>3, <1>5, PcStep
<1>7. TypeOK'
  BY <1>2, <1>3, <1>4, <1>6, TypeParts DEF TypeOK, DbTyped, JobsTyped, PcTyped, OpTyped, ReadTyped,
     SeenTyped, LatestTyped, TriesTyped, PlanTyped, GapsTyped, FlagsTyped, CountsTyped
<1> QED
  BY <1>5, <1>7 DEF Routed

\* The inductive invariant.
IInv ==
    /\ TypeOK /\ Routed /\ Shared /\ NoJobVanishes
    /\ Planning /\ Held /\ Declared /\ Rowed /\ Asked
    /\ Fresh /\ VersionsDiffer
    /\ Solitary /\ Recorded /\ Progress /\ Backed /\ Logged /\ Mirrored

\* It holds at the beginning: nobody deploys, the tables are the record's, and the
\* history is empty or has the record as its only version.
LEMMA InvInit == Init => IInv
<1> SUFFICES ASSUME Init PROVE IInv
  OBVIOUS
<1>a. \A p \in Procs : /\ pc[p] = "idle" /\ op[p] = Idle /\ prev[p] = None /\ seen[p] = None
                       /\ latest[p] = 0 /\ plan[p] = NoPlan /\ Kind(p) = "idle"
  BY DEF Init, Kind, Idle
<1>b. record \in {None} \cup Docs /\ tables \in {None} \cup Docs
  BY SchemaDeployAssumption DEF Init, Docs, Objects
<1>c. Proper(record)
  BY SchemaDeployAssumption DEF Init, Proper
<1>d. history = <<>> \/ (record # None /\ history = <<[doc |-> record, raw |-> FALSE]>>)
  BY DEF Init
<1>e. history \in Seq(Version)
  <2>1. record # None => [doc |-> record, raw |-> FALSE] \in Version
    BY <1>b DEF Version
  <2> HIDE DEF Version
  <2>2. \A v \in Version : <<v>> \in Seq(Version)
    OBVIOUS
  <2>3. <<>> \in Seq(Version)
    OBVIOUS
  <2> QED
    BY <1>d, <2>1, <2>2, <2>3
<1>1. TypeOK
  <2>1. DbTyped
    BY <1>b, <1>e DEF DbTyped
  <2>2. JobsTyped /\ PcTyped
    BY DEF Init, JobsTyped, PcTyped, Location, Procs
  <2>3. OpTyped
    BY SchemaDeployAssumption DEF Init, OpTyped, Idle, Docs
  <2>4. ReadTyped /\ SeenTyped /\ LatestTyped /\ TriesTyped
    BY DEF Init, ReadTyped, SeenTyped, LatestTyped, TriesTyped
  <2>5. PlanTyped /\ GapsTyped
    BY DEF Init, PlanTyped, GapsTyped, NoPlan, Docs
  <2>6. FlagsTyped /\ CountsTyped
    BY DEF Init, FlagsTyped, CountsTyped
  <2> QED
    BY <2>1, <2>2, <2>3, <2>4, <2>5, <2>6, TypeParts
<1>2. Routed
  <2>1. Paths /\ Reads /\ Seeds
    BY <1>a DEF Paths, Reads, Seeds, OnPath, Seeding
  <2>2. Roles
    BY <1>a DEF Roles, Role
  <2> QED
    BY <2>1, <2>2 DEF Routed
<1>3. Shared /\ NoJobVanishes
  <2>1. /\ stream = <<>> /\ open = {} /\ faults = 0 /\ sent = 0
        /\ \A w \in Workers : inbox[w] = <<>> /\ pc[w] = "idle"
    BY DEF Init, Procs
  <2>2. Ids(<<>>) = {} /\ Distinct(<<>>) /\ Len(<<>>) = 0
    BY DEF Ids, Distinct
  <2>3. Shared
    BY <2>1, <2>2, ReplacementAssumption DEF Shared, Single, Numbered, Handed
  <2>4. Attended = {} /\ open \ Attended = {}
    BY <2>1, <2>2 DEF Attended
  <2>5. Cardinality({}) = 0 /\ 0 <= ReadCount * 0
    BY FS_EmptySet, ReplacementAssumption
  <2> QED
    BY <2>1, <2>3, <2>4, <2>5 DEF NoJobVanishes
<1>4. Planning
  BY <1>a DEF Planning, Sound, Idle, NoPlan
<1>5. Held
  BY <1>a DEF Held, Holds, Proper, Idle, Procs
<1>6. Declared
  <2>1. ASSUME NEW v \in DOMAIN history PROVE history[v].doc \cap Foreign = {}
    <3>1. record # None /\ history = <<[doc |-> record, raw |-> FALSE]>>
      BY <1>d, <2>1
    <3>2. history[v].doc = record
      BY <3>1
    <3> QED
      BY <1>c, <3>1, <3>2 DEF Proper
  <2> QED
    BY <1>c, <2>1 DEF Declared
<1>7. Rowed
  BY <1>a DEF Init, Rowed, Registering, Procs
<1>8. Asked
  BY <1>a DEF Asked, NoPlan
<1>9. Fresh
  BY <1>a DEF Fresh, FreshAt, Appending
<1>10. VersionsDiffer
  BY <1>d DEF VersionsDiffer
<1>11. Solitary
  BY <1>a DEF Init, Solitary, Active, Procs
<1>12. alone = {}
  BY DEF Init
<1>13. Recorded /\ Progress /\ Logged
  BY <1>12 DEF Recorded, Progress, Logged
<1>14. Backed
  <2>1. record # None => tables = record \cup Foreign /\ tables # None
    BY <1>b, SchemaDeployAssumption DEF Init, Docs, Objects
  <2>2. record # None => Covered(record)
    BY <2>1 DEF Covered, Real
  <2>3. \A p \in Deployers : prev[p] = None
    BY <1>a DEF Procs
  <2> QED
    BY <2>2, <2>3 DEF Backed
<1>15. Mirrored
  <2>1. Mirrors(record)
    BY <1>d DEF Mirrors, LastDoc
  <2>2. \A p \in Deployers : ~Revocable(p)
    BY <1>a DEF Revocable, Procs
  <2> QED
    BY <2>1, <2>2 DEF Mirrored
<1> QED
  BY <1>1, <1>2, <1>3, <1>4, <1>5, <1>6, <1>7, <1>8, <1>9, <1>10, <1>11, <1>13, <1>14, <1>15
     DEF IInv

\* Every step keeps it.
LEMMA InvStep == IInv /\ [Next]_vars => IInv'
<1> SUFFICES ASSUME IInv, [Next]_vars PROVE IInv'
  OBVIOUS
<1> USE DEF IInv
<1>1. TypeOK' /\ Routed'
  BY TypeStep DEF Shared
<1>2. Shared' /\ NoJobVanishes'
  BY JobsAccounted
<1>3. Planning' /\ Held' /\ Declared'
  BY PlanningStep, HeldStep, DeclaredStep
<1>4. Rowed' /\ Asked'
  BY RowedStep, AskedStep
<1>5. Fresh' /\ VersionsDiffer'
  BY FreshStep
<1>6. Solitary' /\ Recorded' /\ Progress'
  BY SolitaryStep, RecordedStep, ProgressStep
<1>7. Backed' /\ Logged' /\ Mirrored'
  BY BackedStep, LoggedStep, MirroredStep
<1> QED
  BY <1>1, <1>2, <1>3, <1>4, <1>5, <1>6, <1>7

\* When no deploy is under way, none has touched the record.
LEMMA RestIsQuiet == TypeOK /\ Paths /\ AtRest => Quiet
<1> SUFFICES ASSUME TypeOK, Paths, AtRest, NEW p \in Deployers PROVE Untouched(p)
  BY DEF Quiet
<1>1. pc[p] = "idle" /\ OnPath(Kind(p), "idle")
  BY DEF AtRest, Active, Paths, Procs
<1>2. Kind(p) \in {"put", "register", "fanout", "cli", "backfill", "idle", "job"}
  BY DEF TypeOK, Kind, DeployKinds, Procs
<1>3. Kind(p) = "idle"
  BY <1>1, <1>2 DEF OnPath, Mig, Seed, Hist
<1> QED
  BY <1>3 DEF Untouched

\* The invariant gives what the record promises of the database.
LEMMA InvBacked == IInv => RecordIsBacked
  BY RestIsQuiet DEF IInv, Routed, Backed, Covered, RecordIsBacked

\* And what the history promises of the record: a deploy about to overwrite the
\* record is the only one, so the history has a version, and the latest is the record.
LEMMA InvMirrors == IInv => HistoryMirrorsRecord
<1> SUFFICES ASSUME IInv, ~disturbed, ~unlogged, record # None PROVE
             /\ AtRest /\ history # <<>> => history[Len(history)].doc = record
             /\ (\E p \in Deployers : pc[p] = "update") => \E v \in DOMAIN history : history[v].doc = record
  BY DEF HistoryMirrorsRecord
<1>1. AtRest /\ history # <<>> => history[Len(history)].doc = record
  BY RestIsQuiet DEF IInv, Routed, Mirrored, Mirrors, LastDoc
<1>2. ASSUME NEW p \in Deployers, pc[p] = "update"
      PROVE \E v \in DOMAIN history : history[v].doc = record
  <2>1. Active(p) /\ p \in alone /\ \A q \in Deployers : Active(q) => q = p
    BY <1>2 DEF IInv, Solitary, Active
  <2>2. history # <<>>
    BY <1>2, <2>1 DEF IInv, Logged, LoggedAt
  <2>3. Untouched(p)
    <3>1. OnPath(Kind(p), "update")
      BY <1>2 DEF IInv, Routed, Paths, Procs
    <3>2. Kind(p) \in {"put", "register", "fanout", "cli", "backfill", "idle", "job"}
      BY DEF IInv, TypeOK, Kind, DeployKinds, Procs
    <3>3. Kind(p) \in {"put", "fanout", "cli"}
      BY <3>1, <3>2 DEF OnPath, Mig, Seed, Hist
    <3> QED
      BY <1>2, <3>3 DEF Untouched
  <2>4. ASSUME NEW q \in Deployers, q # p PROVE Untouched(q)
    <3>1. pc[q] = "idle"
      BY <2>1, <2>4 DEF Active
    <3>2. OnPath(Kind(q), "idle")
      BY <3>1 DEF IInv, Routed, Paths, Procs
    <3>3. Kind(q) \in {"put", "register", "fanout", "cli", "backfill", "idle", "job"}
      BY DEF IInv, TypeOK, Kind, DeployKinds, Procs
    <3>4. Kind(q) = "idle"
      BY <3>2, <3>3 DEF OnPath, Mig, Seed, Hist
    <3> QED
      BY <3>4 DEF Untouched
  <2>5. LastDoc = record
    BY <2>2, <2>3, <2>4 DEF IInv, Mirrored, Mirrors, Quiet
  <2>6. Len(history) \in DOMAIN history
    BY <2>2 DEF IInv, TypeOK
  <2> QED
    BY <2>5, <2>6 DEF LastDoc
<1> QED
  BY <1>1, <1>2

\* The invariant holds throughout.
THEOREM Invariance == Spec => []IInv
  BY InvInit, InvStep, PTL DEF Spec

\* Every variable has its type, whatever the number of deploys.
THEOREM TypeCorrect == Spec => []TypeOK
<1>1. IInv => TypeOK
  BY DEF IInv
<1> QED
  BY <1>1, Invariance, PTL

\* ENG-13: the schema on record is backed by the database when no deploy is under way
\* and none overlapped another or was cut off since the last success: what it declares
\* is there, or a failed deploy took it away, or a job has put something older in its
\* place.
THEOREM RecordBacked == Spec => []RecordIsBacked
  BY InvBacked, Invariance, PTL

\* The latest version is the record's schema, and the schema a deploy is about to
\* overwrite is in the history.
THEOREM HistoryMirrors == Spec => []HistoryMirrorsRecord
  BY InvMirrors, Invariance, PTL

\* However many deploys race for a version number, no version repeats the one before.
THEOREM VersionsAllDiffer == Spec => []VersionsDiffer
<1>1. IInv => VersionsDiffer
  BY DEF IInv
<1> QED
  BY <1>1, Invariance, PTL

\* A job is waiting, with one worker, or settled; one fault loses no more of them than a
\* worker reads at once.
THEOREM JobsAccountedFor == Spec => []NoJobVanishes
<1>1. IInv => NoJobVanishes
  BY DEF IInv
<1> QED
  BY <1>1, Invariance, PTL

\* ENG-9: a step drops a column of the consumer only if some migration could not read
\* who owns the columns.
THEOREM ConsumerColumnsKept == Spec => ForeignColumnsKept
<1>1. IInv /\ [Next]_vars =>
        [(tables # None /\ tables' # None /\ ~\E p \in Procs : plan[p].blind)
            => Foreign \cap tables \subseteq tables']_vars
  BY ForeignStep DEF IInv
<1> QED
  BY <1>1, Invariance, PTL DEF Spec, ForeignColumnsKept
=============================================================================
