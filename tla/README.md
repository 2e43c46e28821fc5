# A formal model of Appximo's stateful core

This directory models the parts of Appximo whose correctness rests on what
happens *between* statements: the transactional outbox and its workers, the
cron scheduler, the per-row reminders, the response cache, the deploy of a
tenant's schema with its migration and history, the planner of migrations, the
fleet's process supervisor and the file store.  The modules are
TLA+; TLC checks them on small instances, and TLAPS proves the main safety
properties for every value of the constants.  `PROJECT.json` lists the
components, runs, mutants, hazards and theorems and maps every definition to
the source lines it stands for.

Paths below are relative to `src/`.

- [1. Inventory](#1-inventory)
- [2. Plan](#2-plan)
- [3. The modules and the code](#3-the-modules-and-the-code)
- [4. The runs](#4-the-runs)
- [5. Fairness](#5-fairness)
- [6. The proofs](#6-the-proofs)
- [7. Claims that do not hold](#7-claims-that-do-not-hold)
- [8. What is not modelled](#8-what-is-not-modelled)

## 1. Inventory

Appximo is a multi-tenant backend engine.  A tenant deploys a JSON schema; the
engine migrates the tenant's PostgreSQL schema, compiles a REST and GraphQL
API from it and serves it.  Beside the engine run one or more
`appximo-worker` processes, which execute everything that is asynchronous.
All coordination goes through PostgreSQL: rows, row locks, advisory locks and
`LISTEN`/`NOTIFY`.

```
  API request ──tx──► business rows + public.outbox ──NOTIFY──► appximo-worker
      │                                                            │ Router
      │ Invalidate                                                 ├─ email, xlsx, summary
      ▼                                                            └─ event workflows
  response cache ◄── pg_notify('schema_updated') ── control plane      ▲
                                                        │              │ enqueue
  workflow_cron ◄── tick ── cron scheduler (leader) ── Source ── json_schema
  workflow_reminders ◄── sweep ──┘
```

| Component | State | Operations | Interacts by | Correct means |
|---|---|---|---|---|
| Outbox (`pkg/outbox/outbox.go`) | `public.outbox`: state, attempts | `Enqueue` in the caller's transaction, commit, rollback | row + NOTIFY | an event exists exactly if its transaction committed |
| Outbox worker (`pkg/worker/worker.go`, `pkg/consumers/router.go`) | open transaction with row locks, wake channel, connection | `Run`, `runListener`, `drainAll`, `Drain`, `Process` | SKIP LOCKED, NOTIFY, polling | at least once, disjoint batches, bounded attempts, nothing starves |
| Cron scheduler (`pkg/workflows/scheduler.go`, `store.go`, `source.go`) | `workflow_cron`, `workflow_runs`, the advisory lock, the in-process `inflight` map | `Run`, `lead`, `tick`, `UpsertScheduleSpec`, `PruneSchedules`, `Advance`, `StartRun`, `FinishRun` | advisory lock, two pools | missed occurrences collapse into one firing, runs do not overlap, a due schedule is handled |
| Reminders (`pkg/workflows/reminders.go`) | `workflow_reminders`, keyset cursor | `Sweep`, `sweepOne`, `fireIfDue`, `RunClaimed`, `PruneReminders` | runs inside the scheduler's tick; enqueues to the outbox | once per row and instant, within its grace, none missed |
| Response cache (`pkg/cache/response_cache.go`, `pkg/auth/claims_cache.go`) | entries, epochs, flights, role gate, validated tokens | `Middleware`, `refresh`, `get`, `set`, `Invalidate`, purge | write handlers call `Invalidate` | no stale body is kept; waiters are answered |
| Control plane (`pkg/controlplane`, `pkg/schemahistory`, `cmd/appximo/cmd_migrate.go`) | `tenants.json_schema`, `schema_history` | PUT, rollback, registration, `migrate`, backfill, `restoreSchema`, `EnsureSeeded`, `Append` | `schema_updated`, Redis stream | record, tables and history agree when deploys are over |
| Migration worker and fan-out (`pkg/migration/worker.go`, `orchestrator.go`) | Redis consumer group, per-tenant advisory lock | `process`, `RunFanout`, `applyToTenant` | stream, lock | every accepted migration is applied or reported |
| Migration planning (`pkg/migration/runner.go`, `external.go`, `pkg/schemadiff`) | the tenant's tables, columns, foreign keys, indexes | `resolveRenames`, `Diff`, `partitionByPolicyApproved`, `splitForeignKeyOps`, `OrderPlan`, `Apply`, `applyForeignKeys` | DDL under PostgreSQL's dependency rules | plans execute and converge; data goes only by consent; renames move data |
| SSE hub (`pkg/events/hub.go`) | subscribers and their buffers | `Subscribe`, `Publish` | channels | no gap without a disconnect |
| Fleet supervisor (`pkg/fleet/supervisor.go`, `cmd/appximo/cmd_fleet.go`) | one process record per app | `spawn`, `onExit`, `StopApp`, `StartApp`, `RestartApp`, `Shutdown` | goroutines, signals | one process per app; a stopped app stays stopped; a crashed one comes back |
| File store (`pkg/files`) | metadata rows, content-addressed blobs, temporary files | `Put`, `Delete`, the multipart upload | rows and a blob store without a common transaction | a row's blob exists; nothing is left over |
| Question spend (`pkg/askspend`) | day rows, minute windows | `Allow`, `Record` | mutex, table | the cap holds |
| Self-restart and shutdown (`restart.go`, `pkg/shutdown`) | schema file, backup, marker | persist, recover, drain | file system | the next boot finds a loadable schema |
| Admission, breaker, limiter (`pkg/resilience`) | counters | admit, refuse | atomics | the cap holds and is not wasted |
| The rest | little or none | parsing, validation, SQL and document generation, UI, CLI | | listed in `PROJECT.json` with the reason |

What is hard here: two workers and a leader change in the middle of a tick
(the lock lives on one connection, the statements run on others); a crash
between the statements of one logical step; a commit whose answer is lost;
notifications that are lost; state read before a call and used after it (the
page of a sweep, the epoch of a refresh, the topics of a claim, the schema a
deploy will restore, the blob an upload will share); two stores without a
common transaction (record, tables, history and stream; rows and blobs); the
order of dependent DDL; bounds (page ceiling, retention, full buckets,
attempts).  The hazard list in
`PROJECT.json` places each of them at its line and names the properties that
watch it.

## 2. Plan

In order of importance; 1-9 are done.

1. `EventQueue`, `Outbox`, `OutboxProofs`: the queue's promise, the workers
   that implement it, the invariants and the refinement.
2. `CronScheduler`, `CronSchedulerProofs`: leadership and firing.
3. `Reminders`, `RemindersProofs`: the sweep and its exactly-once ledger.
4. `ResponseCache`, `ResponseCacheProofs`: epochs and shared refreshes.
5. `SchemaDeploy`: record, tables and history under concurrent deploys of
   every kind, composed with the migration worker, its stream and the fan-out,
   since they share the lock, the tables and the order of schemas; with
   `SchemaDeployProofs`.
6. `MigrationPlan`, `MigrationPlanProofs`: what one deploy plans and executes.
7. `FleetSupervisor`, `FleetSupervisorProofs`: spawn, exit, back-off, stop, start and shutdown.
8. `FileStore`, `FileStoreProofs`: uploads, deletions and the blobs they share.
9. Proofs about 5-8.  Done: every invariant and action property of the runs
   is a theorem; liveness stays with TLC (section 6).
10. `EventWorkflows` on top of `Outbox` (several workflows per row, a stale
    Source, partial failure and re-run), the tenant schema cache with its
    invalidator, `SpendLedger` (check, call, record), `BootSchema` (backup,
    marker, replacement, recovery), `EventHub` (slow subscribers), `Admission`.

## 3. The modules and the code

Every statement on the database, every lock and every hand-over between
goroutines is a step of its own.  Data is reduced to what the properties tell
apart: a message is its row, a cron expression is the instants it yields, a
response body is the version of the data it was read from, a schema is the set
of database objects it declares, a file is its content.  All bounds of the
models (`MaxFaults`, `MaxTime`, `MaxVersion`, `MaxReloads`, `MaxDeploys`,
`MaxCrashes`, `MaxCommands`) are constants with that name.

**Outbox** (`pkg/outbox/outbox.go`, `pkg/worker/worker.go`,
`pkg/consumers/router.go`).  `row` and `attempts` are the committed table;
`stage` and `result` are the open transaction of a worker (which rows it has
locked, what `Process` answered, what has been recorded).  `Enqueue`,
`CommitTx`, `RollbackTx` are the business transaction, `Connect`, `Hear`,
`Tick`, `Wake` the listener and its one-slot wake channel, `Claim`, `Process`,
`Record`, `Commit` the steps of `Drain`.  `Drop` is any database error,
`CommitUnacked` a commit whose answer is lost, `Cancel` and `Stop` the signal,
`Refresh` a change of the topics the Router owns, `DeleteTenant` the deletion
in `pkg/platformadmin/tenants.go`.  A processor may succeed, fail or discard.
`deliveries` and `lost` are history variables.  **EventQueue** is the abstract
specification: an event on its own, without workers, locks or transactions.
The mapping hides rows of uncommitted transactions and keeps of the
deliveries only whether there was one.

**CronScheduler** (`pkg/workflows/scheduler.go`, `store.go`, `source.go`,
`executor.go`, `cmd/appximo-worker/main.go`).  `lock` is the session-level
advisory lock; `pc`, `now`, `entries`, `todo`, `due` are the local variables
of `tick`; `inflight` is the process's map; `runs` is the sequence of firings
with what `workflow_runs` shows of each.  `Acquire` and `Ping` are `Run` and
`lead`; `Upsert`, `Prune`, `ReadDue`, `Fire`, `RecordSkip`, `EndTick` are the
statements of `tick` in their order, with an error variant each (a statement
that answers an error may have been executed); `StartRun` and `FinishRun` are
the goroutine of a run.  `Crash`, `LoseSession` (the lock's connection breaks
and the process lives on), `Cancel`, `Exit` are the faults.  `FaultKinds`
selects which of them an instance has.

**Reminders** (`pkg/workflows/reminders.go`).  One time workflow of one
tenant; several sweepers, since a sweep can outlive its leadership.  `List`,
`Consider`, `EndPage`, `StopListing` are `sweepOne` page by page, `Claim`,
`RunFails`, `Commit` the transaction of `RunClaimed` (an `INSERT ... ON
CONFLICT` waits for an open transaction with the same key), `Prune` the
ledger's retention.  `Write` is a client that creates, moves, cancels or
deletes a row meanwhile.  `SweepBound` is how long a sweep may take;
in `Punctual` instances no grace passes without a sweep that begins, meets no
error and ends.  `clean` and `swept` are the history variables this is said
with.

**ResponseCache** (`pkg/cache/response_cache.go`, `pkg/auth/claims_cache.go`
and the write handlers in `pkg/codegen` and `route.go`).  `Hit`, `Miss`,
`Alone` are the three ways through `Middleware`; `Lead`, `Join`, `Capture`,
`Respond`, `Store`, `Land` the refresh under singleflight; `Write` commits and
`Invalidate` bumps the epoch and drops the tenant's entries, two steps with
everything else in between.  `WriteKinds` tells write paths that invalidate
from those that do not.  `Expire`, `Purge`, `SetRoleCacheGate`, `Forget`,
`Reload` are the TTL, the purge, the hot swap, the claims cache's expiry and
`schema_updated`.  `floor` records, for a GET, the last write that had been
answered when it arrived.

**SchemaDeploy** (`pkg/controlplane/service.go`, `tenant_service.go`,
`pkg/schemahistory/schemahistory.go`, `cmd/appximo/cmd_migrate.go`,
`pkg/migration/worker.go`, `orchestrator.go`, `runner.go`).  One tenant;
`record`, `tables`, `history` are the database, `lock` the advisory lock,
`stream` the Redis stream.  `Begin` starts a deploy of one of five kinds: a PUT
(a rollback is a PUT of an old version), a registration, the fan-out, the
command line, the backfill at boot.  `ReadPrevious`, `Insert`, `SeedCount`,
`SeedRead`, `AppendLatest`, `AppendInsert`, `Update`, `Restore`, `Hook`,
`DropSchema`, `DeleteHistory`, `DeleteTenant`, `Enqueue`, `Return` are the
statements of the handlers in their order; which one follows is `FirstStep`,
`AfterSeed`, `AfterApply`, `AfterFailure`, `AfterHistory`.  `Diff`, `Batch`,
`Index`, `AddLinks`, `Verify` are `applyMigration`, shared by all of them: one
transaction, then every index and every link on its own.  An object is one
definition of a column, an index or a relation.  `Shapes` gives the other
definitions of the same column or relation: an ALTER, or a foreign key that is
dropped and added in one transaction, puts one in the place of another.  `From`
is `renamed_from`, and `Parts` are the indexes and links that go with a dropped
column.  So a migration takes objects away even without an approved drop, and
one that applies an older document takes newer definitions away.  `FanoutLock`,
`Read`, `Take`, `WorkerLock`, `Retry`, `Unlock` are the fan-out and the worker.
`Read` is one XREADGROUP and moves up to `ReadCount` jobs (ten in the code) into
the worker's `inbox`, from which `Take` and the steps behind it process them one
by one; a crash forgets the whole inbox, and pending messages are never read
again.  A statement may fail, a CREATE INDEX that fails may leave an INVALID
index, a Redis command may be lost, the owned objects may be unreadable, the
verification may not run, and a process may die (`FaultKinds`).  `gaps`,
`undone`, `alone`, `disturbed`, `unlogged`, `wiped` are history variables: they
say which of the code's own exceptions apply.  `gaps` are the objects a deploy
has taken away or skipped without recording it, `undone` those in whose place a
job has put another, until somebody puts them back.  `wiped` is the one the proof asked for: the
clean-up of a failed registration deletes the history, and another deploy that
is between the SELECT and the INSERT of its Append then inserts a number that
nobody contests, so that a third deploy can put the same document next to it.
It takes three deploys, one more than the run has.

**MigrationPlan** (`pkg/migration/runner.go`, `external.go`, `desired.go`,
`pkg/schemadiff`).  One deploy at a time of a document, with a set of approved
drops, to live tables that may hold a consumer's own column and table.
`TableMoves`, `ColumnMoves`, `Resolved`, `Blocked` are `resolveRenames`;
`Diff` the comparison; `Partition` the ownership split and the approval gate;
`SplitForeignKeys` the pairing of replaced keys; `OrderPlan` the phases and
the topological order of tables, cycles included: `Reaches` is the
reachability that `tarjanSCC` computes, over the links between dropped tables,
and `Before` the order of its components.  `Turn` takes the next operation of
the plan; `RenameTable` to `AddForeignKey` are the statements, each with the
condition under which PostgreSQL refuses it.  Every column carries the
identity of the values in it, which is how loss and movement of data are
seen.  A foreign key goes to a column of the other table, its key or, when the
field declares `references`, any unique one (`rc`); PostgreSQL refuses to drop a
column that another one references.  `resolveRenames` rewrites the columns of a
table's own keys and the tables that keys reference, but not the referenced
columns (`rewriteColumnRefs`): a relation to a renamed column is a difference and
is dropped and added again under its new name.  `Commit` is the end of the
transactional batch, `Done` the report.  `Fault` may leave the index it failed
to build behind, INVALID, which the introspection does not tell from a valid one.
A plan is refused (`Ambiguous`) when two declared names claim one source, or
when the source is a table of the engine: `resolveRenames` sees all live
tables, `Diff` only the managed ones, and stops at a rename whose source it
does not know.  `PlanAssumption` is what `pkg/schema/validator.go` has made
sure of before a document can be deployed: an old name is not declared as well,
"id" is neither declared nor renamed, a table has one column per name, a
field has one relation (`desired.go:207`, `:230`), and relations are between
what is declared, keys or other columns.  It also says what `Foreign` and
`ForeignTable` stand for, names that no document uses.

**FleetSupervisor** (`pkg/fleet/supervisor.go`, `cmd/appximo/cmd_fleet.go`).
One app, since apps share nothing.  A slot is a process with the goroutine
that waits for it: `Wait`, `OnExit`, `Backoff`, `Respawn`.  Requests of the
status API run concurrently: `StopMark`, `Term`, `Poll` are `StopApp`,
`StartMark` and `StartSpawn` are `StartApp`, `RestartApp` is both; `Cancel` is
the signal and `Shutdown`.  `Delay` is the shift in an integer of `Width`
bits.  The engine itself is external: it may crash, and drains when asked.

**FileStore** (`pkg/files/store.go`, `meta.go`, `backend_local.go`,
`http.go`).  `Stage`, `StatBlob`, `PutBlob`, `Insert` are `Put`; `Answer`,
`SecondFile`, `Malformed` the rest of the multipart body; `DeleteRow`,
`CheckShared`, `DeleteCommit`, `DeleteBlob` are `del` and `Delete`, used by
the delete handler and to take a first file back when a second one follows.
`overlapped` and `leaked` are history variables for the two races the code has
(section 7): the properties say that nothing else goes wrong.

The `MC...` modules give TLC its instances.  Workers, sweepers, requests,
writers, deployers, clients and contents are interchangeable and are declared
symmetric in the runs that check no liveness.

## 4. The runs

| Run | Instance | Shows |
|---|---|---|
| `outbox_faults` | 2 workers, 2 rows, batches of 2, 2 attempts, 1 fault; 0.7 M states | batches are disjoint; `sent` means delivered; each extra delivery is paid for by a rollback; attempts are exact; the whole implements `EventQueue` |
| `outbox_live` | 1 worker, 3 rows (the middle one of a foreign topic), batches of 1, 2 faults; 0.26 M states | every owned row is settled although notifications get lost, transactions roll back and topics come and go; the foreign row is never touched |
| `cron_crash` | 2 workers, 1 schedule, 2 specs, 3 instants, 2 crashes, errors or deploys; 0.5 M states | missed occurrences collapse into one firing and none is fired twice; runs do not overlap |
| `cron_live` | 2 workers, 1 schedule, 1 crash, lost session, signal or error; 0.15 M states | a due schedule is handled by some leader; one process never overlaps its own runs, even across lost sessions |
| `reminders_race` | 2 sweepers, 1 row that moves between two instants, 2 crashes, errors or writes; 1.5 M states | one outbox row per (row, instant), never early, late by at most grace and one sweep |
| `reminders_punctual` | 3 rows in 2 pages of 2, 2 crashes or errors; 0.5 M states | if no grace passes without a clean sweep, no row is missed |
| `cache_race` | 3 GETs, 2 invalidating writers, 1 entry, 2 writes; 1.0 M states | no stale body stays stored; an answer that was not shared has every earlier write; nobody waits for a backend call that is over |
| `cache_live` | 2 GETs, 1 writer that may or may not invalidate, 1 write, 1 reload; 0.1 M states | every GET is answered; a stale entry is gone by its TTL |
| `deploy` | 2 deployers, 1 migration worker that reads 2 jobs at once, 2 schemas between which a column is renamed, one is retyped and a foreign key is re-pointed, 2 deploys, 1 fault; 1.8 M states | when deploys are over, the tables have what the record declares, but for what a failed deploy or an older job has put out of place, and the latest version is the record; what a deploy overwrites is in the history; versions differ; no job vanishes; no consumer column is dropped |
| `plan` | 9 documents, 3 deploys with any approvals, 1 fault; 0.8 M states | plans execute in their order, but for the references and names section 7 lists; a deploy that reports success left nothing to do; data is lost by consent only; renames move data; a changed relation stays guarded |
| `fleet` | 1 app, 3 slots, 2 callers, 2 crashes, 2 commands, 1 failed start, shutdown at any point; 0.7 M states | the supervisor knows every process it has; a stopped app stays down; shutdown leaves nothing; a crashed app comes back |
| `files` | 3 clients, 3 ids, 2 contents, 1 fault; 1.6 M states | every row has its blob, every blob a row, and no temporary file and no unanswered row is left, but for the named overlaps |

Why the bounds are enough to be interesting.  Two of each actor are what the
races need: a batch, an epoch, a claim or a lock is contended by two, and a
third GET is there so that one can wait while two others lead and invalidate.
Two rows with batches of two let one row of a batch fail while the other
succeeds; batches of one make `drainAll` loop.  Two attempts are a retry and a
park.  Three instants contain a missed occurrence, its catch-up and the next
one.  Two faults allow a fault during the recovery from another.  Two deploys
are a race of any two kinds, a deploy after a failed one, and a deploy beside
the worker that applies an earlier one; two jobs read at once are the least that
tells a batch from a job.  The documents of `plan` are the
shapes that make an order hard: a relation, a cycle, a re-pointed relation, a
relation to a column that is not the key, the same with that column renamed, a
renamed table with a renamed column, a rename that two tables claim, one that
claims a table of the engine; three
deploys let a third one meet what the second left.  Three slots are the
process, its pending restart and one that a start adds.  Three clients are an
upload and two deletes of one content; three ids let two rows share it while a
third comes.  The theorems remove these bounds for the properties they cover.

Every property has a mutant in `PROJECT.json`, a plausible slip in the code
that makes TLC find the property violated: a claim without SKIP LOCKED, a
`<` for a `<=`, an epoch that is not compared, a counter off by one.

## 5. Fairness

Safety runs assume none.  The liveness runs assume weak fairness of what the
code keeps trying to do:

- *Outbox*: the process is restarted (`Restart=always`,
  `scripts/deploy-app.sh:290`), `Run` reconnects for ever, the poll ticker
  fires, and a drain that began goes on.  Nothing is assumed of `Hear`: a
  notification may never arrive.  A row must eventually stay among the topics
  of some worker; otherwise it is rightly left alone.
- *Cron*: restart, `Source.Run`'s refresh, the worker's own steps (one weak
  fairness condition for the whole of them, as one goroutine executes them)
  and the exit of a cancelled process.  Nothing is assumed of the runs: a run
  may hang for ever.
- *Cache*: a handler that was entered runs on, a write that committed gets to
  its `Invalidate`, and time passes (`Expire`).  Nothing is assumed of new
  requests or of the purge.

- *Fleet*: goroutines run and timers fire: the monitor of a process and a
  request that was accepted go on.  Nothing is assumed of the engine: it need
  not end its drain, which is why `Poll` kills at a deadline.

Faults, deploys, signals and clients are never fair.

## 6. The proofs

The proof modules extend the component's module.  Assumptions on constants
are the named `ASSUME`s of that module: types, `None` outside the values it
stands beside, `NextAfter(s, t) > t` (what robfig/cron's `Next` returns).

**OutboxProofs**, for any rows, topics, tenants, workers, batch size and
number of faults.  `DisjointBatches` alone is not inductive: that a second
worker cannot take a row needs that locks are only held inside `Drain`
(`LocksOnlyInBatch`) and only on pending rows (`LockedRowsPending`).
`RedeliveryNeedsRollback` needs to know where the one delivery that no
rollback took back is: in a settled row or in an open transaction
(`DeliveriesAccount`, with `ResultsMatchStages` and `OneHolder`).  Together
with `AttemptsAccount`, `SuccessWasDelivered` and `ForeignAccount` they make
`IInv`.  From it follow `BatchesDisjoint`, `AtLeastOnce`,
`RedeliveryIsPaid`, `AttemptsStayBounded`, `ForeignRowsSafe`; lemma `RowMoves` says what a step
may do to one row, and gives the action property `SettledIsFinal` and the
`Refinement` to `EventQueue`.

**CronSchedulerProofs**.  `TypeCorrect` needs that whatever `NextAfter` is
applied to has a spec (`HasSpec`).  `OwnOverlap` holds under every fault: a
process that executes a run of a skipping schedule has its mark
(`MarkedWhileExecuting`).  `CatchUp` assumes `"session" \notin FaultKinds`:
then whoever is in a tick holds the lock (`OneLeader`), what it read as due is
still in the table (`DueIsCurrent`), and next_run is ahead of every firing
(`NextIsAhead`, `FiredByNow`).  `Overlap` excludes signals too, since a
process that drains has given the lock up while its runs go on
(`ExecutorLeads`).  Both assumptions are necessary: section 7.

**RemindersProofs**.  `InTime`: the instant a sweep goes by is recent
(`SweepIsRecent`) and its candidate was due then (`CandidateIsDue`).
`ExactlyOnce` assumes `Grace + SweepBound <= Retention`: a claim the prune has
forgotten can no longer be a candidate (`Forgotten`), and two transactions
never hold the same claim (`OpenClaims`).
`NoneMissed` assumes `Punctual`, no writes, and that the rows fit the pages of
a sweep (`MaxPages * PageSize >= Cardinality(Rows)`); without the last it is
false (section 7).  `Underway` follows a sweep page by page: a row that was due when
it began has fired, is on the page at hand, is the candidate, or has an id above
the cursor, as long as the sweep met no error (`PassedFired`); every page but
the last is full (`PagesFull`), so a sweep that stops at the ceiling has passed
every row; and what is no longer in its window fired before (`OldFired`).  A
candidate whose claim is refused was fired by another (`ClaimsFired`).  What a
clean sweep leaves is `SweptFired`: all that was due when it began has fired.
With `NeverLate`, the clock is at most a grace past the last clean sweep, no
window closes unseen.  The steps over a page rest on lemmas about `FirstOf`: a
page has no holes, and one that is not full is the rest of the listing.

**ResponseCacheProofs**.  `WaitersLed`: a flight belongs to a request that is
running it (`FlightsLed`) and a waiter has a flight (`WaitersFlown`).
`StoreIsCurrent` and `UnsharedIsFresh` assume that every write path
invalidates (`WriteKinds \subseteq Invalidating`).  The invariant relates a
body to the epoch its request captured: with the epoch unchanged it can only
miss writes that are still between their commit and their `Invalidate`
(`BodiesFresh`), and so can an entry (`EntriesFresh`); an answered write is in
neither case (`AckedBehind`, `FloorsKept`).

**FleetSupervisorProofs**, for any number of slots, requests, crashes and
failed starts.  `KnowsItsProcess` needs that there is one goroutine at most and
that a live process has it (`Solo`): a start is only possible when nothing
waits, and a pending restart would have set `raced`.  `StoppedStaysDown` needs
that behind a stop the mark is set and no goroutine is past the decision
(`Stopped`); `ShutdownLeavesNothing` that the one process left is the target of
Shutdown's `StopApp` (`Closing`).  The back-off's length plays no part, so the
arithmetic of `Delay` stays with TLC.

**SchemaDeployProofs**, for any deployers, schemas, approvals and finite set of
workers, any number of deploys, faults, retries and attempts of Append.  The
invariant `IInv` is large, since the module is a program of 26 statements run by
five kinds of deploy and by the workers.  `Routed` says which statements a
process of each kind may be at and what it has read by then; without it not
even `TypeOK` is inductive.  `NoJobVanishes` counts the jobs that nobody will
attend to; a fault may add as many as an inbox holds.  It needs `Shared`: no job
is in two places (`Single`), an inbox holds no more than one read brings
(`Numbered`), and a worker at work has the first of its inbox in hand
(`Handed`).  `ForeignColumnsKept` needs that
nothing read, recorded or versioned declares a consumer's column (`Held`,
`Declared`), that a tenant without a record has no tables, which rests on one
registration at a time being past its INSERT (`Rowed`), and that a drop was
planned after the owned objects were read (`Asked`).  `VersionsDiffer` needs
`Fresh`: the number an Append asks for is taken, or the latest version is the
one it compared with.  `RecordIsBacked` and `HistoryMirrorsRecord` speak of
deploys that nobody overlapped, and their proof follows such a deploy
(`Solitary`): from its UPDATE on the record is its schema (`Recorded`), from its
verification on the database has what it declares, or it is excused
(`Progress`), the record and the schema a PUT would go back to are covered
(`Backed`), EnsureSeeded read what is on record and the Append left the deploy's
document as the latest version (`Logged`), and the latest version is the record,
or what the PUT would restore (`Mirrored`).  The migration worker runs beside
it throughout and takes objects away.  `Counted` says that a transaction which
puts one object in the place of another leaves the first counted, as a gap or as
undone, `Covering` the same of every statement of a migration, and `WorkerStep`
that what was there before a worker's step is there after it or is counted as
undone.  What the theorem does not say is that nothing is undone: it is, see
`JobsKeepTheRecord` in section 7.

**MigrationPlanProofs**, for any documents the validator accepts, any
approvals and any number of deploys and faults.  A plan is computed once, from
the tables at the start, and executed against tables that every statement
changes: the theorems say that what was decided then is still right at the
statement that acts on it.  The invariant `IInv` therefore follows what the
deploy began with.  `Tracked`: every column of the start is in the tables,
under the name it has while the renames still in the plan have not run
(`NowTable`, `NowColumn`), or is `Forsaken`, given up by an approved drop of an
object that is not declared.  `Planned` says where each remaining operation
comes from: a rename from its source, a drop from an object that was there, is
not declared, is not the consumer's and is approved, an addition from the
document.  `LostByConsent` is `Tracked`
under the names the operator was shown, and `RenameMoves` is `Tracked` once no
rename is left.  Both need that ids are not reused: `Fresh` and `Numbered` say
that a new column's id carries the number of its deploy.  `Guarded` is
`RelationStaysGuarded` for the tables of now; a drop of a column or a table
takes its links along, so it needs `Provided` (declared columns are there or
are still to come), `Linked` (a link that is declared as it is stays) and that
the old key of a changed relation goes together with its new one.  `Kept`
carries all this to the committed tables, to which a failed statement returns
the deploy.  `TypeOK`, which
includes what PostgreSQL insists on (unique names, links between things that
exist on both sides), is a consequence of `WellFormed` of the tables of now, of
the last commit and of the start; that a constraint's name is held once on its
table (`NamedOnce`) is what lets the drop of a replaced key name one link.  Each statement has a lemma of its own about a
document, tables and a plan, without the state.  Looking for the assumptions showed what the model had
missed: a rename from an engine table, which `Diff` refuses.

`PlanExecutes` and `Converges` follow what `IInv` does not: that the plan does
all there is to do, and in an order that PostgreSQL accepts.  They rest on an
invariant of the running plan, `Ready`, which is all that `RInv` says (beside the
engine's tables being there): neither property is a part of it.  Each is then an
induction of its own, in which the step that ends a deploy needs `Ready` of the
state before it.  `Drawn` says what each
operation was planned for; `Backed` that every column, link and index of now is
one of the start, under its name of now, or was made by a statement that ran;
`InPlace` that what is to be dropped or replaced is still there; `Released`
that a link to a table that is to be dropped goes first, by a statement of its
own or with its table, which comes `before`, or else is one of those that
`StillReferenced` names (`Holds`); `Supplied` that what is declared is there,
was made or is still to come.  The order of tables needs no induction over the
graph: `Reaches` is defined by closed sets, so that it is transitive, and
between two tables that a link joins either the way back exists, and the link
is dropped first, or the pair is in `Before`.  The order of columns has no such
argument, and the code no such order: `DropColumnPinned` finds, behind every
column that PostgreSQL refuses to drop, a link that `ColumnReferenced` names
(`Pins`).  The plan calls a link by the name of the referenced column before the
renames (`NewLink`), PostgreSQL by the one after them (`EndLink`); `EndAndNew`
says that the two have one constraint, so that the drop meets the right one.  When the plan is empty,
`Supplied` leaves nothing to be added or changed, so that the second diff finds
no renames but those that were blocked and no links but those whose
constraint's name is taken.  An instance with four deploys mattered here: the
proof of `Converges`
failed where a renamed column had kept its constraint's name, an exception
(`ConstraintTaken`) the three deploys of the run do not reach.

**FileStoreProofs**, for any number of clients, ids, contents and faults.
`Held` says what a request has in hand at each step, without which not even
`TypeOK` is inductive.  `RowsHaveBlobs` needs that an upload past its blob has
it (`InsertsHaveBlobs`) and that whoever is about to remove a blob has deleted
the last row of its content (`RemovesLast`).  `BlobsHaveRows` needs the lock on
a deleted row (`RowLocked`), that of two checked deletes of one content one saw
the other (`DeletesSeen`), that a delete which leaves the blob leaves a row
(`SharedHasOther`), and that a blob without a row has a request that will
attend to it (`Attended`).  `NothingLeftBehind` needs that a file that is taken
back has lost its row before its blob (`TakenBack`).

Only model-checked: liveness (`EventuallySettled`, `DueIsHandled`,
`EveryGetAnswered`, `SelfHeals`, `CrashedComesBack`), which needs fairness and
ENABLED.
`SettledForever` is proved and has no run of its own: it is part of
`ImplementsEventQueue`.

## 7. Claims that do not hold

What comments, docs or error texts say without the conditions the code needs.
The model has the behaviour of every entry marked *(stated)*; the definition
named states the claim, is in its module and in no run, and TLC refutes it
with the constants given.  The other entries were met while reading, and the
properties that hold name them as their exceptions.

Outbox, cron, reminders, cache:

- *(stated)* `StopFinishesBatch` (`docs/DEPLOY.md:503`), one worker, one
  fault.  The context that SIGTERM cancels is the one of the batch's
  statements: the batch rolls back after its side effects and is delivered
  again.
- *(stated)* `DueSurvivesPrune` (`pkg/workflows/scheduler.go:25`), two
  workers, no fault.  `Source.Run` and `Scheduler.Run` start together; a tick
  that wins the race sees no entries, prunes everything, and the catch-up of a
  missed occurrence is lost.
- *(stated)* `NoReminderMissed` with more rows than the page ceiling
  (`pkg/workflows/reminders.go:273`), three rows in two pages of one.  Every
  sweep starts at the first page, rows that already fired included.
- *(stated)* `NextReadIsFresh` (`pkg/codegen/builder.go:1155`), two GETs and
  two writers.  `Invalidate` does not forget the flight under way, so a later
  GET joins it.
- *(stated)* `OccurrenceFiredOnce` and `NoOverlap` with `FaultKinds =
  {"session"}`, two workers, one schedule: a leader that lost its session in
  mid-tick goes on firing, and the new leader's `inflight` map is empty.
- *(stated)* `MissedRunVisible` with `FaultKinds = {"crash"}`: a crash between
  `Advance` and `StartRun` leaves no row.
- *(stated)* `EnqueuedOnce` with `Grace = 3`, `Retention = 1`: the prune
  forgets claims whose instant is still in its window.
- *(stated)* `FiresCurrentRow` with writes: a row that moved after it was
  listed fires at its old moment.
- *(stated)* `ProcessedRowsHaveConsumer`: a topic that loses its consumer
  between the claim and the dispatch burns an attempt.
- *(stated)* `StoredIsCurrent` with `WriteKinds = {"create"}`: POST, DELETE
  and GraphQL mutations do not invalidate.
- *(stated)* `RefreshRenews` with `Cap` 1 and two keys: a full bucket refuses
  the renewal of an entry it already has.

Deploys:

- *(stated)* `JobsKeepTheRecord` ("The engine's contract is that a tenant's
  recorded schema describes its real database",
  `pkg/controlplane/service.go:137`), the instance of `deploy` without faults.
  The worker applies the document the job carries (`pkg/migration/worker.go:180`)
  and not the one on record: a PUT, then a deploy of another schema from the
  command line, which enqueues nothing, then the job of the PUT.  It points
  the foreign key back (`runner.go:412`), alters a retyped column back and adds
  the old name of a renamed one again; the record keeps the later schema, with no
  fault and no deploys that overlap.  After two PUTs the job of the second one
  heals what the first one's has undone, unless the lock has put them in the
  other order.  `RecordIsBacked` excepts exactly the objects that a job has put
  another in the place of (`undone`).
- The old name that such a job has added stands beside the new one from then
  on: the rename is blocked, and every later PUT of the newer schema is partial
  and restores the record (`Blocked` in `SchemaDeploy`).
- A batch that alters columns is committed before the indexes: a PUT whose index
  fails restores a document whose definitions are gone (`gaps`).
- A PUT whose migration fails after approved drops restores the old document,
  which declares columns that are gone (`pkg/controlplane/service.go:164`;
  `gaps` in `RecordIsBacked`).
- The restore uses the request's context (`:218`): a client that has left has
  cancelled it, and the record keeps the schema whose migration failed.
- The registration and the worker ignore `Partial`, the outcome of a migration
  that skipped something.
- `pkg/schemahistory/schemahistory.go:112` takes deploys of one tenant to be
  "already serialized"; the PUT and the command line take no lock.
- The history's first version is hashed from the raw JSON of the column, later
  ones from the marshalled schema (`EnsureSeeded`, `Hash`): one schema can be
  two versions (`raw` in the model).
- The consumer reads new messages only (`pkg/migration/worker.go:83`), ten at
  once, and processes them one by one: a message that was left pending is never
  read again, so a crash loses up to ten jobs; a shutdown during the back-off of a
  retry acknowledges the job without enqueueing it (`:195`); the errors of the retry's
  `XAdd` are ignored and the message is acknowledged (`:197`, `:201`).
- "NEVER approvable" (`pkg/migration/external.go:32`): an error while reading
  what the app owns counts as owning everything (`:60`), and an approved drop
  of a consumer's column is executed.
- A verification that cannot run reports success (`runner.go:285`).

Plans:

- *(stated)* `OrderedPlanRuns` ("The result is a Plan whose operations can be
  executed top-to-bottom without a dependency error",
  `pkg/schemadiff/order.go:181`), the documents `Single` and `Coded`, two
  deploys, no fault.  A foreign key may reference any unique column
  (`desired.go:237`); with `q.a` referencing `p(b)` and both removed and
  approved, the columns are dropped in the order of the tables' names, `p.b`
  comes first, and DROP COLUMN has no CASCADE (`render.go:87`): PostgreSQL
  refuses the plan for its order alone, and again at every repetition.
- For the same reason the drop of a referenced column fails when the relation is
  re-pointed in the same deploy, since the old key goes with the new one, last;
  when the referencing table is dropped, since tables come after columns; and
  when the relation is removed and its column is not, since the removed key is
  left as drift (`ColumnReferenced`).
- "a failed CONCURRENTLY build leaves an invalid index; drop it before retry"
  (`render.go:147`): the clean-up runs before a retry and not after the last
  attempt, nor after an error that is not retried (`:488`), and the introspection
  does not look at `indisvalid` (`introspect.go:242`).  The index that stays
  counts as present, the next deploy does not build it, and `Converges`, which
  is stated with the code's own comparison, does not see it.
- A relation that is re-pointed while the drop of its old target is approved
  fails: the old key is dropped with the new one added, after the table's drop
  (`runner.go:362`; `StillReferenced`).
- So does the drop of a table that an unapproved or a consumer's table
  references (`pkg/schemadiff/order.go:181`).
- A renamed table keeps the names of its indexes, and a new table under the old
  name cannot create its own (`render.go:135`; `NameTaken`).
- A renamed column keeps its constraint, whose name "only has to be a valid,
  stable identifier" (`desired.go:253`): a new column under the old name cannot
  have its own, which is skipped, and the deploy stays partial however often it
  is repeated (`ConstraintTaken`).  It takes four deploys, one more than the
  run has: a relation; a rename of its column with another target; a rename of
  that column; a new column under its name.
- A column that is removed in the deploy that renames its table is looked up
  under the new name, is not found among the owned ones and counts as the
  consumer's (`external.go:114`): it stays.

Fleet:

- *(stated)* `StopIsHonoured` ("marks it so onExit does not restart it",
  `supervisor.go:298`), the instance of `fleet`: a stop during the back-off finds
  nothing running, succeeds, marks nothing (`:305`), and the app is started again.
- *(stated)* `BackoffIsPositive` ("keep retrying with growing backoff", `:250`),
  the instance of `fleet` with four crashes: the shift (`:228`) overflows before
  the cap is applied, here after three crashes in four bits, in the code after 34
  in 64; the delay is then negative, from the 56th crash on zero, and the app is
  started again at once.
- A start during the back-off ends in two processes of which the supervisor
  knows one (`:250`; `raced`).
- A restart that races a crash can leave the app down (`:313`, `:345`).
- A respawn whose timer fired before the cancellation starts a process that
  the shutdown does not see (`:248`; `late`).

Files:

- An upload that found the blob of its content while a delete of the last row
  is under way ends as a row without a blob (`store.go:137`, `:208`;
  `overlapped`).
- Two deletes of rows with one content see each other's row, and the blob stays
  (`meta.go:301`; `leaked`).
- A body that is malformed after its file leaves a file whose client got an
  error (`http.go:120`; `Malformed`).

## 8. What is not modelled

The components under 10 of the plan are not modelled yet.  In the modelled
ones:

- what a processor or a workflow's steps do is reduced to their outcome;
- durations are left out of `Outbox`: how long a worker backs off before it
  reconnects and how often it polls are steps that may come at any time;
- `Reminders` takes the API's page as one step and has one workflow; the
  default of the grace and the parsing of offsets are constants;
- `ResponseCache` leaves out requests that pass the middleware untouched, and
  tells bodies apart by age only, so which role a shared body was read as is
  not part of it;
- `SchemaDeploy` has one tenant.  An exclusion constraint is a link like a
  foreign key, replaced by name.  The introspection and the reading of what the
  app owns are one step, `Diff`, and of the two reads of the latter (record and
  versions, `external.go:60`, `:69`) the failure of the second alone, after
  which only the record's objects are owned, is left out: with it fewer columns
  count as owned, so fewer are dropped.  The order of the statements within a
  batch, and the dependencies between columns, are `MigrationPlan`'s;
  `migration_log`, the fan-out's report and the reading operations
  (preview, list, get) are left out.  Its `history` is the sequence of versions
  in the order of their numbers: once `wiped`, the numbers may have a gap, and
  PostgreSQL would accept an insert into it that is a conflict in the model;
- `MigrationPlan` folds type, NOT NULL and default of a column into one
  attribute and leaves out unique constraints, checks, range exclusions, enum
  types and foreign keys over several columns.  That a referenced column is
  unique and of the type of the referencing one is the validator's concern
  (`validator.go:454`).  The order in which columns are dropped, by name in the
  code, is left open; the SQL text and the parsing of types are not part of it;
- `FleetSupervisor` leaves out the health poll and the status, which only
  report; `FileStore` leaves out what only reads (serving, lists, signed URLs)
  and the content checks, which refuse an upload before its first step.  The
  deletion of a tenant (`DeleteTenant`, `pkg/platformadmin/tenants.go:168`) is
  outside it, too: it drops the tenant's schema, the rows of `files` with it
  (`:184`), and leaves every blob, so `BlobsHaveRows` speaks of the file API
  alone;
- clocks of processes and of PostgreSQL are one clock.

Parsing, validation, SQL and document generation, language processing, UI,
CLI, metrics and cryptography are functions without shared state, or I/O, and
are left to the repository's tests.
