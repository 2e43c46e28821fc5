---------------------------- MODULE CronScheduler ----------------------------
(***************************************************************************)
(* The leader-elected cron scheduler of the worker processes:              *)
(* pkg/workflows/scheduler.go (Run, lead, tick), store.go (the tables      *)
(* workflow_cron and workflow_runs), source.go (Refresh) and executor.go   *)
(* (Run).                                                                  *)
(*                                                                         *)
(* A schedule is a (workflow, tenant) pair; a cron spec is known by the    *)
(* instants it yields (NextAfter).  Every statement on the database is one *)
(* step, so a tick of one worker interleaves with everything else: with    *)
(* the clock, with runs still executing, and with another worker once the  *)
(* advisory lock is lost, because the lock lives on a connection of its    *)
(* own while the statements go through a pool.                             *)
(***************************************************************************)
EXTENDS Naturals, Sequences

CONSTANTS
    Workers,          \* appximo-worker processes
    Schedules,        \* (workflow, tenant) pairs a deployed schema may declare
    Specs,            \* cron expressions (with their time zone)
    NextAfter(_, _),  \* NextAfter(spec, t): the first firing strictly after t
    OverlapAllow,     \* schedules declared with overlap: "allow"
    None,
    FaultKinds,       \* the faults of this instance
    MaxTime,          \* bound of the model: instants
    MaxFaults         \* bound of the model: faults and deploys

AllFaultKinds == {"crash", "session", "error", "cancel", "deploy"}

ASSUME SchedulerAssumption ==
    /\ None \notin Specs
    /\ None \notin Workers
    /\ None \notin Nat
    /\ None \notin [spec : Specs \cup {None}, next : Nat]
    /\ OverlapAllow \subseteq Schedules
    /\ FaultKinds \subseteq AllFaultKinds
    /\ MaxTime \in Nat
    /\ MaxFaults \in Nat

\* robfig/cron Schedule.Next yields an instant strictly after its argument.
ASSUME NextAfterAssumption ==
    \A s \in Specs : \A t \in 0..MaxTime : NextAfter(s, t) \in Nat /\ NextAfter(s, t) > t

VARIABLES
    clock,      \* wall clock, the same for every worker and for Postgres
    declared,   \* public.tenants.json_schema: the spec of each declared schedule
    cron,       \* public.workflow_cron: spec and next_run
    runs,       \* the firings so far, in order, and what workflow_runs shows of them
    lock,       \* the worker whose connection holds the advisory lock
    pc,         \* where a worker is in Run / lead / tick
    source,     \* Source.entries of the worker
    now,        \* tick: now
    entries,    \* tick: entries, keep, byKey
    todo,       \* tick: entries not upserted yet
    due,        \* tick: next_run of the due rows not fired yet
    inflight,   \* Scheduler.inflight
    faults      \* faults so far, bounded by MaxFaults

tables  == <<cron, runs>>
tick    == <<now, entries, todo, due>>
vars    == <<clock, declared, cron, runs, lock, pc, source, now, entries, todo,
             due, inflight, faults>>

CronRow   == [spec : Specs \cup {None}, next : Nat]
InTick    == {"upsert", "due", "fire"}
Leading   == {"begin", "lead"} \cup InTick
Location  == {"down", "compete", "draining"} \cup Leading

\* What has become of a firing.  "starting" and "skipping": its row is not
\* written yet.  "stuck": its row says 'running' and nobody executes it.
\* "lost": nobody executes it and it has no row.
RunStatus == {"starting", "running", "ok", "failed", "stuck", "lost",
              "skipping", "skipped_overlap"}
Executing == {"starting", "running"}
Run       == [by : Workers, key : Schedules, occ : Nat, at : Nat, status : RunStatus]

Declared(e) == {k \in Schedules : e[k] # None}

Init ==
    /\ clock = 0
    /\ declared \in [Schedules -> Specs \cup {None}]
    /\ cron \in [Schedules -> {None, [spec |-> None, next |-> 1]}]
    /\ runs = <<>>
    /\ lock = None
    /\ pc = [w \in Workers |-> "down"]
    /\ source = [w \in Workers |-> [k \in Schedules |-> None]]
    /\ now = [w \in Workers |-> 0]
    /\ entries = [w \in Workers |-> [k \in Schedules |-> None]]
    /\ todo = [w \in Workers |-> {}]
    /\ due = [w \in Workers |-> [k \in Schedules |-> None]]
    /\ inflight = [w \in Workers |-> {}]
    /\ faults = 0

Fault(kind) ==
    /\ kind \in FaultKinds
    /\ faults < MaxFaults
    /\ faults' = faults + 1

-----------------------------------------------------------------------------
(***************************************************************************)
(* The world around the scheduler.                                         *)
(***************************************************************************)

Clock ==
    /\ clock < MaxTime
    /\ clock' = clock + 1
    /\ UNCHANGED <<declared, tables, lock, pc, source, tick, inflight, faults>>

\* A deploy adds, changes or removes a cron workflow of a tenant.
Deploy(k, s) ==
    /\ Fault("deploy")
    /\ s # declared[k]
    /\ declared' = [declared EXCEPT ![k] = s]
    /\ UNCHANGED <<clock, tables, lock, pc, source, tick, inflight>>

\* The worker's Source reloads every tenant's workflows; until the first time,
\* it knows of none.
Refresh(w) ==
    /\ pc[w] \notin {"down", "draining"}
    /\ source[w] # declared
    /\ source' = [source EXCEPT ![w] = declared]
    /\ UNCHANGED <<clock, declared, tables, lock, pc, tick, inflight, faults>>

\* The process starts: buildAuto launches Source.Run and Scheduler.Run.
Start(w) ==
    /\ pc[w] = "down"
    /\ pc' = [pc EXCEPT ![w] = "compete"]
    /\ source' = [source EXCEPT ![w] = [k \in Schedules |-> None]]
    /\ inflight' = [inflight EXCEPT ![w] = {}]
    /\ UNCHANGED <<clock, declared, tables, lock, tick, faults>>

-----------------------------------------------------------------------------
(***************************************************************************)
(* Leadership: Run and lead.                                               *)
(***************************************************************************)

\* Mutant: the inflight map is made anew with every leadership.
AcquireFresh(w) ==
    /\ pc[w] = "compete"
    /\ lock = None
    /\ lock' = w
    /\ pc' = [pc EXCEPT ![w] = "begin"]
    /\ inflight' = [inflight EXCEPT ![w] = {}]
    /\ UNCHANGED <<clock, declared, tables, source, tick, faults>>

\* pg_try_advisory_lock on a dedicated connection; without it the worker
\* sleeps and retries, which leaves it competing.
Acquire(w) ==
    /\ pc[w] = "compete"
    /\ lock = None
    /\ lock' = w
    /\ pc' = [pc EXCEPT ![w] = "begin"]
    /\ UNCHANGED <<clock, declared, tables, source, tick, inflight, faults>>

\* The ticker fires: ping the lock connection, tick if it answers, give the
\* leadership up if it does not.
Ping(w) ==
    /\ pc[w] = "lead"
    /\ pc' = [pc EXCEPT ![w] = IF lock = w THEN "begin" ELSE "compete"]
    /\ UNCHANGED <<clock, declared, tables, lock, source, tick, inflight, faults>>

\* tick reads the clock and the Source.  The reminder sweep comes next and may
\* take long: nothing rereads the clock, the Source or the lock after it.
BeginTick(w) ==
    /\ pc[w] = "begin"
    /\ pc' = [pc EXCEPT ![w] = "upsert"]
    /\ now' = [now EXCEPT ![w] = clock]
    /\ entries' = [entries EXCEPT ![w] = source[w]]
    /\ todo' = [todo EXCEPT ![w] = Declared(source[w])]
    /\ due' = [due EXCEPT ![w] = [k \in Schedules |-> None]]
    /\ UNCHANGED <<clock, declared, tables, lock, source, inflight, faults>>

-----------------------------------------------------------------------------
(***************************************************************************)
(* The body of tick: reconcile, query, fire.                               *)
(***************************************************************************)

\* UpsertScheduleSpec: a new row is armed, a row of another spec is re-armed,
\* a row that predates the spec column adopts the spec and keeps next_run.
Upserted(row, spec, t) ==
    IF row = None \/ (row # None /\ row.spec \notin {None, spec})
    THEN [spec |-> spec, next |-> NextAfter(spec, t)]
    ELSE [spec |-> spec, next |-> row.next]

Upsert(w, k) ==
    /\ pc[w] = "upsert"
    /\ k \in todo[w]
    /\ cron' = [cron EXCEPT ![k] = Upserted(@, entries[w][k], now[w])]
    /\ todo' = [todo EXCEPT ![w] = @ \ {k}]
    /\ UNCHANGED <<clock, declared, runs, lock, pc, source, now, entries, due, inflight, faults>>

\* PruneSchedules: the rows whose workflow is not among this tick's entries go.
Prune(w) ==
    /\ pc[w] = "upsert"
    /\ todo[w] = {}
    /\ cron' = [k \in Schedules |-> IF entries[w][k] = None THEN None ELSE cron[k]]
    /\ pc' = [pc EXCEPT ![w] = "due"]
    /\ UNCHANGED <<clock, declared, runs, lock, source, tick, inflight, faults>>

IsDue(row, t) == row # None /\ row.next <= t

\* Mutant: next_run < now.
ReadDueStrict(w) ==
    /\ pc[w] = "due"
    /\ due' = [due EXCEPT ![w] =
          [k \in Schedules |-> IF cron[k] # None /\ cron[k].next < now[w] /\ entries[w][k] # None
                               THEN cron[k].next ELSE None]]
    /\ pc' = [pc EXCEPT ![w] = "fire"]
    /\ UNCHANGED <<clock, declared, tables, lock, source, now, entries, todo, inflight, faults>>

\* DueSchedules.  A row that another worker inserted after this tick's prune
\* is dropped by the loop over the result: it is not in byKey.
ReadDue(w) ==
    /\ pc[w] = "due"
    /\ due' = [due EXCEPT ![w] =
          [k \in Schedules |-> IF IsDue(cron[k], now[w]) /\ entries[w][k] # None
                               THEN cron[k].next ELSE None]]
    /\ pc' = [pc EXCEPT ![w] = "fire"]
    /\ UNCHANGED <<clock, declared, tables, lock, source, now, entries, todo, inflight, faults>>

\* The loop over the due rows, in next_run order; RecordSkip is part of it.
NextDue(w, k) ==
    /\ pc[w] = "fire"
    /\ due[w][k] # None
    /\ \A j \in Schedules : due[w][j] # None => due[w][k] <= due[w][j]
    /\ \A i \in 1..Len(runs) : ~(runs[i].by = w /\ runs[i].status = "skipping")

\* Mutant: next_run is left NULL by a firing.
AdvancedToNull(w, k) ==
    [cron EXCEPT ![k] = IF @ = None THEN @ ELSE [@ EXCEPT !.next = None]]

\* Mutant: the next firing is computed from the occurrence, not from now.
AdvancedFromOccurrence(w, k) ==
    [cron EXCEPT ![k] = IF @ = None THEN @ ELSE [@ EXCEPT !.next = NextAfter(entries[w][k], due[w][k])]]

\* Store.Advance: an UPDATE by key, which a missing row does not make fail and
\* which does not look at the next_run it overwrites.
Advanced(w, k) ==
    [cron EXCEPT ![k] = IF @ = None THEN @ ELSE [@ EXCEPT !.next = NextAfter(entries[w][k], now[w])]]

\* Mutant: the overlap policy is not looked at.
FireAlways(w, k) ==
    /\ NextDue(w, k)
    /\ cron' = Advanced(w, k)
    /\ due' = [due EXCEPT ![w][k] = None]
    /\ runs' = Append(runs, [by |-> w, key |-> k, occ |-> due[w][k], at |-> now[w], status |-> "starting"])
    /\ inflight' = [inflight EXCEPT ![w] = @ \cup {k}]
    /\ UNCHANGED <<clock, declared, lock, pc, source, now, entries, todo, faults>>

\* Advance first; then skip the occurrence if this process still executes the
\* previous one, else launch the run.
Fire(w, k) ==
    LET skip == k \notin OverlapAllow /\ k \in inflight[w]
    IN  /\ NextDue(w, k)
        /\ cron' = Advanced(w, k)
        /\ due' = [due EXCEPT ![w][k] = None]
        /\ runs' = Append(runs, [by |-> w, key |-> k, occ |-> due[w][k], at |-> now[w],
                                 status |-> IF skip THEN "skipping" ELSE "starting"])
        /\ inflight' = [inflight EXCEPT ![w] = @ \cup {k}]
        /\ UNCHANGED <<clock, declared, lock, pc, source, now, entries, todo, faults>>

\* Advance answers an error: this firing is skipped.  The statement may have
\* been executed all the same.
AdvanceFails(w, k) ==
    /\ NextDue(w, k)
    /\ Fault("error")
    /\ due' = [due EXCEPT ![w][k] = None]
    /\ cron' \in {cron, Advanced(w, k)}
    /\ UNCHANGED <<clock, declared, runs, lock, pc, source, now, entries, todo, inflight>>

\* RecordSkip ignores its error.
RecordSkip(i) ==
    /\ runs[i].status = "skipping"
    /\ \/ runs' = [runs EXCEPT ![i].status = "skipped_overlap"] /\ UNCHANGED faults
       \/ runs' = [runs EXCEPT ![i].status = "lost"] /\ Fault("error")
    /\ UNCHANGED <<clock, declared, cron, lock, pc, source, tick, inflight>>

\* An upsert answers an error, executed or not: the tick is over.
UpsertFails(w, k) ==
    /\ pc[w] = "upsert"
    /\ k \in todo[w]
    /\ Fault("error")
    /\ cron' \in {cron, [cron EXCEPT ![k] = Upserted(@, entries[w][k], now[w])]}
    /\ pc' = [pc EXCEPT ![w] = "lead"]
    /\ UNCHANGED <<clock, declared, runs, lock, source, tick, inflight>>

\* The prune stops at a statement that fails, some rows deleted; the tick
\* goes on.
PruneFails(w) ==
    /\ pc[w] = "upsert"
    /\ todo[w] = {}
    /\ Fault("error")
    /\ \E S \in SUBSET Schedules :
          cron' = [k \in Schedules |-> IF k \in S /\ entries[w][k] = None THEN None ELSE cron[k]]
    /\ pc' = [pc EXCEPT ![w] = "due"]
    /\ UNCHANGED <<clock, declared, runs, lock, source, tick, inflight>>

\* The due query answers an error: the tick is over.
DueFails(w) ==
    /\ pc[w] = "due"
    /\ Fault("error")
    /\ pc' = [pc EXCEPT ![w] = "lead"]
    /\ UNCHANGED <<clock, declared, tables, lock, source, tick, inflight>>

EndTick(w) ==
    /\ pc[w] = "fire"
    /\ \A k \in Schedules : due[w][k] = None
    /\ \A i \in 1..Len(runs) : ~(runs[i].by = w /\ runs[i].status = "skipping")
    /\ pc' = [pc EXCEPT ![w] = "lead"]
    /\ UNCHANGED <<clock, declared, tables, lock, source, tick, inflight, faults>>

-----------------------------------------------------------------------------
(***************************************************************************)
(* A run: Executor.Run in the goroutine the tick launched.                 *)
(***************************************************************************)

\* The goroutine of firing i ends and clears its mark.
Ends(i, status) ==
    /\ runs' = [runs EXCEPT ![i].status = status]
    /\ inflight' = [inflight EXCEPT ![runs[i].by] = @ \ {runs[i].key}]

\* StartRun inserts the row 'running'; when it fails the run never executes.
StartRun(i) ==
    /\ runs[i].status = "starting"
    /\ \/ runs' = [runs EXCEPT ![i].status = "running"] /\ UNCHANGED <<inflight, faults>>
       \/ Ends(i, "lost") /\ Fault("error")
    /\ UNCHANGED <<clock, declared, cron, lock, pc, source, tick>>

\* The steps end, well or badly, and FinishRun records it; when FinishRun
\* fails the row stays 'running'.
FinishRun(i) ==
    /\ runs[i].status = "running"
    /\ \/ \E status \in {"ok", "failed"} : Ends(i, status) /\ UNCHANGED faults
       \/ Ends(i, "stuck") /\ Fault("error")
    /\ UNCHANGED <<clock, declared, cron, lock, pc, source, tick>>

-----------------------------------------------------------------------------
(***************************************************************************)
(* Faults.                                                                 *)
(***************************************************************************)

\* What the death of its process makes of a firing.
Orphaned(status) ==
    CASE status = "running" -> "stuck"
      [] status \in {"starting", "skipping"} -> "lost"
      [] OTHER -> status

Released(w) == IF lock = w THEN None ELSE lock

Dies(w) ==
    /\ pc' = [pc EXCEPT ![w] = "down"]
    /\ lock' = Released(w)
    /\ runs' = [i \in 1..Len(runs) |->
          IF runs[i].by = w THEN [runs[i] EXCEPT !.status = Orphaned(@)] ELSE runs[i]]
    /\ UNCHANGED <<clock, declared, cron, source, tick, inflight>>

\* The process dies; Postgres ends its session and frees the lock.
Crash(w) ==
    /\ pc[w] # "down"
    /\ Fault("crash")
    /\ Dies(w)

\* The lock connection breaks and Postgres ends the session, while the process
\* and its pool live on.
LoseSession(w) ==
    /\ lock = w
    /\ Fault("session")
    /\ lock' = None
    /\ UNCHANGED <<clock, declared, tables, pc, source, tick, inflight>>

\* SIGTERM: every statement of the tick now fails, lead returns, its connection
\* is closed and Run waits for the runs, which fail too.
Cancel(w) ==
    /\ pc[w] \notin {"down", "draining"}
    /\ Fault("cancel")
    /\ pc' = [pc EXCEPT ![w] = "draining"]
    /\ lock' = Released(w)
    /\ UNCHANGED <<clock, declared, tables, source, tick, inflight>>

\* main returns when the outbox worker does, whether or not runs have ended.
Exit(w) ==
    /\ pc[w] = "draining"
    /\ Dies(w)
    /\ UNCHANGED faults

-----------------------------------------------------------------------------
WorkerStep(w) ==
    \/ Acquire(w) \/ Ping(w) \/ BeginTick(w) \/ Prune(w) \/ ReadDue(w) \/ EndTick(w)
    \/ \E k \in Schedules : Upsert(w, k) \/ Fire(w, k)
    \/ \E i \in 1..Len(runs) : runs[i].by = w /\ RecordSkip(i)

Next ==
    \/ Clock
    \/ \E k \in Schedules, s \in Specs \cup {None} : Deploy(k, s)
    \/ \E w \in Workers : Start(w) \/ Refresh(w) \/ WorkerStep(w) \/ PruneFails(w) \/ DueFails(w)
    \/ \E w \in Workers, k \in Schedules : UpsertFails(w, k) \/ AdvanceFails(w, k)
    \/ \E i \in 1..Len(runs) : StartRun(i) \/ FinishRun(i)
    \/ \E w \in Workers : Crash(w) \/ LoseSession(w) \/ Cancel(w) \/ Exit(w)

Spec == Init /\ [][Next]_vars

(***************************************************************************)
(* Fairness.  The supervisor restarts a dead worker (Restart=always); Run   *)
(* retries forever; the Source, the ticker and the goroutines of a process *)
(* that lives are scheduled; a cancelled process exits.  Faults, deploys   *)
(* and the outcome of a run are never assumed to happen.                   *)
(***************************************************************************)
Fairness ==
    \A w \in Workers :
        WF_vars(Start(w)) /\ WF_vars(Refresh(w)) /\ WF_vars(WorkerStep(w)) /\ WF_vars(Exit(w))

FairSpec == Spec /\ Fairness

-----------------------------------------------------------------------------
(***************************************************************************)
(* Properties.                                                             *)
(***************************************************************************)

\* Every variable has its type.
TypeOK ==
    /\ clock \in 0..MaxTime
    /\ declared \in [Schedules -> Specs \cup {None}]
    /\ cron \in [Schedules -> CronRow \cup {None}]
    /\ runs \in Seq(Run)
    /\ lock \in Workers \cup {None}
    /\ pc \in [Workers -> Location]
    /\ source \in [Workers -> [Schedules -> Specs \cup {None}]]
    /\ now \in [Workers -> 0..MaxTime]
    /\ entries \in [Workers -> [Schedules -> Specs \cup {None}]]
    /\ todo \in [Workers -> SUBSET Schedules]
    /\ due \in [Workers -> [Schedules -> Nat \cup {None}]]
    /\ inflight \in [Workers -> SUBSET Schedules]
    /\ faults \in 0..MaxFaults

\* Missed occurrences collapse: a firing of a schedule is for an occurrence
\* that came after the previous firing of it was decided, so no occurrence is
\* fired twice and no backlog is replayed, whoever leads and whoever crashed
\* between advancing next_run and running (scheduler.go, tick).
CatchUpOnce ==
    \A i, j \in 1..Len(runs) :
        i < j /\ runs[i].key = runs[j].key => runs[i].at < runs[j].occ

\* overlap "skip": two runs of one schedule never execute at once
\* (scheduler.go, tick with isInflight).
NoOverlap ==
    \A i, j \in 1..Len(runs) :
        /\ i < j
        /\ runs[i].key = runs[j].key
        /\ runs[i].key \notin OverlapAllow
        /\ runs[i].status \in Executing
        => runs[j].status \notin Executing

\* The same of the runs of one worker only: its inflight map outlives the
\* leadership, so it holds even when the lock session is lost.
OwnRunsNeverOverlap ==
    \A i, j \in 1..Len(runs) :
        /\ i < j
        /\ runs[i].by = runs[j].by
        /\ runs[i].key = runs[j].key
        /\ runs[i].key \notin OverlapAllow
        /\ runs[i].status \in Executing
        => runs[j].status \notin Executing

\* Failover: whatever crashed, a schedule that is due is eventually advanced,
\* re-armed or removed by some leader (scheduler.go, Run and tick).
DueIsHandled ==
    \A k \in Schedules : IsDue(cron[k], clock) ~> ~IsDue(cron[k], clock)

\* "A due schedule runs ONCE however late it is": one occurrence is never
\* launched by two firings.
OccurrenceFiredOnce ==
    \A i, j \in 1..Len(runs) :
        i < j /\ runs[i].key = runs[j].key => runs[i].occ # runs[j].occ

\* A due row of a workflow that is declared, unchanged, is never deleted: its
\* catch-up run would be lost (scheduler.go, tick with PruneSchedules).
DueSurvivesPrune ==
    [][\A k \in Schedules :
          IsDue(cron[k], clock) /\ declared[k] # None /\ cron[k].spec \in {None, declared[k]}
             => cron'[k] # None]_vars

\* "the missed RUN is visible as a 'running' row that never finished": a
\* firing nobody executes any more has left a row in workflow_runs.
MissedRunVisible ==
    \A i \in 1..Len(runs) : runs[i].status # "lost"
=============================================================================
