------------------------ MODULE CronSchedulerProofs ------------------------
(***************************************************************************)
(* Proofs about CronScheduler, for any number of workers, schedules, specs *)
(* and faults: type correctness; a worker never overlaps its own runs; and *)
(* as long as no lock session is lost under a living process, missed       *)
(* occurrences collapse and runs never overlap.                            *)
(***************************************************************************)
EXTENDS CronScheduler, TLAPS

-----------------------------------------------------------------------------
(***************************************************************************)
(* Type correctness.                                                       *)
(***************************************************************************)

\* The entries a tick still has to upsert, and the due rows it still has to
\* fire, are entries with a spec: what NextAfter is applied to is a spec.
HasSpec ==
    /\ \A w \in Workers : \A k \in todo[w] : pc[w] \in InTick => entries[w][k] # None
    /\ \A w \in Workers : \A k \in Schedules :
          pc[w] \in InTick /\ due[w][k] # None => entries[w][k] # None

TypeInv == TypeOK /\ HasSpec

\* Writing a status into one cron_runs row keeps the rows well typed.
LEMMA RunStatusType ==
    ASSUME TypeOK, NEW i \in 1..Len(runs), NEW st \in RunStatus
    PROVE  [runs EXCEPT ![i].status = st] \in Seq(Run)
<1>1. runs[i] \in Run BY DEF TypeOK
<1>2. [runs[i] EXCEPT !.status = st] \in Run BY <1>1 DEF Run
<1>3. [runs EXCEPT ![i] = [runs[i] EXCEPT !.status = st]] \in Seq(Run)
    BY <1>2 DEF TypeOK
<1> QED BY <1>3

\* The fields of a recorded firing have their types.
LEMMA RunFields ==
    ASSUME TypeOK
    PROVE  /\ Len(runs) \in Nat
           /\ \A i \in 1..Len(runs) :
                 /\ runs[i] \in Run
                 /\ runs[i].by \in Workers /\ runs[i].key \in Schedules
                 /\ runs[i].occ \in Nat /\ runs[i].at \in Nat /\ runs[i].status \in RunStatus
<1>1. Len(runs) \in Nat BY DEF TypeOK
<1>2. ASSUME NEW i \in 1..Len(runs) PROVE runs[i] \in Run BY DEF TypeOK
<1>3. \A r \in Run : /\ r.by \in Workers /\ r.key \in Schedules
                     /\ r.occ \in Nat /\ r.at \in Nat /\ r.status \in RunStatus
    BY DEF Run
<1> QED BY <1>1, <1>2, <1>3

\* A status update changes one field of one row and nothing else.
LEMMA StatusSet ==
    ASSUME TypeOK, NEW i \in 1..Len(runs), NEW st, runs' = [runs EXCEPT ![i].status = st]
    PROVE  /\ Len(runs') = Len(runs)
           /\ \A j \in 1..Len(runs) :
                 /\ runs'[j].by = runs[j].by /\ runs'[j].key = runs[j].key
                 /\ runs'[j].occ = runs[j].occ /\ runs'[j].at = runs[j].at
                 /\ j # i => runs'[j].status = runs[j].status
           /\ runs'[i].status = st
<1>1. Len(runs') = Len(runs) BY DEF TypeOK
<1>2. \A j \in 1..Len(runs) : j # i => runs'[j] = runs[j] BY DEF TypeOK
<1>3. runs[i] \in Run BY RunFields
<1>4. runs'[i] = [runs[i] EXCEPT !.status = st]
    <2>1. i \in DOMAIN runs BY DEF TypeOK
    <2> QED BY <2>1, Zenon
<1>5. /\ runs'[i].by = runs[i].by /\ runs'[i].key = runs[i].key
      /\ runs'[i].occ = runs[i].occ /\ runs'[i].at = runs[i].at /\ runs'[i].status = st
    BY <1>3, <1>4 DEF Run
<1> QED BY <1>1, <1>2, <1>5

\* The status MarkOrphans leaves behind is a status.
LEMMA OrphanedType == ASSUME NEW st \in RunStatus PROVE Orphaned(st) \in RunStatus
BY DEF Orphaned, RunStatus

\* The first boot has the types.
LEMMA TypeInit == Init => TypeInv
<1> SUFFICES ASSUME Init PROVE TypeInv OBVIOUS
<1> USE SchedulerAssumption DEF Init
<1>1. cron \in [Schedules -> CronRow \cup {None}]
    <2>1. [spec |-> None, next |-> 1] \in CronRow BY DEF CronRow
    <2> QED BY <2>1
<1>2. runs \in Seq(Run) OBVIOUS
<1>3. TypeOK BY <1>1, <1>2 DEF TypeOK, Location
<1>4. HasSpec BY DEF HasSpec, InTick
<1> QED BY <1>3, <1>4 DEF TypeInv

\* The upsert of cron_state yields a cron_state row.
LEMMA UpsertedType ==
    ASSUME NEW r \in CronRow \cup {None}, NEW s \in Specs, NEW t \in 0..MaxTime
    PROVE  Upserted(r, s, t) \in CronRow
BY SchedulerAssumption, NextAfterAssumption DEF Upserted, CronRow

\* Advancing next_at keeps cron_state well typed.
LEMMA AdvancedType ==
    ASSUME TypeOK, NEW w \in Workers, NEW k \in Schedules, entries[w][k] # None
    PROVE  Advanced(w, k) \in [Schedules -> CronRow \cup {None}]
<1>1. NextAfter(entries[w][k], now[w]) \in Nat
    BY NextAfterAssumption DEF TypeOK
<1>2. CASE cron[k] = None
    BY <1>2 DEF Advanced, TypeOK
<1>3. CASE cron[k] # None
    <2>1. cron[k] \in CronRow BY <1>3 DEF TypeOK
    <2>2. [cron[k] EXCEPT !.next = NextAfter(entries[w][k], now[w])] \in CronRow
        BY <1>1, <2>1 DEF CronRow
    <2> QED BY <1>3, <2>2 DEF Advanced, TypeOK
<1> QED BY <1>2, <1>3

\* A process that dies, with its runs, leaves a typed state.
LEMMA DiesType ==
    ASSUME TypeInv, NEW w \in Workers, Dies(w), faults' \in 0..MaxFaults
    PROVE  TypeInv'
<1> USE DEF TypeInv
<1>1. runs' \in Seq(Run)
    <2>1. \A i \in 1..Len(runs) : runs[i] \in Run BY DEF TypeOK
    <2>2. \A i \in 1..Len(runs) : [runs[i] EXCEPT !.status = Orphaned(runs[i].status)] \in Run
        BY <2>1, OrphanedType DEF Run
    <2> DEFINE e(i) == IF runs[i].by = w THEN [runs[i] EXCEPT !.status = Orphaned(@)] ELSE runs[i]
    <2>3. \A i \in 1..Len(runs) : e(i) \in Run BY <2>1, <2>2
    <2>4. Len(runs) \in Nat BY DEF TypeOK
    <2>5. runs' = [i \in 1..Len(runs) |-> e(i)] BY DEF Dies
    <2> HIDE DEF e
    <2> QED BY <2>3, <2>4, <2>5
<1>2. TypeOK'
    BY <1>1, SchedulerAssumption DEF TypeOK, Dies, Released, Location, tick
<1>3. HasSpec' BY DEF HasSpec, Dies, tick, InTick, TypeOK
<1> QED BY <1>2, <1>3

\* Every step keeps the types.
LEMMA TypeStep == TypeInv /\ [Next]_vars => TypeInv'
<1> SUFFICES ASSUME TypeInv, [Next]_vars PROVE TypeInv' OBVIOUS
<1> USE SchedulerAssumption DEF TypeInv, tables, tick
<1>a. ASSUME NEW kind, Fault(kind) PROVE faults' \in 0..MaxFaults
    BY <1>a DEF Fault, TypeOK
<1>1. CASE Clock
    <2>1. TypeOK' BY <1>1 DEF Clock, TypeOK
    <2>2. HasSpec' BY <1>1 DEF Clock, HasSpec
    <2> QED BY <2>1, <2>2
<1>2. ASSUME NEW k \in Schedules, NEW s \in Specs \cup {None}, Deploy(k, s) PROVE TypeInv'
    <2>1. faults' \in 0..MaxFaults BY <1>2, <1>a DEF Deploy
    <2>2. TypeOK' BY <1>2, <2>1 DEF Deploy, TypeOK
    <2>3. HasSpec' BY <1>2 DEF Deploy, HasSpec
    <2> QED BY <2>2, <2>3
<1>3. ASSUME NEW w \in Workers, Start(w) PROVE TypeInv'
    <2>1. TypeOK' BY <1>3 DEF Start, TypeOK, Location
    <2>2. HasSpec' BY <1>3 DEF Start, HasSpec, TypeOK, InTick
    <2> QED BY <2>1, <2>2
<1>4. ASSUME NEW w \in Workers, Refresh(w) PROVE TypeInv'
    <2>1. TypeOK' BY <1>4 DEF Refresh, TypeOK
    <2>2. HasSpec' BY <1>4 DEF Refresh, HasSpec
    <2> QED BY <2>1, <2>2
<1>5. ASSUME NEW w \in Workers, Acquire(w) PROVE TypeInv'
    <2>1. TypeOK' BY <1>5 DEF Acquire, TypeOK, Location, Leading
    <2>2. HasSpec' BY <1>5 DEF Acquire, HasSpec, TypeOK, InTick
    <2> QED BY <2>1, <2>2
<1>6. ASSUME NEW w \in Workers, Ping(w) PROVE TypeInv'
    <2>1. TypeOK' BY <1>6 DEF Ping, TypeOK, Location, Leading
    <2>2. HasSpec' BY <1>6 DEF Ping, HasSpec, TypeOK, InTick
    <2> QED BY <2>1, <2>2
<1>7. ASSUME NEW w \in Workers, BeginTick(w) PROVE TypeInv'
    <2>1. Declared(source[w]) \subseteq Schedules BY DEF Declared
    <2>2. TypeOK' BY <1>7, <2>1 DEF BeginTick, TypeOK, Location, Leading, InTick
    <2>3. HasSpec' BY <1>7 DEF BeginTick, HasSpec, TypeOK, InTick, Declared
    <2> QED BY <2>2, <2>3
<1>8. ASSUME NEW w \in Workers, NEW k \in Schedules, Upsert(w, k) PROVE TypeInv'
    <2>1. entries[w][k] \in Specs BY <1>8 DEF Upsert, HasSpec, TypeOK, InTick
    <2>2. Upserted(cron[k], entries[w][k], now[w]) \in CronRow
        BY <2>1, UpsertedType DEF TypeOK
    <2>3. TypeOK' BY <1>8, <2>2 DEF Upsert, TypeOK
    <2>4. HasSpec' BY <1>8 DEF Upsert, HasSpec, TypeOK
    <2> QED BY <2>3, <2>4
<1>9. ASSUME NEW w \in Workers, Prune(w) PROVE TypeInv'
    <2>1. TypeOK' BY <1>9 DEF Prune, TypeOK, Location, Leading, InTick
    <2>2. HasSpec' BY <1>9 DEF Prune, HasSpec, TypeOK, InTick
    <2> QED BY <2>1, <2>2
<1>10. ASSUME NEW w \in Workers, ReadDue(w) PROVE TypeInv'
    <2>1. \A k \in Schedules : cron[k] # None => cron[k].next \in Nat BY DEF TypeOK, CronRow
    <2>2. TypeOK' BY <1>10, <2>1 DEF ReadDue, TypeOK, Location, Leading, InTick, IsDue
    <2>3. HasSpec' BY <1>10 DEF ReadDue, HasSpec, TypeOK, InTick
    <2> QED BY <2>2, <2>3
<1>11. ASSUME NEW w \in Workers, NEW k \in Schedules, Fire(w, k) PROVE TypeInv'
    <2>1. entries[w][k] # None /\ due[w][k] \in Nat
        BY <1>11 DEF Fire, NextDue, HasSpec, TypeOK, InTick
    <2>2. PICK st \in RunStatus :
             runs' = Append(runs, [by |-> w, key |-> k, occ |-> due[w][k], at |-> now[w], status |-> st])
        BY <1>11 DEF Fire, RunStatus
    <2>3. [by |-> w, key |-> k, occ |-> due[w][k], at |-> now[w], status |-> st] \in Run
        BY <2>1 DEF Run, TypeOK
    <2>4. runs' \in Seq(Run) BY <2>2, <2>3 DEF TypeOK
    <2>5. cron' \in [Schedules -> CronRow \cup {None}]
        BY <1>11, <2>1, AdvancedType DEF Fire
    <2>6. TypeOK' BY <1>11, <2>4, <2>5 DEF Fire, TypeOK
    <2>7. HasSpec' BY <1>11 DEF Fire, HasSpec, TypeOK
    <2> QED BY <2>6, <2>7
<1>12. ASSUME NEW w \in Workers, NEW k \in Schedules, AdvanceFails(w, k) PROVE TypeInv'
    <2>1. entries[w][k] # None
        BY <1>12 DEF AdvanceFails, NextDue, HasSpec, TypeOK, InTick
    <2>2. cron' \in [Schedules -> CronRow \cup {None}]
        BY <1>12, <2>1, AdvancedType DEF AdvanceFails, TypeOK
    <2>3. faults' \in 0..MaxFaults BY <1>12, <1>a DEF AdvanceFails
    <2>4. TypeOK' BY <1>12, <2>2, <2>3 DEF AdvanceFails, TypeOK
    <2>5. HasSpec' BY <1>12 DEF AdvanceFails, HasSpec, TypeOK
    <2> QED BY <2>4, <2>5
<1>13. ASSUME NEW i \in 1..Len(runs), RecordSkip(i) PROVE TypeInv'
    <2>1. runs' \in Seq(Run) BY <1>13, RunStatusType DEF RecordSkip, RunStatus
    <2>2. faults' \in 0..MaxFaults BY <1>13, <1>a DEF RecordSkip, TypeOK
    <2>3. TypeOK' BY <1>13, <2>1, <2>2 DEF RecordSkip, TypeOK
    <2>4. HasSpec' BY <1>13 DEF RecordSkip, HasSpec
    <2> QED BY <2>3, <2>4
<1>14. ASSUME NEW w \in Workers, DueFails(w) PROVE TypeInv'
    <2>1. faults' \in 0..MaxFaults BY <1>14, <1>a DEF DueFails
    <2>2. TypeOK' BY <1>14, <2>1 DEF DueFails, TypeOK, Location, Leading, InTick
    <2>3. HasSpec' BY <1>14 DEF DueFails, HasSpec, TypeOK, InTick
    <2> QED BY <2>2, <2>3
<1>21. ASSUME NEW w \in Workers, PruneFails(w) PROVE TypeInv'
    <2>1. faults' \in 0..MaxFaults BY <1>21, <1>a DEF PruneFails
    <2>2. cron' \in [Schedules -> CronRow \cup {None}] BY <1>21 DEF PruneFails, TypeOK
    <2>3. TypeOK' BY <1>21, <2>1, <2>2 DEF PruneFails, TypeOK, Location, Leading, InTick
    <2>4. HasSpec' BY <1>21 DEF PruneFails, HasSpec, TypeOK, InTick
    <2> QED BY <2>3, <2>4
<1>22. ASSUME NEW w \in Workers, NEW k \in Schedules, UpsertFails(w, k) PROVE TypeInv'
    <2>1. faults' \in 0..MaxFaults BY <1>22, <1>a DEF UpsertFails
    <2>2. entries[w][k] \in Specs BY <1>22 DEF UpsertFails, HasSpec, TypeOK, InTick
    <2>3. Upserted(cron[k], entries[w][k], now[w]) \in CronRow
        BY <2>2, UpsertedType DEF TypeOK
    <2>4. cron' \in [Schedules -> CronRow \cup {None}] BY <1>22, <2>3 DEF UpsertFails, TypeOK
    <2>5. TypeOK' BY <1>22, <2>1, <2>4 DEF UpsertFails, TypeOK, Location, Leading
    <2>6. HasSpec' BY <1>22 DEF UpsertFails, HasSpec, TypeOK, InTick
    <2> QED BY <2>5, <2>6
<1>15. ASSUME NEW w \in Workers, EndTick(w) PROVE TypeInv'
    <2>1. TypeOK' BY <1>15 DEF EndTick, TypeOK, Location, Leading
    <2>2. HasSpec' BY <1>15 DEF EndTick, HasSpec, TypeOK, InTick
    <2> QED BY <2>1, <2>2
<1>16. ASSUME NEW i \in 1..Len(runs), StartRun(i) \/ FinishRun(i) PROVE TypeInv'
    <2>1. PICK st \in RunStatus : runs' = [runs EXCEPT ![i].status = st]
        BY <1>16 DEF StartRun, FinishRun, Ends, RunStatus
    <2>2. runs' \in Seq(Run) BY <2>1, RunStatusType
    <2>3. faults' \in 0..MaxFaults BY <1>16, <1>a DEF StartRun, FinishRun, TypeOK
    <2>4. inflight' \in [Workers -> SUBSET Schedules]
        BY <1>16 DEF StartRun, FinishRun, Ends, TypeOK
    <2>5. TypeOK' BY <1>16, <2>2, <2>3, <2>4 DEF StartRun, FinishRun, TypeOK
    <2>6. HasSpec' BY <1>16 DEF StartRun, FinishRun, HasSpec
    <2> QED BY <2>5, <2>6
<1>17. ASSUME NEW w \in Workers, Crash(w) \/ Exit(w) PROVE TypeInv'
    <2>1. faults' \in 0..MaxFaults BY <1>17, <1>a DEF Crash, Exit, TypeOK
    <2> QED BY <1>17, <2>1, DiesType DEF Crash, Exit
<1>18. ASSUME NEW w \in Workers, LoseSession(w) PROVE TypeInv'
    <2>1. faults' \in 0..MaxFaults BY <1>18, <1>a DEF LoseSession
    <2>2. TypeOK' BY <1>18, <2>1 DEF LoseSession, TypeOK
    <2>3. HasSpec' BY <1>18 DEF LoseSession, HasSpec
    <2> QED BY <2>2, <2>3
<1>19. ASSUME NEW w \in Workers, Cancel(w) PROVE TypeInv'
    <2>1. faults' \in 0..MaxFaults BY <1>19, <1>a DEF Cancel
    <2>2. TypeOK' BY <1>19, <2>1 DEF Cancel, TypeOK, Released, Location
    <2>3. HasSpec' BY <1>19 DEF Cancel, HasSpec, TypeOK, InTick
    <2> QED BY <2>2, <2>3
<1>20. CASE UNCHANGED vars
    <2>1. TypeOK' BY <1>20 DEF vars, TypeOK
    <2>2. HasSpec' BY <1>20 DEF vars, HasSpec
    <2> QED BY <2>1, <2>2
<1> QED
    BY <1>1, <1>2, <1>3, <1>4, <1>5, <1>6, <1>7, <1>8, <1>9, <1>10, <1>11, <1>12, <1>13,
       <1>14, <1>15, <1>16, <1>17, <1>18, <1>19, <1>20, <1>21, <1>22 DEF Next, WorkerStep

\* Every behaviour of the scheduler keeps its types, whatever faults happen.
THEOREM TypeCorrect == Spec => []TypeOK
<1>1. Spec => []TypeInv BY TypeInit, TypeStep, PTL DEF Spec
<1> QED BY <1>1, PTL DEF TypeInv

-----------------------------------------------------------------------------
(***************************************************************************)
(* A worker never overlaps its own runs.  The invariant says what the      *)
(* inflight map stands for: it marks every executing run whose schedule    *)
(* does not allow overlap, and a process that is down executes nothing.    *)
(***************************************************************************)

MarkedWhileExecuting ==
    \A i \in 1..Len(runs) :
        runs[i].status \in Executing =>
            /\ pc[runs[i].by] # "down"
            /\ runs[i].key \notin OverlapAllow => runs[i].key \in inflight[runs[i].by]

OverlapInv == MarkedWhileExecuting /\ OwnRunsNeverOverlap

\* A step that appends nothing, sets no firing executing, takes no mark of an
\* executing firing away and stops no process that executes one.
LEMMA OverlapFrame ==
    ASSUME TypeOK, TypeOK', OverlapInv,
           Len(runs') = Len(runs),
           \A i \in 1..Len(runs) :
              /\ runs'[i].by = runs[i].by
              /\ runs'[i].key = runs[i].key
              /\ runs'[i].status \in Executing => runs[i].status \in Executing,
           \A i \in 1..Len(runs) : runs'[i].status \in Executing =>
              /\ pc'[runs[i].by] # "down"
              /\ runs[i].key \notin OverlapAllow => runs[i].key \in inflight'[runs[i].by]
    PROVE  OverlapInv'
BY DEF OverlapInv, MarkedWhileExecuting, OwnRunsNeverOverlap

\* A step that leaves the firings and the marks alone and stops no process.
LEMMA OverlapKept ==
    ASSUME TypeOK, OverlapInv, UNCHANGED <<runs, inflight>>,
           \A w \in Workers : pc[w] # "down" => pc'[w] # "down"
    PROVE  OverlapInv'
<1>1. \A i \in 1..Len(runs) : runs[i].by \in Workers BY RunFields
<1> QED BY <1>1 DEF OverlapInv, MarkedWhileExecuting, OwnRunsNeverOverlap

\* A run that ends releases its own in-flight mark and nobody else's.
LEMMA RunEnds ==
    ASSUME TypeOK, TypeOK', OverlapInv, NEW i \in 1..Len(runs), NEW st \in RunStatus \ Executing,
           runs[i].status \in Executing, Ends(i, st), UNCHANGED pc
    PROVE  OverlapInv'
<1>1. runs[i] \in Run /\ (\A j \in 1..Len(runs) : runs[j] \in Run) BY DEF TypeOK
<1>2. Len(runs') = Len(runs) BY DEF Ends, TypeOK
<1>3. \A j \in 1..Len(runs) : j # i => runs'[j] = runs[j] BY DEF Ends, TypeOK
<1>4. runs'[i].by = runs[i].by /\ runs'[i].key = runs[i].key /\ runs'[i].status = st
    BY <1>1 DEF Ends, TypeOK, Run
<1>5. ASSUME NEW j \in 1..Len(runs), runs'[j].status \in Executing
      PROVE  /\ pc'[runs[j].by] # "down"
             /\ runs[j].key \notin OverlapAllow => runs[j].key \in inflight'[runs[j].by]
    <2>1. j # i BY <1>4, <1>5
    <2>2. runs[j].status \in Executing BY <1>3, <1>5, <2>1
    <2>3. pc[runs[j].by] # "down" BY <2>2 DEF OverlapInv, MarkedWhileExecuting
    <2>4. ASSUME runs[j].key \notin OverlapAllow PROVE runs[j].key \in inflight'[runs[j].by]
        <3>1. runs[j].key \in inflight[runs[j].by]
            BY <2>2, <2>4 DEF OverlapInv, MarkedWhileExecuting
        <3>2. ~(runs[j].by = runs[i].by /\ runs[j].key = runs[i].key)
            BY <2>1, <2>2, <2>4 DEF OverlapInv, OwnRunsNeverOverlap
        <3> QED BY <3>1, <3>2, <1>1 DEF Ends, TypeOK, Run
    <2> QED BY <2>3, <2>4
<1>6. \A j \in 1..Len(runs) :
         /\ runs'[j].by = runs[j].by
         /\ runs'[j].key = runs[j].key
         /\ runs'[j].status \in Executing => runs[j].status \in Executing
    BY <1>3, <1>4
<1> QED BY <1>2, <1>5, <1>6, OverlapFrame

\* Every step keeps the in-flight marks and the non-overlap they guard.
LEMMA OverlapStep == TypeOK /\ TypeOK' /\ OverlapInv /\ [Next]_vars => OverlapInv'
<1> SUFFICES ASSUME TypeOK, TypeOK', OverlapInv, [Next]_vars PROVE OverlapInv' OBVIOUS
<1> USE DEF tables, tick
<1>1. CASE Clock \/ UNCHANGED vars
    BY <1>1, OverlapKept DEF Clock, vars
<1>2. ASSUME NEW k \in Schedules, NEW s \in Specs \cup {None}, Deploy(k, s) PROVE OverlapInv'
    BY <1>2, OverlapKept DEF Deploy
<1>3. ASSUME NEW w \in Workers, Start(w) PROVE OverlapInv'
    <2>1. \A i \in 1..Len(runs) : runs[i].status \in Executing => runs[i].by # w
        BY <1>3 DEF Start, OverlapInv, MarkedWhileExecuting
    <2>2. \A i \in 1..Len(runs) : runs[i].by \in Workers BY RunFields
    <2> QED BY <1>3, <2>1, <2>2, OverlapFrame DEF Start, OverlapInv, MarkedWhileExecuting, TypeOK
<1>4. ASSUME NEW w \in Workers,
             Refresh(w) \/ Acquire(w) \/ Ping(w) \/ BeginTick(w) \/ Prune(w) \/ ReadDue(w)
             \/ EndTick(w) \/ PruneFails(w) \/ DueFails(w) \/ LoseSession(w) \/ Cancel(w)
      PROVE OverlapInv'
    <2>1. UNCHANGED <<runs, inflight>>
        BY <1>4 DEF Refresh, Acquire, Ping, BeginTick, Prune, ReadDue, EndTick, PruneFails,
                    DueFails, LoseSession, Cancel
    <2>2. \A v \in Workers : pc[v] # "down" => pc'[v] # "down"
        BY <1>4 DEF Refresh, Acquire, Ping, BeginTick, Prune, ReadDue, EndTick, PruneFails,
                    DueFails, LoseSession, Cancel, TypeOK
    <2> QED BY <2>1, <2>2, OverlapKept
<1>5. ASSUME NEW w \in Workers, NEW k \in Schedules,
             Upsert(w, k) \/ UpsertFails(w, k) \/ AdvanceFails(w, k)
      PROVE OverlapInv'
    <2>1. UNCHANGED <<runs, inflight>> BY <1>5 DEF Upsert, UpsertFails, AdvanceFails
    <2>2. \A v \in Workers : pc[v] # "down" => pc'[v] # "down"
        BY <1>5 DEF Upsert, UpsertFails, AdvanceFails, TypeOK
    <2> QED BY <2>1, <2>2, OverlapKept
<1>6. ASSUME NEW w \in Workers, NEW k \in Schedules, Fire(w, k) PROVE OverlapInv'
    <2> DEFINE n == Len(runs) + 1
               st == IF k \notin OverlapAllow /\ k \in inflight[w] THEN "skipping" ELSE "starting"
    <2>1. /\ Len(runs') = n
          /\ \A i \in 1..Len(runs) : runs'[i] = runs[i]
          /\ runs'[n].by = w /\ runs'[n].key = k /\ runs'[n].status = st
        BY <1>6 DEF Fire, TypeOK
    <2>2. pc[w] # "down" /\ pc' = pc BY <1>6 DEF Fire, NextDue
    <2>3. \A v \in Workers : inflight[v] \subseteq inflight'[v] BY <1>6 DEF Fire, TypeOK
    <2>4. k \in inflight'[w] BY <1>6 DEF Fire, TypeOK
    <2>5. \A i \in 1..Len(runs) : runs[i].by \in Workers BY RunFields
    <2>6. \A i \in 1..Len(runs') : i \in 1..Len(runs) \/ i = n BY <2>1 DEF TypeOK
    <2>7. MarkedWhileExecuting'
        BY <2>1, <2>2, <2>3, <2>4, <2>5, <2>6 DEF OverlapInv, MarkedWhileExecuting
    <2>8. ASSUME NEW i \in 1..Len(runs), runs[i].by = w, runs[i].key = k, k \notin OverlapAllow,
                 runs[i].status \in Executing
          PROVE  runs'[n].status \notin Executing
        <3>1. k \in inflight[w] BY <2>8 DEF OverlapInv, MarkedWhileExecuting
        <3> QED BY <2>1, <2>8, <3>1 DEF Executing
    <2>9. OwnRunsNeverOverlap'
        BY <2>1, <2>6, <2>8 DEF OverlapInv, OwnRunsNeverOverlap
    <2> QED BY <2>7, <2>9 DEF OverlapInv
<1>7. ASSUME NEW i \in 1..Len(runs), RecordSkip(i) PROVE OverlapInv'
    <2>1. PICK st \in RunStatus \ Executing : runs' = [runs EXCEPT ![i].status = st]
        BY <1>7 DEF RecordSkip, RunStatus, Executing
    <2>2. Len(runs') = Len(runs) BY <2>1, StatusSet
    <2>3. \A j \in 1..Len(runs) :
             /\ runs'[j].by = runs[j].by
             /\ runs'[j].key = runs[j].key
             /\ runs'[j].status \in Executing => runs[j].status \in Executing
        BY <2>1, StatusSet
    <2> QED BY <1>7, <2>2, <2>3, OverlapFrame DEF RecordSkip, OverlapInv, MarkedWhileExecuting
<1>8. ASSUME NEW i \in 1..Len(runs), StartRun(i) PROVE OverlapInv'
    <2>1. CASE runs' = [runs EXCEPT ![i].status = "running"] /\ UNCHANGED <<inflight, faults>>
        <3>1. Len(runs') = Len(runs) BY <2>1, StatusSet
        <3>2. runs[i].status \in Executing BY <1>8 DEF StartRun, Executing
        <3>3. \A j \in 1..Len(runs) :
                 /\ runs'[j].by = runs[j].by
                 /\ runs'[j].key = runs[j].key
                 /\ runs'[j].status \in Executing => runs[j].status \in Executing
            BY <2>1, <3>2, StatusSet
        <3> QED BY <1>8, <2>1, <3>1, <3>3, OverlapFrame
                DEF StartRun, OverlapInv, MarkedWhileExecuting
    <2>2. CASE Ends(i, "lost")
        BY <1>8, <2>2, RunEnds DEF StartRun, Executing, RunStatus
    <2> QED BY <1>8, <2>1, <2>2 DEF StartRun
<1>9. ASSUME NEW i \in 1..Len(runs), FinishRun(i) PROVE OverlapInv'
    <2>1. PICK st \in RunStatus \ Executing : Ends(i, st)
        BY <1>9 DEF FinishRun, RunStatus, Executing
    <2> QED BY <1>9, <2>1, RunEnds DEF FinishRun, Executing
<1>10. ASSUME NEW w \in Workers, Crash(w) \/ Exit(w) PROVE OverlapInv'
    <2>1. Dies(w) BY <1>10 DEF Crash, Exit
    <2>2. \A j \in 1..Len(runs) : runs[j] \in Run BY DEF TypeOK
    <2>3. Len(runs') = Len(runs) BY <2>1 DEF Dies, TypeOK
    <2>4. \A j \in 1..Len(runs) :
             runs'[j] = IF runs[j].by = w THEN [runs[j] EXCEPT !.status = Orphaned(@)] ELSE runs[j]
        BY <2>1 DEF Dies
    <2>5. \A st \in RunStatus : Orphaned(st) \notin Executing
        BY DEF Orphaned, Executing, RunStatus
    <2>6. \A j \in 1..Len(runs) :
             /\ runs'[j].by = runs[j].by
             /\ runs'[j].key = runs[j].key
             /\ runs'[j].status \in Executing => runs[j].status \in Executing /\ runs[j].by # w
        BY <2>2, <2>4, <2>5 DEF Run
    <2>7. inflight' = inflight /\ \A v \in Workers \ {w} : pc'[v] = pc[v]
        BY <2>1 DEF Dies, TypeOK
    <2>8. \A j \in 1..Len(runs) : runs'[j].status \in Executing =>
              /\ pc'[runs[j].by] # "down"
              /\ runs[j].key \notin OverlapAllow => runs[j].key \in inflight'[runs[j].by]
        BY <2>2, <2>6, <2>7 DEF OverlapInv, MarkedWhileExecuting, Run
    <2> QED BY <2>3, <2>6, <2>8, OverlapFrame
<1> QED
    BY <1>1, <1>2, <1>3, <1>4, <1>5, <1>6, <1>7, <1>8, <1>9, <1>10 DEF Next, WorkerStep

\* The inflight map does its work whatever is lost: two runs of a schedule that
\* one worker launched never execute at once, even across leaderships.
THEOREM OwnOverlap == Spec => []OwnRunsNeverOverlap
<1>1. Init => OverlapInv
    BY DEF Init, OverlapInv, MarkedWhileExecuting, OwnRunsNeverOverlap
<1>2. Spec => []OverlapInv BY <1>1, OverlapStep, TypeCorrect, PTL DEF Spec
<1> QED BY <1>2, PTL DEF OverlapInv

-----------------------------------------------------------------------------
(***************************************************************************)
(* Without a lost lock session there is one leader at a time, so what a    *)
(* tick read is still true when it is used: the due rows it holds are as   *)
(* they are in the table, and every earlier firing was decided no later    *)
(* than this tick began.                                                   *)
(***************************************************************************)

OneLeader == \A w \in Workers : pc[w] \in Leading => lock = w

FiredByNow ==
    /\ \A i \in 1..Len(runs) : runs[i].at <= clock
    /\ \A w \in Workers : now[w] <= clock
    /\ \A w \in Workers : pc[w] \in InTick => \A i \in 1..Len(runs) : runs[i].at <= now[w]

DueIsCurrent ==
    \A w \in Workers : \A k \in Schedules :
        pc[w] = "fire" /\ due[w][k] # None => cron[k] # None /\ cron[k].next = due[w][k]

NextIsAhead ==
    \A i \in 1..Len(runs) :
        cron[runs[i].key] # None => runs[i].at < cron[runs[i].key].next

FiringInv == OneLeader /\ FiredByNow /\ DueIsCurrent /\ NextIsAhead /\ CatchUpOnce

\* A step that leaves the firings, the table and the clocks alone, and moves
\* the leadership only in ways that keep it unique.
LEMMA FiringKept ==
    ASSUME TypeOK, FiringInv, UNCHANGED <<clock, cron, now, due>>, OneLeader',
           Len(runs') = Len(runs),
           \A i \in 1..Len(runs) : /\ runs'[i].key = runs[i].key
                                   /\ runs'[i].occ = runs[i].occ
                                   /\ runs'[i].at = runs[i].at,
           \A w \in Workers : pc'[w] \in InTick => pc'[w] = pc[w]
    PROVE  FiringInv'
<1> USE DEF FiringInv
<1>1. FiredByNow' BY DEF FiredByNow
<1>2. DueIsCurrent' BY DEF DueIsCurrent, InTick
<1>3. NextIsAhead' BY DEF NextIsAhead
<1>4. CatchUpOnce' BY DEF CatchUpOnce
<1> QED BY <1>1, <1>2, <1>3, <1>4

\* Every step keeps the at-most-once bookkeeping of occurrences while no leader loses its session.
LEMMA FiringStep ==
    ASSUME "session" \notin FaultKinds, TypeInv, TypeInv', FiringInv, [Next]_vars
    PROVE  FiringInv'
<1> USE SchedulerAssumption DEF tables, tick, TypeInv
<1>0. /\ Len(runs) \in Nat
      /\ \A i \in 1..Len(runs) :
            runs[i].by \in Workers /\ runs[i].key \in Schedules /\ runs[i].occ \in Nat /\ runs[i].at \in Nat
    BY RunFields
<1>a. ASSUME UNCHANGED <<lock, pc>> PROVE OneLeader'
    BY <1>a DEF FiringInv, OneLeader
<1>1. CASE Clock
    <2>1. clock' = clock + 1 /\ clock \in Nat BY <1>1 DEF Clock, TypeOK
    <2>2. UNCHANGED <<cron, runs, lock, pc, now, due>> BY <1>1 DEF Clock
    <2>3. FiredByNow' BY <2>1, <2>2, <1>0 DEF FiringInv, FiredByNow, TypeOK
    <2> QED BY <1>a, <2>2, <2>3 DEF FiringInv, DueIsCurrent, NextIsAhead, CatchUpOnce
<1>2. ASSUME NEW k \in Schedules, NEW s \in Specs \cup {None}, Deploy(k, s) PROVE FiringInv'
    BY <1>2, <1>a, FiringKept DEF Deploy
<1>3. CASE UNCHANGED vars
    BY <1>3, <1>a, FiringKept DEF vars
<1>4. ASSUME NEW w \in Workers,
             Start(w) \/ Refresh(w) \/ Acquire(w) \/ Ping(w) \/ EndTick(w) \/ Cancel(w)
      PROVE FiringInv'
    <2>1. UNCHANGED <<clock, cron, now, due, runs>>
        BY <1>4 DEF Start, Refresh, Acquire, Ping, EndTick, Cancel
    <2>2. OneLeader'
        BY <1>4 DEF Start, Refresh, Acquire, Ping, EndTick, Cancel, Released, FiringInv,
                    OneLeader, Leading, InTick, TypeOK
    <2>3. \A v \in Workers : pc'[v] \in InTick => pc'[v] = pc[v]
        BY <1>4 DEF Start, Refresh, Acquire, Ping, EndTick, Cancel, InTick, TypeOK
    <2> QED BY <2>1, <2>2, <2>3, FiringKept
<1>5. ASSUME NEW w \in Workers, BeginTick(w) PROVE FiringInv'
    <2>1. OneLeader' BY <1>5 DEF BeginTick, FiringInv, OneLeader, Leading, InTick, TypeOK
    <2>2. FiredByNow' BY <1>5, <1>0 DEF BeginTick, FiringInv, FiredByNow, TypeOK
    <2>3. DueIsCurrent' BY <1>5 DEF BeginTick, FiringInv, DueIsCurrent, TypeOK
    <2>4. NextIsAhead' BY <1>5 DEF BeginTick, FiringInv, NextIsAhead
    <2>5. CatchUpOnce' BY <1>5 DEF BeginTick, FiringInv, CatchUpOnce
    <2> QED BY <2>1, <2>2, <2>3, <2>4, <2>5 DEF FiringInv
<1>6. ASSUME NEW w \in Workers, NEW k \in Schedules, Upsert(w, k) \/ UpsertFails(w, k)
      PROVE FiringInv'
    <2>0. UNCHANGED <<clock, runs, lock, now, due>> BY <1>6 DEF Upsert, UpsertFails
    <2>1. OneLeader'
        BY <1>6 DEF Upsert, UpsertFails, FiringInv, OneLeader, Leading, InTick, TypeOK
    <2>2. \A v \in Workers : pc[v] # "fire" /\ pc'[v] # "fire"
        BY <1>6 DEF Upsert, UpsertFails, FiringInv, OneLeader, Leading, InTick, TypeOK
    <2>3. DueIsCurrent' BY <2>2 DEF DueIsCurrent
    <2>4. entries[w][k] \in Specs BY <1>6 DEF Upsert, UpsertFails, HasSpec, TypeOK, InTick
    <2>5. \/ cron'[k] = cron[k]
          \/ cron'[k] \in CronRow
             /\ (cron'[k].next > now[w] \/ (cron[k] # None /\ cron'[k].next = cron[k].next))
        BY <1>6, <2>4, NextAfterAssumption DEF Upsert, UpsertFails, Upserted, TypeOK, CronRow
    <2>6. \A j \in Schedules : j # k => cron'[j] = cron[j] BY <1>6 DEF Upsert, UpsertFails, TypeOK
    <2>7. \A i \in 1..Len(runs) : runs[i].at <= now[w]
        BY <1>6 DEF Upsert, UpsertFails, FiringInv, FiredByNow, InTick
    <2>8. ASSUME NEW i \in 1..Len(runs), cron'[runs[i].key] # None
          PROVE  runs[i].at < cron'[runs[i].key].next
        <3>1. CASE runs[i].key # k \/ cron'[k] = cron[k]
            BY <3>1, <2>6, <2>8, <1>0 DEF FiringInv, NextIsAhead
        <3>2. CASE runs[i].key = k /\ cron'[k] \in CronRow /\ cron'[k].next > now[w]
            BY <3>2, <2>7, <1>0 DEF TypeOK, CronRow
        <3>3. CASE runs[i].key = k /\ cron[k] # None /\ cron'[k].next = cron[k].next
            BY <3>3 DEF FiringInv, NextIsAhead
        <3> QED BY <2>5, <3>1, <3>2, <3>3
    <2>9. FiredByNow' BY <1>6, <2>0 DEF Upsert, UpsertFails, FiringInv, FiredByNow, InTick, TypeOK
    <2>10. CatchUpOnce' BY <2>0 DEF FiringInv, CatchUpOnce
    <2> QED BY <2>0, <2>1, <2>3, <2>8, <2>9, <2>10 DEF FiringInv, NextIsAhead
<1>7. ASSUME NEW w \in Workers, Prune(w) \/ PruneFails(w) PROVE FiringInv'
    <2>1. OneLeader' BY <1>7 DEF Prune, PruneFails, FiringInv, OneLeader, Leading, InTick, TypeOK
    <2>0. /\ pc[w] = "upsert" /\ pc' = [pc EXCEPT ![w] = "due"]
          /\ UNCHANGED <<clock, runs, now>>
        BY <1>7 DEF Prune, PruneFails
    <2>2. FiredByNow' BY <2>0 DEF FiringInv, FiredByNow, InTick, TypeOK
    <2>3. \A v \in Workers : pc'[v] # "fire"
        BY <1>7 DEF Prune, PruneFails, FiringInv, OneLeader, Leading, InTick, TypeOK
    <2>4. DueIsCurrent' BY <2>3 DEF DueIsCurrent
    <2>5. runs' = runs /\ \A k \in Schedules : cron'[k] \in {None, cron[k]}
        BY <1>7 DEF Prune, PruneFails
    <2>6. NextIsAhead' BY <2>5, <1>0 DEF FiringInv, NextIsAhead
    <2>7. CatchUpOnce' BY <2>5 DEF FiringInv, CatchUpOnce
    <2> QED BY <2>1, <2>2, <2>4, <2>6, <2>7 DEF FiringInv
<1>8. ASSUME NEW w \in Workers, ReadDue(w) PROVE FiringInv'
    <2>1. OneLeader' BY <1>8 DEF ReadDue, FiringInv, OneLeader, Leading, InTick, TypeOK
    <2>2. FiredByNow' BY <1>8, <1>0 DEF ReadDue, FiringInv, FiredByNow, InTick, TypeOK
    <2>3. \A v \in Workers \ {w} : pc'[v] # "fire"
        BY <1>8 DEF ReadDue, FiringInv, OneLeader, Leading, InTick, TypeOK
    <2>4. DueIsCurrent' BY <1>8, <2>3 DEF ReadDue, DueIsCurrent, IsDue, TypeOK
    <2>5. NextIsAhead' /\ CatchUpOnce' BY <1>8 DEF ReadDue, FiringInv, NextIsAhead, CatchUpOnce
    <2> QED BY <2>1, <2>2, <2>4, <2>5 DEF FiringInv
<1>9. ASSUME NEW w \in Workers, NEW k \in Schedules, NextDue(w, k), cron' = Advanced(w, k)
      PROVE  /\ cron[k] # None /\ cron[k].next = due[w][k]
             /\ cron'[k] \in CronRow /\ cron'[k].next > now[w]
             /\ \A j \in Schedules : j # k => cron'[j] = cron[j]
    <2>1. cron[k] # None /\ cron[k].next = due[w][k]
        BY <1>9 DEF NextDue, FiringInv, DueIsCurrent
    <2>2. entries[w][k] \in Specs BY <1>9 DEF NextDue, HasSpec, TypeOK, InTick
    <2>3. NextAfter(entries[w][k], now[w]) \in Nat /\ NextAfter(entries[w][k], now[w]) > now[w]
        BY <2>2, NextAfterAssumption DEF TypeOK
    <2>4. cron[k] \in CronRow BY <2>1 DEF TypeOK
    <2>5. cron'[k] = [cron[k] EXCEPT !.next = NextAfter(entries[w][k], now[w])]
        BY <1>9, <2>1 DEF Advanced, TypeOK
    <2>6. cron'[k] \in CronRow /\ cron'[k].next = NextAfter(entries[w][k], now[w])
        BY <2>3, <2>4, <2>5 DEF CronRow
    <2> QED BY <1>9, <2>1, <2>3, <2>6 DEF Advanced, TypeOK
<1>10. ASSUME NEW w \in Workers, NEW k \in Schedules, NextDue(w, k)
       PROVE  /\ \A i \in 1..Len(runs) : runs[i].at <= now[w]
              /\ \A v \in Workers \ {w} : pc[v] \notin Leading
    <2>1. pc[w] = "fire" BY <1>10 DEF NextDue
    <2> QED BY <2>1 DEF FiringInv, FiredByNow, OneLeader, InTick, Leading
<1>11. ASSUME NEW w \in Workers, NEW k \in Schedules, Fire(w, k) PROVE FiringInv'
    <2> DEFINE n == Len(runs) + 1
    <2>1. NextDue(w, k) /\ cron' = Advanced(w, k) BY <1>11 DEF Fire
    <2>2. /\ Len(runs') = n
          /\ \A i \in 1..Len(runs) : runs'[i] = runs[i]
          /\ runs'[n].key = k /\ runs'[n].occ = due[w][k] /\ runs'[n].at = now[w]
        BY <1>11 DEF Fire, TypeOK
    <2>3. \A i \in 1..Len(runs') : i \in 1..Len(runs) \/ i = n BY <2>2, <1>0
    <2>4. UNCHANGED <<clock, lock, pc, now>> BY <1>11 DEF Fire
    <2>5. \A i \in 1..Len(runs) : runs[i].at <= now[w] BY <1>10, <2>1
    <2>6. OneLeader' BY <1>a, <2>4
    <2>7. FiredByNow'
        <3>1. now[w] <= clock BY DEF FiringInv, FiredByNow
        <3>2. \A v \in Workers \ {w} : pc'[v] \notin InTick
            BY <1>10, <2>1, <2>4 DEF Leading
        <3>3. now[w] <= now[w] BY DEF TypeOK
        <3> QED BY <2>2, <2>3, <2>4, <2>5, <3>1, <3>2, <3>3 DEF FiringInv, FiredByNow
    <2>8. DueIsCurrent'
        <3>1. \A v \in Workers \ {w} : pc'[v] # "fire"
            BY <1>10, <2>1, <2>4 DEF Leading, InTick
        <3>2. \A j \in Schedules : due'[w][j] = IF j = k THEN None ELSE due[w][j]
            BY <1>11 DEF Fire, TypeOK
        <3>3. \A j \in Schedules : j # k => cron'[j] = cron[j] BY <1>9, <2>1
        <3> QED BY <2>4, <3>1, <3>2, <3>3 DEF FiringInv, DueIsCurrent
    <2>9. NextIsAhead'
        <3>1. cron'[k] \in CronRow /\ cron'[k].next > now[w]
              /\ \A j \in Schedules : j # k => cron'[j] = cron[j]
            BY <1>9, <2>1
        <3>2. ASSUME NEW i \in 1..Len(runs), cron'[runs[i].key] # None
              PROVE  runs[i].at < cron'[runs[i].key].next
            <4>0. runs[i].at <= now[w] BY <2>5
            <4>1. CASE runs[i].key = k BY <4>0, <4>1, <3>1, <1>0 DEF TypeOK, CronRow
            <4>2. CASE runs[i].key # k BY <4>2, <3>1, <3>2, <1>0 DEF FiringInv, NextIsAhead
            <4> QED BY <4>1, <4>2
        <3>3. runs'[n].at < cron'[k].next BY <2>2, <3>1 DEF TypeOK, CronRow
        <3> QED BY <2>2, <2>3, <3>2, <3>3 DEF NextIsAhead
    <2>10. CatchUpOnce'
        <3>1. ASSUME NEW i \in 1..Len(runs), runs[i].key = k PROVE runs[i].at < due[w][k]
            BY <3>1, <1>9, <2>1 DEF FiringInv, NextIsAhead
        <3>2. \A i \in 1..Len(runs') : i < n => i \in 1..Len(runs) BY <2>3
        <3>3. \A i \in 1..Len(runs') : ~(n < i) BY <2>2, <1>0
        <3> QED BY <2>2, <2>3, <3>1, <3>2, <3>3 DEF FiringInv, CatchUpOnce
    <2> QED BY <2>6, <2>7, <2>8, <2>9, <2>10 DEF FiringInv
<1>12. ASSUME NEW w \in Workers, NEW k \in Schedules, AdvanceFails(w, k) PROVE FiringInv'
    <2>1. NextDue(w, k) BY <1>12 DEF AdvanceFails
    <2>2. UNCHANGED <<clock, runs, lock, pc, now>> BY <1>12 DEF AdvanceFails
    <2>3. OneLeader' /\ FiredByNow' /\ CatchUpOnce'
        BY <2>2, <1>a DEF FiringInv, FiredByNow, CatchUpOnce
    <2>4. \A v \in Workers \ {w} : pc'[v] # "fire" BY <1>10, <2>1, <2>2 DEF Leading, InTick
    <2>5. \A j \in Schedules : due'[w][j] = IF j = k THEN None ELSE due[w][j]
        BY <1>12 DEF AdvanceFails, TypeOK
    <2>6. CASE cron' = cron
        BY <2>2, <2>3, <2>4, <2>5, <2>6 DEF FiringInv, DueIsCurrent, NextIsAhead
    <2>7. CASE cron' = Advanced(w, k)
        <3>1. cron'[k] \in CronRow /\ cron'[k].next > now[w]
              /\ \A j \in Schedules : j # k => cron'[j] = cron[j]
            BY <1>9, <2>1, <2>7
        <3>2. ASSUME NEW i \in 1..Len(runs), cron'[runs[i].key] # None
              PROVE  runs[i].at < cron'[runs[i].key].next
            <4>0. runs[i].at <= now[w] BY <1>10, <2>1
            <4>1. CASE runs[i].key = k BY <4>0, <4>1, <3>1, <1>0 DEF TypeOK, CronRow
            <4>2. CASE runs[i].key # k BY <4>2, <3>1, <3>2, <1>0 DEF FiringInv, NextIsAhead
            <4> QED BY <4>1, <4>2
        <3>3. NextIsAhead' BY <2>2, <3>2 DEF NextIsAhead
        <3>4. DueIsCurrent' BY <2>2, <2>4, <2>5, <3>1 DEF FiringInv, DueIsCurrent
        <3> QED BY <2>3, <3>3, <3>4 DEF FiringInv
    <2> QED BY <1>12, <2>6, <2>7 DEF AdvanceFails
<1>13. ASSUME NEW i \in 1..Len(runs), RecordSkip(i) \/ StartRun(i) \/ FinishRun(i) PROVE FiringInv'
    <2>1. PICK st : runs' = [runs EXCEPT ![i].status = st]
        BY <1>13 DEF RecordSkip, StartRun, FinishRun, Ends
    <2>2. UNCHANGED <<clock, cron, now, due, lock, pc>> BY <1>13 DEF RecordSkip, StartRun, FinishRun
    <2>3. Len(runs') = Len(runs)
          /\ \A j \in 1..Len(runs) : runs'[j].key = runs[j].key /\ runs'[j].occ = runs[j].occ
                                     /\ runs'[j].at = runs[j].at
        BY <2>1, StatusSet
    <2> QED BY <2>2, <2>3, <1>a, FiringKept
<1>14. ASSUME NEW w \in Workers, DueFails(w) PROVE FiringInv'
    <2>1. UNCHANGED <<clock, cron, now, due, runs, lock>> BY <1>14 DEF DueFails
    <2>2. OneLeader' BY <1>14 DEF DueFails, FiringInv, OneLeader, Leading, InTick, TypeOK
    <2>3. FiredByNow' BY <1>14 DEF DueFails, FiringInv, FiredByNow, InTick, TypeOK
    <2>4. \A v \in Workers : pc'[v] = "fire" => pc[v] = "fire" BY <1>14 DEF DueFails, TypeOK
    <2>5. DueIsCurrent' BY <2>1, <2>4 DEF FiringInv, DueIsCurrent
    <2>6. NextIsAhead' /\ CatchUpOnce' BY <2>1 DEF FiringInv, NextIsAhead, CatchUpOnce
    <2> QED BY <2>2, <2>3, <2>5, <2>6 DEF FiringInv
<1>15. ASSUME NEW w \in Workers, Crash(w) \/ Exit(w) PROVE FiringInv'
    <2>1. Dies(w) BY <1>15 DEF Crash, Exit
    <2>2. UNCHANGED <<clock, cron, now, due>> BY <2>1 DEF Dies
    <2>3. OneLeader' BY <2>1 DEF Dies, Released, FiringInv, OneLeader, Leading, InTick, TypeOK
    <2>4. Len(runs') = Len(runs) BY <2>1, <1>0 DEF Dies
    <2>5. ASSUME NEW j \in 1..Len(runs)
          PROVE runs'[j].key = runs[j].key /\ runs'[j].occ = runs[j].occ /\ runs'[j].at = runs[j].at
        <3>1. runs[j] \in Run BY RunFields
        <3>2. runs'[j] = IF runs[j].by = w THEN [runs[j] EXCEPT !.status = Orphaned(@)] ELSE runs[j]
            BY <2>1 DEF Dies
        <3> QED BY <3>1, <3>2 DEF Run
    <2>6. \A v \in Workers : pc'[v] \in InTick => pc'[v] = pc[v] BY <2>1 DEF Dies, TypeOK, InTick
    <2> QED BY <2>2, <2>3, <2>4, <2>5, <2>6, FiringKept
<1>16. ASSUME NEW w \in Workers, LoseSession(w) PROVE FiringInv'
    BY <1>16 DEF LoseSession, Fault
<1> QED
    BY <1>1, <1>2, <1>3, <1>4, <1>5, <1>6, <1>7, <1>8, <1>11, <1>12, <1>13, <1>14, <1>15, <1>16
    DEF Next, WorkerStep

\* As long as the lock session of a living process is never lost, whatever else
\* fails, missed occurrences collapse into one catch-up firing and no
\* occurrence is fired twice.
THEOREM CatchUp == ASSUME "session" \notin FaultKinds PROVE Spec => []CatchUpOnce
<1>1. Init => FiringInv
    BY SchedulerAssumption DEF Init, FiringInv, OneLeader, FiredByNow, DueIsCurrent, NextIsAhead, CatchUpOnce,
       Leading, InTick
<1>2. TypeInv /\ TypeInv' /\ FiringInv /\ [Next]_vars => FiringInv' BY FiringStep
<1>3. Spec => []TypeInv BY TypeInit, TypeStep, PTL DEF Spec
<1>4. Spec => []FiringInv BY <1>1, <1>2, <1>3, PTL DEF Spec
<1>5. FiringInv => CatchUpOnce BY DEF FiringInv
<1> QED BY <1>4, <1>5, PTL

-----------------------------------------------------------------------------
(***************************************************************************)
(* Without a lost session and without a signal, a worker stops leading only *)
(* by dying, and its runs die with it: whoever executes a run leads.        *)
(***************************************************************************)

ExecutorLeads ==
    /\ \A w \in Workers : pc[w] \in Leading => lock = w
    /\ \A w \in Workers : lock = w => pc[w] \in Leading
    /\ \A i \in 1..Len(runs) : runs[i].status \in Executing => lock = runs[i].by

\* Every step keeps whoever executes a run the leader.
LEMMA ExecutorLeadsStep ==
    ASSUME FaultKinds \cap {"session", "cancel"} = {}, TypeOK, ExecutorLeads, OverlapInv, [Next]_vars
    PROVE  ExecutorLeads'
<1> USE SchedulerAssumption DEF tables, tick
<1>0. \A i \in 1..Len(runs) : runs[i].by \in Workers /\ runs[i].status \in RunStatus BY RunFields
<1>1. CASE UNCHANGED <<lock, pc, runs>>
    BY <1>1 DEF ExecutorLeads
<1>2. ASSUME NEW w \in Workers, Start(w) \/ Acquire(w) PROVE ExecutorLeads'
    <2>1. runs' = runs BY <1>2 DEF Start, Acquire
    <2>2. \A v \in Workers : pc'[v] \in Leading => lock' = v
        BY <1>2 DEF Start, Acquire, ExecutorLeads, Leading, InTick, TypeOK
    <2>3. \A v \in Workers : lock' = v => pc'[v] \in Leading
        BY <1>2 DEF Start, Acquire, ExecutorLeads, Leading, InTick, TypeOK
    <2>4. \A i \in 1..Len(runs) : runs[i].status \in Executing => lock' = runs[i].by
        BY <1>2, <1>0 DEF Start, Acquire, ExecutorLeads
    <2> QED BY <2>1, <2>2, <2>3, <2>4 DEF ExecutorLeads
<1>3. ASSUME NEW w \in Workers,
             Ping(w) \/ BeginTick(w) \/ Prune(w) \/ ReadDue(w) \/ EndTick(w)
             \/ PruneFails(w) \/ DueFails(w) \/ \E k \in Schedules : UpsertFails(w, k)
      PROVE ExecutorLeads'
    <2>1. UNCHANGED <<runs, lock>> BY <1>3 DEF Ping, BeginTick, Prune, ReadDue, EndTick, PruneFails, DueFails, UpsertFails
    <2>2. \A v \in Workers : pc'[v] \in Leading <=> pc[v] \in Leading
        BY <1>3 DEF Ping, BeginTick, Prune, ReadDue, EndTick, PruneFails, DueFails, UpsertFails,
                    ExecutorLeads, Leading, InTick, TypeOK
    <2> QED BY <2>1, <2>2 DEF ExecutorLeads
<1>4. ASSUME NEW w \in Workers, NEW k \in Schedules, Fire(w, k) PROVE ExecutorLeads'
    <2>1. UNCHANGED <<lock, pc>> /\ pc[w] = "fire" BY <1>4 DEF Fire, NextDue
    <2>2. /\ Len(runs') = Len(runs) + 1
          /\ \A i \in 1..Len(runs) : runs'[i] = runs[i]
          /\ runs'[Len(runs) + 1].by = w
        BY <1>4 DEF Fire, TypeOK
    <2>3. \A i \in 1..Len(runs') : i \in 1..Len(runs) \/ i = Len(runs) + 1
        BY <2>2, RunFields
    <2>4. lock = w BY <2>1 DEF ExecutorLeads, Leading, InTick
    <2> QED BY <2>1, <2>2, <2>3, <2>4 DEF ExecutorLeads
<1>5. ASSUME NEW i \in 1..Len(runs), RecordSkip(i) \/ StartRun(i) \/ FinishRun(i) PROVE ExecutorLeads'
    <2>1. PICK st \in RunStatus : /\ runs' = [runs EXCEPT ![i].status = st]
                                  /\ st \in Executing => runs[i].status \in Executing
        <3>1. CASE RecordSkip(i) BY <3>1 DEF RecordSkip, RunStatus, Executing
        <3>2. CASE StartRun(i) BY <3>2 DEF StartRun, Ends, RunStatus, Executing
        <3>3. CASE FinishRun(i) BY <3>3 DEF FinishRun, Ends, RunStatus, Executing
        <3> QED BY <1>5, <3>1, <3>2, <3>3
    <2>2. UNCHANGED <<lock, pc>> BY <1>5 DEF RecordSkip, StartRun, FinishRun
    <2>3. Len(runs') = Len(runs)
          /\ \A j \in 1..Len(runs) : runs'[j].by = runs[j].by
                /\ (runs'[j].status \in Executing => runs[j].status \in Executing)
        BY <2>1, StatusSet
    <2> QED BY <2>2, <2>3 DEF ExecutorLeads
<1>6. ASSUME NEW w \in Workers, Crash(w) \/ Exit(w) PROVE ExecutorLeads'
    <2>1. Dies(w) BY <1>6 DEF Crash, Exit
    <2>2. Len(runs') = Len(runs) BY <2>1, RunFields DEF Dies
    <2>3. ASSUME NEW j \in 1..Len(runs), runs'[j].status \in Executing
          PROVE  runs'[j].by = runs[j].by /\ runs[j].by # w /\ runs[j].status \in Executing
        <3>1. runs[j] \in Run BY RunFields
        <3>2. runs'[j] = IF runs[j].by = w THEN [runs[j] EXCEPT !.status = Orphaned(@)] ELSE runs[j]
            BY <2>1 DEF Dies
        <3>3. \A st \in RunStatus : Orphaned(st) \notin Executing
            BY DEF Orphaned, Executing, RunStatus
        <3>4. runs[j].by # w
            BY <2>3, <3>1, <3>2, <3>3 DEF Run
        <3> QED BY <2>3, <3>2, <3>4
    <2>4. \A v \in Workers : pc'[v] \in Leading => lock' = v
        BY <2>1 DEF Dies, Released, ExecutorLeads, Leading, InTick, TypeOK
    <2>5. \A v \in Workers : lock' = v => pc'[v] \in Leading
        BY <2>1 DEF Dies, Released, ExecutorLeads, Leading, InTick, TypeOK
    <2>6. \A j \in 1..Len(runs) : runs'[j].status \in Executing => lock' = runs'[j].by
        BY <2>1, <2>3 DEF Dies, Released, ExecutorLeads
    <2> QED BY <2>2, <2>4, <2>5, <2>6 DEF ExecutorLeads
<1>7. ASSUME NEW w \in Workers, LoseSession(w) \/ Cancel(w) PROVE ExecutorLeads'
    BY <1>7 DEF LoseSession, Cancel, Fault
<1>8. CASE Clock \/ UNCHANGED vars
    BY <1>1, <1>8 DEF Clock, vars
<1>9. ASSUME NEW w \in Workers, Refresh(w) PROVE ExecutorLeads'
    BY <1>1, <1>9 DEF Refresh
<1>10. ASSUME NEW w \in Workers, NEW k \in Schedules, Upsert(w, k) \/ AdvanceFails(w, k)
       PROVE ExecutorLeads'
    BY <1>1, <1>10 DEF Upsert, AdvanceFails
<1>11. ASSUME NEW k \in Schedules, NEW s \in Specs \cup {None}, Deploy(k, s) PROVE ExecutorLeads'
    BY <1>1, <1>11 DEF Deploy
<1> QED
    BY <1>2, <1>3, <1>4, <1>5, <1>6, <1>7, <1>8, <1>9, <1>10, <1>11 DEF Next, WorkerStep

\* overlap "skip" holds across workers as long as leaders only stop by dying:
\* two runs of one schedule never execute at once.
THEOREM Overlap == ASSUME FaultKinds \cap {"session", "cancel"} = {} PROVE Spec => []NoOverlap
<1>1. Init => ExecutorLeads /\ OverlapInv
    BY SchedulerAssumption DEF Init, ExecutorLeads, Leading, InTick, OverlapInv, MarkedWhileExecuting, OwnRunsNeverOverlap
<1>2. TypeOK /\ TypeOK' /\ ExecutorLeads /\ OverlapInv /\ [Next]_vars => (ExecutorLeads /\ OverlapInv)'
    BY ExecutorLeadsStep, OverlapStep
<1>3. ExecutorLeads /\ OverlapInv => NoOverlap
    BY DEF ExecutorLeads, OverlapInv, OwnRunsNeverOverlap, NoOverlap
<1>4. Spec => [](ExecutorLeads /\ OverlapInv) BY <1>1, <1>2, TypeCorrect, PTL DEF Spec
<1> QED BY <1>3, <1>4, PTL
=============================================================================
