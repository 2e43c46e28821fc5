---------------------------- MODULE OutboxProofs ----------------------------
(***************************************************************************)
(* The safety of the outbox for any number of rows, topics, tenants and    *)
(* workers, any batch size and any number of faults.                       *)
(***************************************************************************)
EXTENDS Outbox, TLAPS

(***************************************************************************)
(* The inductive invariant.                                                *)
(***************************************************************************)

\* Only a worker inside Drain holds an open transaction.
LocksOnlyInBatch ==
    \A w \in Workers : pc[w] # "batch" => \A r \in Rows : stage[w][r] = "no"

\* Process has answered for exactly the rows past "todo".
ResultsMatchStages ==
    \A w \in Workers, r \in Rows :
        result[w][r] = "none" <=> stage[w][r] \in {"no", "todo"}

\* A row lock is only ever held on a pending row: nobody else can settle it.
LockedRowsPending ==
    \A w \in Workers, r \in Rows : stage[w][r] # "no" => row[r] = "pending"

\* At most one worker has a row in its batch.
OneHolder ==
    \A v, w \in Workers, r \in Rows :
        (stage[v][r] # "no" /\ stage[w][r] # "no") => v = w

\* No attempt is charged before the row exists; afterwards the cap holds.
AttemptsAccount ==
    \A r \in Rows :
        /\ row[r] \in {"none", "open"} => attempts[r] = 0
        /\ row[r] = "pending" => attempts[r] < MaxAttempts
        /\ row[r] = "failed" => attempts[r] = MaxAttempts

\* A success the worker has in hand, or has committed, was a delivery.
SuccessWasDelivered ==
    /\ SentWasDelivered
    /\ \A w \in Workers, r \in Rows : result[w][r] = "ok" => deliveries[r] >= 1

\* The one delivery of a row that no rollback has taken back.
Standing(r) ==
    \/ row[r] \in {"sent", "purged"}
    \/ \E w \in Workers : result[w][r] = "ok"

DeliveriesAccount ==
    \A r \in Rows :
        /\ deliveries[r] <= lost[r] + 1
        /\ ~Standing(r) => deliveries[r] <= lost[r]

\* Foreign rows are never locked, let alone settled.
ForeignAccount ==
    /\ \A w \in Workers : owned[w] \subseteq MayOwn[w]
    /\ \A r \in Rows :
        (\A w \in Workers : TopicOf[r] \notin MayOwn[w]) =>
            /\ row[r] \notin Settled
            /\ attempts[r] = 0
            /\ deliveries[r] = 0
            /\ \A w \in Workers : stage[w][r] = "no"

IInv ==
    /\ TypeOK
    /\ LocksOnlyInBatch
    /\ ResultsMatchStages
    /\ LockedRowsPending
    /\ OneHolder
    /\ AttemptsAccount
    /\ SuccessWasDelivered
    /\ DeliveriesAccount
    /\ ForeignAccount

(***************************************************************************)
(* Type correctness.                                                       *)
(***************************************************************************)

\* A rollback keeps the types of the transaction's variables.
LEMMA RollbackType ==
    ASSUME NEW w \in Workers, TypeOK, Rollback(w)
    PROVE  /\ stage' \in [Workers -> [Rows -> Stage]]
           /\ result' \in [Workers -> [Rows -> Result]]
           /\ lost' \in [Rows -> Nat]
           /\ row' \in [Rows -> RowState]
           /\ attempts' \in [Rows -> Nat]
           /\ deliveries' \in [Rows -> Nat]
BY DEF TypeOK, Rollback, table, Stage, Result

\* So does leaving runListener with the worker's location and signals.
LEMMA DisconnectType ==
    ASSUME NEW w \in Workers, TypeOK, NEW to \in Location, Disconnect(w, to)
    PROVE  /\ pc' \in [Workers -> Location]
           /\ note' \in [Workers -> BOOLEAN]
           /\ wake' \in [Workers -> BOOLEAN]
BY DEF TypeOK, Disconnect

\* And a commit.
LEMMA SettleType ==
    ASSUME NEW w \in Workers, TypeOK, Settle(w)
    PROVE  /\ stage' \in [Workers -> [Rows -> Stage]]
           /\ result' \in [Workers -> [Rows -> Result]]
           /\ row' \in [Rows -> RowState]
           /\ attempts' \in [Rows -> Nat]
<1>1. \A r \in Rows : StateAfter(r, result[w][r]) \in RowState
  BY DEF TypeOK, StateAfter, RowState, Result
<1>2. QED
  BY <1>1 DEF TypeOK, Settle, Stage, Result

\* Every step of the engine and of the workers keeps the type invariant.
LEMMA TypeStep == TypeOK /\ [Next]_vars => TypeOK'
<1> SUFFICES ASSUME TypeOK, [Next]_vars PROVE TypeOK'
  OBVIOUS
<1> USE OutboxAssumption
<1> USE DEF table, history, drain, signals
<1>1. ASSUME NEW r \in Rows, Enqueue(r) \/ CommitTx(r) \/ RollbackTx(r)
      PROVE TypeOK'
  BY <1>1 DEF TypeOK, Enqueue, CommitTx, RollbackTx, RowState
<1>2. ASSUME NEW t \in Tenants, DeleteTenant(t) PROVE TypeOK'
  BY <1>2 DEF TypeOK, DeleteTenant, RowState
<1>3. ASSUME NEW w \in Workers, Start(w) \/ Connect(w) \/ Hear(w) \/ Tick(w) \/ Wake(w)
      PROVE TypeOK'
  BY <1>3 DEF TypeOK, Start, Connect, Hear, Tick, Wake, Location
<1>4. ASSUME NEW w \in Workers, Claim(w) PROVE TypeOK'
  BY <1>4 DEF TypeOK, Claim, Location, Stage
<1>5. ASSUME NEW w \in Workers, Process(w) PROVE TypeOK'
  <2>1. PICK r \in Rows, res \in Result :
          /\ stage' = [stage EXCEPT ![w][r] = "ran"]
          /\ result' = [result EXCEPT ![w][r] = res]
          /\ deliveries' = [deliveries EXCEPT ![r] = @ + IF res = "ok" THEN 1 ELSE 0]
    BY <1>5 DEF Process, Todo, Outcomes, Result
  <2>2. QED
    BY <1>5, <2>1 DEF TypeOK, Process, Stage
<1>6. ASSUME NEW w \in Workers, Record(w) PROVE TypeOK'
  BY <1>6 DEF TypeOK, Record, Stage
<1>7. ASSUME NEW w \in Workers, Commit(w) PROVE TypeOK'
  <2>1. Settle(w) BY <1>7 DEF Commit
  <2>2. QED BY <1>7, <2>1, SettleType DEF TypeOK, Commit, Location
<1>8. ASSUME NEW w \in Workers, CommitUnacked(w) PROVE TypeOK'
  <2>1. /\ stage' \in [Workers -> [Rows -> Stage]]
        /\ result' \in [Workers -> [Rows -> Result]]
        /\ row' \in [Rows -> RowState]
        /\ attempts' \in [Rows -> Nat]
    BY <1>8, SettleType DEF CommitUnacked
  <2>2. /\ pc' \in [Workers -> Location]
        /\ note' \in [Workers -> BOOLEAN]
        /\ wake' \in [Workers -> BOOLEAN]
    BY <1>8, DisconnectType DEF CommitUnacked, Location
  <2>3. faults' \in Nat
    BY <1>8 DEF CommitUnacked, Fault, TypeOK
  <2>4. UNCHANGED <<deliveries, lost, owned, cancelled>>
    BY <1>8 DEF CommitUnacked
  <2>5. QED
    BY <2>1, <2>2, <2>3, <2>4 DEF TypeOK
<1>9. ASSUME NEW w \in Workers, Drop(w) \/ Crash(w) \/ Stop(w) PROVE TypeOK'
  <2>1. /\ stage' \in [Workers -> [Rows -> Stage]]
        /\ result' \in [Workers -> [Rows -> Result]]
        /\ lost' \in [Rows -> Nat]
        /\ row' \in [Rows -> RowState]
        /\ attempts' \in [Rows -> Nat]
        /\ deliveries' \in [Rows -> Nat]
    BY <1>9, RollbackType DEF Drop, Crash, Stop
  <2>2. /\ pc' \in [Workers -> Location]
        /\ note' \in [Workers -> BOOLEAN]
        /\ wake' \in [Workers -> BOOLEAN]
    BY <1>9, DisconnectType DEF Drop, Crash, Stop, Location
  <2>3. faults' \in Nat
    BY <1>9 DEF Drop, Crash, Stop, Fault, TypeOK
  <2>4. owned' = owned /\ cancelled' \in [Workers -> BOOLEAN]
    BY <1>9 DEF Drop, Crash, Stop, TypeOK
  <2>5. QED
    BY <2>1, <2>2, <2>3, <2>4 DEF TypeOK
<1>10. ASSUME NEW w \in Workers, Refresh(w) \/ Cancel(w) PROVE TypeOK'
  <2>1. CASE Refresh(w)
    BY <2>1 DEF TypeOK, Refresh
  <2>2. CASE Cancel(w)
    <3>1. faults' \in Nat
      BY <2>2 DEF TypeOK, Cancel, Fault
    <3>2. cancelled' \in [Workers -> BOOLEAN]
      BY <2>2 DEF TypeOK, Cancel
    <3>3. QED
      BY <2>2, <3>1, <3>2 DEF TypeOK, Cancel
  <2>3. QED
    BY <1>10, <2>1, <2>2
<1>11. CASE UNCHANGED vars
  BY <1>11 DEF TypeOK, vars
<1>12. QED
  BY <1>1, <1>2, <1>3, <1>4, <1>5, <1>6, <1>7, <1>8, <1>9, <1>10, <1>11
  DEF Next, Engine, Worker, Environment

\* The outbox and its workers never leave their types.
THEOREM TypeCorrect == Spec => []TypeOK
<1>1. Init => TypeOK
  BY OutboxAssumption DEF Init, TypeOK, RowState, Stage, Result, Location
<1>2. QED
  BY <1>1, TypeStep, PTL DEF Spec

(***************************************************************************)
(* The safety invariants.                                                  *)
(***************************************************************************)

\* Steps that touch neither the table, nor the histories, nor a transaction,
\* nor where a worker is inside Drain.
LEMMA QuietStep ==
    ASSUME IInv, TypeOK',
           UNCHANGED <<row, attempts, deliveries, lost, stage, result, owned>>,
           \A w \in Workers : pc[w] = "batch" => pc'[w] = "batch"
    PROVE  IInv'
BY DEF IInv, LocksOnlyInBatch, ResultsMatchStages, LockedRowsPending, OneHolder,
       AttemptsAccount, SuccessWasDelivered, SentWasDelivered, DeliveriesAccount,
       Standing, ForeignAccount

\* A rollback outside of everybody else's transactions.
LEMMA RollbackStep ==
    ASSUME IInv, TypeOK', NEW w \in Workers, Rollback(w), owned' = owned,
           \A v \in Workers : v # w => pc'[v] = pc[v]
    PROVE  IInv'
<1> USE DEF IInv, Rollback, table
<1>1. LocksOnlyInBatch' /\ ResultsMatchStages' /\ LockedRowsPending' /\ OneHolder'
  BY DEF LocksOnlyInBatch, ResultsMatchStages, LockedRowsPending, OneHolder, TypeOK
<1>2. AttemptsAccount'
  BY DEF AttemptsAccount
<1>3. SuccessWasDelivered'
  BY DEF SuccessWasDelivered, SentWasDelivered, TypeOK
<1>4. DeliveriesAccount'
  <2> SUFFICES ASSUME NEW r \in Rows
               PROVE  /\ deliveries[r] <= lost'[r] + 1
                      /\ ~Standing(r)' => deliveries[r] <= lost'[r]
    BY DEF DeliveriesAccount
  <2>1. /\ deliveries[r] \in Nat /\ lost[r] \in Nat
        /\ lost'[r] = lost[r] + IF result[w][r] = "ok" THEN 1 ELSE 0
        /\ deliveries[r] <= lost[r] + 1
        /\ ~Standing(r) => deliveries[r] <= lost[r]
    BY DEF DeliveriesAccount, TypeOK
  <2>2. CASE result[w][r] = "ok"
    BY <2>1, <2>2
  <2>3. CASE result[w][r] # "ok"
    <3>1. ~Standing(r)' => ~Standing(r)
      BY <2>3 DEF Standing, TypeOK
    <3>2. QED
      BY <2>1, <2>3, <3>1
  <2>4. QED
    BY <2>2, <2>3
<1>5. ForeignAccount'
  BY DEF ForeignAccount, TypeOK
<1>6. QED
  BY <1>1, <1>2, <1>3, <1>4, <1>5

\* A commit, whatever the worker does next.
LEMMA SettleStep ==
    ASSUME IInv, TypeOK', NEW w \in Workers, Settle(w), owned' = owned,
           UNCHANGED <<deliveries, lost>>,
           \A v \in Workers : v # w => pc'[v] = pc[v]
    PROVE  IInv'
<1> USE OutboxAssumption DEF IInv, Settle
<1>0. \A r \in Rows :
        /\ result[w][r] \in Result
        /\ result[w][r] = "none" => row'[r] = row[r] /\ attempts'[r] = attempts[r]
        /\ result[w][r] # "none" => row[r] = "pending" /\ attempts'[r] = attempts[r] + 1
        /\ result[w][r] = "ok" => row'[r] = "sent"
        /\ result[w][r] = "discard" => row'[r] = "discarded"
        /\ result[w][r] = "err" =>
             row'[r] = IF attempts[r] + 1 >= MaxAttempts THEN "failed" ELSE "pending"
  <2> TAKE r \in Rows
  <2>1. result[w][r] \in Result
    BY DEF TypeOK
  <2>2. result[w][r] # "none" => row[r] = "pending"
    BY <2>1 DEF ResultsMatchStages, LockedRowsPending
  <2>3. QED
    BY <2>1, <2>2 DEF StateAfter, Exhausted, Result, TypeOK
<1>1. LocksOnlyInBatch' /\ ResultsMatchStages' /\ OneHolder'
  BY DEF LocksOnlyInBatch, ResultsMatchStages, OneHolder, TypeOK
<1>2. LockedRowsPending'
  <2> SUFFICES ASSUME NEW v \in Workers, NEW r \in Rows, stage'[v][r] # "no"
               PROVE  row'[r] = "pending"
    BY DEF LockedRowsPending
  <2>1. v # w /\ stage[v][r] # "no"
    BY DEF TypeOK
  <2>2. row[r] = "pending" /\ stage[w][r] = "no"
    BY <2>1 DEF LockedRowsPending, OneHolder
  <2>3. QED
    BY <1>0, <2>2 DEF ResultsMatchStages
<1>3. AttemptsAccount'
  <2> SUFFICES ASSUME NEW r \in Rows
               PROVE  /\ row'[r] \in {"none", "open"} => attempts'[r] = 0
                      /\ row'[r] = "pending" => attempts'[r] < MaxAttempts
                      /\ row'[r] = "failed" => attempts'[r] = MaxAttempts
    BY DEF AttemptsAccount
  <2>1. attempts[r] \in Nat
    BY DEF TypeOK
  <2>2. /\ row[r] \in {"none", "open"} => attempts[r] = 0
        /\ row[r] = "pending" => attempts[r] < MaxAttempts
        /\ row[r] = "failed" => attempts[r] = MaxAttempts
    BY DEF AttemptsAccount
  <2>3. CASE result[w][r] = "none"
    BY <1>0, <2>2, <2>3
  <2>4. CASE result[w][r] = "err"
    BY <1>0, <2>1, <2>2, <2>4
  <2>5. CASE result[w][r] \in {"ok", "discard"}
    BY <1>0, <2>5
  <2>6. QED
    BY <1>0, <2>3, <2>4, <2>5 DEF Result
<1>4. SuccessWasDelivered'
  <2>1. SentWasDelivered'
    BY <1>0 DEF SuccessWasDelivered, SentWasDelivered, Result
  <2>2. QED
    BY <2>1 DEF SuccessWasDelivered, TypeOK
<1>5. DeliveriesAccount'
  <2> SUFFICES ASSUME NEW r \in Rows, ~Standing(r)' PROVE ~Standing(r)
    BY DEF DeliveriesAccount
  <2>1. result[w][r] # "ok" /\ row[r] \notin {"sent", "purged"}
    BY <1>0 DEF Standing
  <2>2. \A v \in Workers : v # w => result[v][r] # "ok"
    BY DEF Standing, TypeOK
  <2>3. QED
    BY <2>1, <2>2 DEF Standing
<1>6. ForeignAccount'
  <2>1. \A r \in Rows : (\A v \in Workers : TopicOf[r] \notin MayOwn[v])
                          => stage[w][r] = "no" /\ result[w][r] = "none"
    BY DEF ForeignAccount, ResultsMatchStages
  <2>2. QED
    BY <1>0, <2>1 DEF ForeignAccount, TypeOK
<1>7. QED
  BY <1>1, <1>2, <1>3, <1>4, <1>5, <1>6

\* A claim locks pending rows of owned topics that nobody else holds.
LEMMA ClaimStep ==
    ASSUME IInv, TypeOK', NEW w \in Workers, Claim(w)
    PROVE  IInv'
<1> USE DEF IInv, Claim, table, history
<1>0. \A r \in Claimed(w) :
        /\ r \in Rows /\ row[r] = "pending" /\ TopicOf[r] \in owned[w]
        /\ \A v \in Workers : stage[v][r] = "no"
  BY DEF Claimed, Claimable, Locked
<1>1. \A r \in Rows : stage[w][r] = "no" /\ result[w][r] = "none"
  BY DEF LocksOnlyInBatch, ResultsMatchStages
<1>2. \A v \in Workers, r \in Rows :
        /\ v # w => stage'[v][r] = stage[v][r]
        /\ stage'[w][r] = IF r \in Claimed(w) THEN "todo" ELSE "no"
  BY <1>1 DEF TypeOK
<1>3. LocksOnlyInBatch'
  BY <1>2 DEF LocksOnlyInBatch, TypeOK
<1>4. ResultsMatchStages'
  BY <1>1, <1>2 DEF ResultsMatchStages
<1>5. LockedRowsPending'
  BY <1>0, <1>2 DEF LockedRowsPending
<1>6. OneHolder'
  BY <1>0, <1>2 DEF OneHolder
<1>7. AttemptsAccount' /\ SuccessWasDelivered' /\ DeliveriesAccount'
  BY DEF AttemptsAccount, SuccessWasDelivered, SentWasDelivered, DeliveriesAccount, Standing
<1>8. ForeignAccount'
  BY <1>0, <1>2 DEF ForeignAccount
<1>9. QED
  BY <1>3, <1>4, <1>5, <1>6, <1>7, <1>8

\* Processing a row of the batch delivers it at most once in this transaction.
LEMMA ProcessStep ==
    ASSUME IInv, TypeOK', NEW w \in Workers, Process(w)
    PROVE  IInv'
<1> USE DEF IInv
<1>1. PICK r \in Rows, res \in Result :
        /\ stage[w][r] = "todo"
        /\ res # "none"
        /\ stage' = [stage EXCEPT ![w][r] = "ran"]
        /\ result' = [result EXCEPT ![w][r] = res]
        /\ deliveries' = [deliveries EXCEPT ![r] = @ + IF res = "ok" THEN 1 ELSE 0]
  BY DEF Process, Todo, Outcomes, Result
<1>2. UNCHANGED <<row, attempts, lost, pc, owned>>
  BY DEF Process, table
<1>3. /\ \A v \in Workers, q \in Rows : (v # w \/ q # r) =>
           stage'[v][q] = stage[v][q] /\ result'[v][q] = result[v][q]
      /\ stage'[w][r] = "ran" /\ result'[w][r] = res
      /\ deliveries'[r] = deliveries[r] + IF res = "ok" THEN 1 ELSE 0
      /\ \A q \in Rows : q # r => deliveries'[q] = deliveries[q]
      /\ \A q \in Rows : deliveries[q] \in Nat /\ lost[q] \in Nat
  BY <1>1 DEF TypeOK
<1>4. row[r] = "pending" /\ pc[w] = "batch" /\ \A v \in Workers : v # w => stage[v][r] = "no"
  BY <1>1 DEF LockedRowsPending, OneHolder, LocksOnlyInBatch
<1>5. LocksOnlyInBatch' /\ ResultsMatchStages' /\ LockedRowsPending' /\ OneHolder'
  BY <1>1, <1>2, <1>3, <1>4
  DEF LocksOnlyInBatch, ResultsMatchStages, LockedRowsPending, OneHolder
<1>6. AttemptsAccount'
  BY <1>2 DEF AttemptsAccount
<1>7. SuccessWasDelivered'
  BY <1>2, <1>3 DEF SuccessWasDelivered, SentWasDelivered
<1>8. DeliveriesAccount'
  <2> SUFFICES ASSUME NEW q \in Rows
               PROVE  /\ deliveries'[q] <= lost[q] + 1
                      /\ ~Standing(q)' => deliveries'[q] <= lost[q]
    BY <1>2 DEF DeliveriesAccount
  <2>0. /\ deliveries[q] <= lost[q] + 1
        /\ ~Standing(q) => deliveries[q] <= lost[q]
    BY DEF DeliveriesAccount
  <2>1. CASE q # r
    <3>1. Standing(q) => Standing(q)'
      BY <1>2, <1>3, <2>1 DEF Standing
    <3>2. QED
      BY <1>3, <2>0, <2>1, <3>1
  <2>2. CASE q = r
    <3>1. ~Standing(r)
      BY <1>1, <1>4 DEF Standing, ResultsMatchStages
    <3>2. res = "ok" => Standing(r)'
      BY <1>3 DEF Standing
    <3>3. QED
      BY <1>3, <2>0, <2>2, <3>1, <3>2
  <2>3. QED
    BY <2>1, <2>2
<1>9. ForeignAccount'
  <2>1. ~\A v \in Workers : TopicOf[r] \notin MayOwn[v]
    BY <1>1 DEF ForeignAccount
  <2>2. QED
    BY <1>2, <1>3, <2>1 DEF ForeignAccount
<1>10. QED
  BY <1>5, <1>6, <1>7, <1>8, <1>9

\* Recording an outcome changes nothing but the row's stage.
LEMMA RecordStep ==
    ASSUME IInv, TypeOK', NEW w \in Workers, Record(w)
    PROVE  IInv'
<1> USE DEF IInv
<1>1. PICK r \in Rows : stage[w][r] = "ran" /\ stage' = [stage EXCEPT ![w][r] = "recorded"]
  BY DEF Record
<1>2. UNCHANGED <<row, attempts, deliveries, lost, pc, owned, result>>
  BY DEF Record, table, history
<1>3. /\ \A v \in Workers, q \in Rows : (v # w \/ q # r) => stage'[v][q] = stage[v][q]
      /\ stage'[w][r] = "recorded"
  BY <1>1 DEF TypeOK
<1>4. LocksOnlyInBatch' /\ ResultsMatchStages' /\ LockedRowsPending' /\ OneHolder'
  BY <1>1, <1>2, <1>3 DEF LocksOnlyInBatch, ResultsMatchStages, LockedRowsPending, OneHolder
<1>5. AttemptsAccount' /\ SuccessWasDelivered' /\ DeliveriesAccount'
  BY <1>2 DEF AttemptsAccount, SuccessWasDelivered, SentWasDelivered, DeliveriesAccount, Standing
<1>6. ForeignAccount'
  BY <1>1, <1>2, <1>3 DEF ForeignAccount
<1>7. QED
  BY <1>4, <1>5, <1>6

\* The engine moves only rows that nobody holds.
LEMMA EngineStep ==
    ASSUME IInv, TypeOK', Engine
    PROVE  IInv'
<1> USE OutboxAssumption DEF IInv, history, drain
<1>1. UNCHANGED <<attempts, deliveries, lost, pc, owned, stage, result>>
  BY DEF Engine, Enqueue, CommitTx, RollbackTx, DeleteTenant
<1>2. \A r \in Rows :
        \/ row'[r] = row[r]
        \/ row[r] = "none" /\ row'[r] = "open"
        \/ row[r] = "open" /\ row'[r] \in {"none", "pending"}
        \/ /\ row[r] \in {"pending"} \cup Settled /\ row'[r] = "purged"
           /\ \A w \in Workers : stage[w][r] = "no"
  <2>1. ASSUME NEW q \in Rows, Enqueue(q) \/ CommitTx(q) \/ RollbackTx(q), NEW r \in Rows
        PROVE  \/ row'[r] = row[r]
               \/ row[r] = "none" /\ row'[r] = "open"
               \/ row[r] = "open" /\ row'[r] \in {"none", "pending"}
    BY <2>1 DEF Enqueue, CommitTx, RollbackTx, TypeOK
  <2>2. ASSUME NEW t \in Tenants, DeleteTenant(t), NEW r \in Rows
        PROVE  \/ row'[r] = row[r]
               \/ /\ row[r] \in {"pending"} \cup Settled /\ row'[r] = "purged"
                  /\ \A w \in Workers : stage[w][r] = "no"
    BY <2>2 DEF DeleteTenant, Locked, TypeOK
  <2>3. QED
    BY <2>1, <2>2 DEF Engine
<1>3. LocksOnlyInBatch' /\ ResultsMatchStages' /\ OneHolder'
  BY <1>1 DEF LocksOnlyInBatch, ResultsMatchStages, OneHolder
<1>4. LockedRowsPending'
  BY <1>1, <1>2 DEF LockedRowsPending, Settled
<1>5. AttemptsAccount'
  BY <1>1, <1>2 DEF AttemptsAccount, TypeOK, Settled
<1>6. SuccessWasDelivered'
  BY <1>1, <1>2 DEF SuccessWasDelivered, SentWasDelivered
<1>7. DeliveriesAccount'
  <2>1. \A r \in Rows : Standing(r) => Standing(r)'
    BY <1>1, <1>2 DEF Standing, Settled
  <2>2. QED
    BY <1>1, <2>1 DEF DeliveriesAccount
<1>8. ForeignAccount'
  BY <1>1, <1>2 DEF ForeignAccount, Settled
<1>9. QED
  BY <1>3, <1>4, <1>5, <1>6, <1>7, <1>8

\* IInv is inductive.
LEMMA InvStep == IInv /\ [Next]_vars => IInv'
<1> SUFFICES ASSUME IInv, [Next]_vars PROVE IInv'
  OBVIOUS
<1> USE DEF table, history, drain, signals
<1>0. TypeOK'
  BY TypeStep DEF IInv
<1>1. CASE Engine
  BY <1>0, <1>1, EngineStep
<1>2. ASSUME NEW w \in Workers, Start(w) \/ Connect(w) \/ Hear(w) \/ Tick(w) \/ Wake(w) \/ Cancel(w)
      PROVE  IInv'
  <2>1. UNCHANGED <<row, attempts, deliveries, lost, stage, result, owned>>
    BY <1>2 DEF Start, Connect, Hear, Tick, Wake, Cancel
  <2>2. \A v \in Workers : pc[v] = "batch" => pc'[v] = "batch"
    BY <1>2 DEF Start, Connect, Hear, Tick, Wake, Cancel, IInv, TypeOK
  <2>3. QED
    BY <1>0, <2>1, <2>2, QuietStep
<1>3. ASSUME NEW w \in Workers, Claim(w) PROVE IInv'
  BY <1>0, <1>3, ClaimStep
<1>4. ASSUME NEW w \in Workers, Process(w) PROVE IInv'
  BY <1>0, <1>4, ProcessStep
<1>5. ASSUME NEW w \in Workers, Record(w) PROVE IInv'
  BY <1>0, <1>5, RecordStep
<1>6. ASSUME NEW w \in Workers, Commit(w) \/ CommitUnacked(w) PROVE IInv'
  <2>1. /\ Settle(w) /\ owned' = owned /\ UNCHANGED <<deliveries, lost>>
        /\ \A v \in Workers : v # w => pc'[v] = pc[v]
    BY <1>6 DEF Commit, CommitUnacked, Disconnect, IInv, TypeOK
  <2>2. QED
    BY <1>0, <2>1, SettleStep
<1>7. ASSUME NEW w \in Workers, Drop(w) \/ Crash(w) \/ Stop(w) PROVE IInv'
  <2>1. /\ Rollback(w) /\ owned' = owned
        /\ \A v \in Workers : v # w => pc'[v] = pc[v]
    BY <1>7 DEF Drop, Crash, Stop, Disconnect, IInv, TypeOK
  <2>2. QED
    BY <1>0, <2>1, RollbackStep
<1>8. ASSUME NEW w \in Workers, Refresh(w) PROVE IInv'
  BY <1>0, <1>8 DEF Refresh, IInv, LocksOnlyInBatch, ResultsMatchStages, LockedRowsPending,
     OneHolder, AttemptsAccount, SuccessWasDelivered, SentWasDelivered, DeliveriesAccount,
     Standing, ForeignAccount, TypeOK
<1>9. CASE UNCHANGED vars
  BY <1>0, <1>9, QuietStep DEF vars
<1>10. QED
  BY <1>1, <1>2, <1>3, <1>4, <1>5, <1>6, <1>7, <1>8, <1>9 DEF Next, Worker, Environment

\* An empty outbox satisfies the inductive invariant.
LEMMA InvInit == Init => IInv
<1> SUFFICES ASSUME Init PROVE IInv
  OBVIOUS
<1> USE OutboxAssumption DEF Init
<1>1. TypeOK
  BY DEF TypeOK, RowState, Stage, Result, Location
<1>2. LocksOnlyInBatch /\ ResultsMatchStages /\ LockedRowsPending /\ OneHolder
  BY DEF LocksOnlyInBatch, ResultsMatchStages, LockedRowsPending, OneHolder
<1>3. AttemptsAccount /\ SuccessWasDelivered /\ DeliveriesAccount
  BY DEF AttemptsAccount, SuccessWasDelivered, SentWasDelivered, DeliveriesAccount, Standing
<1>4. ForeignAccount
  BY DEF ForeignAccount, Settled
<1>5. QED
  BY <1>1, <1>2, <1>3, <1>4 DEF IInv

\* IInv holds in every reachable state.
THEOREM Invariance == Spec => []IInv
BY InvInit, InvStep, PTL DEF Spec

\* Rows are never in two workers' batches at once (Drain's FOR UPDATE SKIP
\* LOCKED), for any number of workers.
THEOREM BatchesDisjoint == Spec => []DisjointBatches
<1>1. IInv => DisjointBatches
  BY DEF IInv, OneHolder, DisjointBatches, Batch
<1>2. QED
  BY <1>1, Invariance, PTL

\* Delivery is at least once: a row marked sent was delivered (Drain records an
\* outcome after Process).
THEOREM AtLeastOnce == Spec => []SentWasDelivered
<1>1. IInv => SentWasDelivered
  BY DEF IInv, SuccessWasDelivered
<1>2. QED
  BY <1>1, Invariance, PTL

\* It is more than once only because of a rollback of Drain's transaction.
THEOREM RedeliveryIsPaid == Spec => []RedeliveryNeedsRollback
<1>1. IInv => RedeliveryNeedsRollback
  BY DEF IInv, DeliveriesAccount, RedeliveryNeedsRollback
<1>2. QED
  BY <1>1, Invariance, PTL

\* Drain retries a row exactly as long as it has attempts left.
THEOREM AttemptsStayBounded == Spec => []AttemptsBounded
<1>1. IInv => AttemptsBounded
  BY DEF IInv, AttemptsAccount, AttemptsBounded
<1>2. QED
  BY <1>1, Invariance, PTL

\* A topic without a consumer is left alone by every worker.
THEOREM ForeignRowsSafe == Spec => []ForeignRowsUntouched
<1>1. IInv => ForeignRowsUntouched
  BY DEF IInv, ForeignAccount, ForeignRowsUntouched
<1>2. QED
  BY <1>1, Invariance, PTL

(***************************************************************************)
(* What a step may do to one row, and the event queue it implements.       *)
(***************************************************************************)

\* Every step of the system, seen from one row.
RowMove(r) ==
    \/ /\ row'[r] = row[r] /\ attempts'[r] = attempts[r]
       /\ deliveries'[r] = deliveries[r]
    \/ /\ row[r] \in {"none", "open"} /\ row'[r] \in {"none", "open", "pending"}
       /\ row'[r] = "pending" => row[r] = "open"
       /\ attempts'[r] = attempts[r] /\ deliveries'[r] = deliveries[r]
    \/ /\ row[r] \in {"pending"} \cup Settled /\ row'[r] = "purged"
       /\ attempts'[r] = attempts[r] /\ deliveries'[r] = deliveries[r]
    \/ /\ row[r] = "pending" /\ row'[r] = "pending"
       /\ attempts'[r] = attempts[r] /\ deliveries'[r] > 0
    \/ /\ row[r] = "pending" /\ attempts'[r] = attempts[r] + 1
       /\ deliveries'[r] = deliveries[r]
       /\ \/ row'[r] = "sent" /\ deliveries[r] > 0
          \/ row'[r] = "discarded"
          \/ row'[r] = "pending" /\ attempts[r] + 1 < MaxAttempts
          \/ row'[r] = "failed" /\ attempts[r] + 1 = MaxAttempts

\* Every step moves every row in one of these ways.
LEMMA RowMoves == IInv /\ [Next]_vars => \A r \in Rows : RowMove(r)
<1> SUFFICES ASSUME IInv, [Next]_vars, NEW r \in Rows PROVE RowMove(r)
  OBVIOUS
<1> USE OutboxAssumption DEF table, history
<1>1. CASE Engine
  <2>1. ASSUME NEW q \in Rows, Enqueue(q) \/ CommitTx(q) \/ RollbackTx(q) PROVE RowMove(r)
    BY <2>1 DEF Enqueue, CommitTx, RollbackTx, RowMove, IInv, TypeOK
  <2>2. ASSUME NEW t \in Tenants, DeleteTenant(t) PROVE RowMove(r)
    BY <2>2 DEF DeleteTenant, RowMove
  <2>3. QED
    BY <1>1, <2>1, <2>2 DEF Engine
<1>2. ASSUME NEW w \in Workers, Process(w) PROVE RowMove(r)
  <2>1. PICK q \in Rows, res \in Result :
          /\ stage[w][q] = "todo"
          /\ deliveries' = [deliveries EXCEPT ![q] = @ + IF res = "ok" THEN 1 ELSE 0]
    BY <1>2 DEF Process, Todo, Outcomes, Result
  <2>2. row[q] = "pending"
    BY <2>1 DEF IInv, LockedRowsPending
  <2>3. deliveries[r] \in Nat /\ row' = row /\ attempts' = attempts
    BY <1>2 DEF Process, IInv, TypeOK
  <2>4. \/ deliveries'[r] = deliveries[r]
        \/ r = q /\ deliveries'[r] > 0
    BY <2>1, <2>3 DEF IInv, TypeOK
  <2>5. QED
    BY <2>2, <2>3, <2>4 DEF RowMove
<1>3. ASSUME NEW w \in Workers, Commit(w) \/ CommitUnacked(w) PROVE RowMove(r)
  <2>1. Settle(w) /\ deliveries' = deliveries
    BY <1>3 DEF Commit, CommitUnacked
  <2>2. /\ result[w][r] \in Result
        /\ result[w][r] # "none" => row[r] = "pending"
        /\ result[w][r] = "ok" => deliveries[r] > 0
        /\ row[r] = "pending" => attempts[r] < MaxAttempts
        /\ attempts[r] \in Nat /\ deliveries[r] \in Nat
    BY DEF IInv, TypeOK, ResultsMatchStages, LockedRowsPending, SuccessWasDelivered,
       AttemptsAccount
  <2>3. /\ row'[r] = StateAfter(r, result[w][r])
        /\ attempts'[r] = attempts[r] + IF result[w][r] = "none" THEN 0 ELSE 1
    BY <2>1 DEF Settle
  <2>4. CASE result[w][r] = "none"
    BY <2>1, <2>2, <2>3, <2>4 DEF StateAfter, RowMove
  <2>5. CASE result[w][r] = "ok"
    BY <2>1, <2>2, <2>3, <2>5 DEF StateAfter, RowMove
  <2>6. CASE result[w][r] = "discard"
    BY <2>1, <2>2, <2>3, <2>6 DEF StateAfter, RowMove
  <2>7. CASE result[w][r] = "err"
    BY <2>1, <2>2, <2>3, <2>7 DEF StateAfter, RowMove, Exhausted
  <2>8. QED
    BY <2>2, <2>4, <2>5, <2>6, <2>7 DEF Result
<1>4. ASSUME NEW w \in Workers,
             \/ Start(w) \/ Connect(w) \/ Hear(w) \/ Tick(w) \/ Wake(w) \/ Claim(w) \/ Record(w)
             \/ Stop(w) \/ Refresh(w) \/ Drop(w) \/ Crash(w) \/ Cancel(w)
      PROVE RowMove(r)
  BY <1>4 DEF Start, Connect, Hear, Tick, Wake, Claim, Record, Stop, Refresh, Drop, Crash,
     Cancel, Rollback, RowMove
<1>5. CASE UNCHANGED vars
  BY <1>5 DEF vars, RowMove
<1>6. QED
  BY <1>1, <1>2, <1>3, <1>4, <1>5 DEF Next, Worker, Environment

\* A settled row is settled for good: no drain, crash, redelivery or retry
\* touches it again.
THEOREM SettledIsFinal == Spec => SettledForever
<1>1. IInv /\ [Next]_vars =>
        [\A r \in Rows : row[r] \in Settled =>
            /\ row'[r] \in {row[r], "purged"}
            /\ attempts'[r] = attempts[r]]_vars
  BY RowMoves DEF RowMove, Settled
<1>2. QED
  BY <1>1, Invariance, PTL DEF Spec, SettledForever

\* The outbox with its workers, locks, batches and crashes implements the
\* event queue.
THEOREM Refinement == Spec => ImplementsEventQueue
<1>1. Init => Queue!QInit
  <2> SUFFICES ASSUME Init PROVE Queue!QInit
    OBVIOUS
  <2>1. \A r \in Rows : (deliveries[r] > 0) = FALSE
    BY DEF Init
  <2>2. [r \in Rows |-> deliveries[r] > 0] = [r \in Rows |-> FALSE]
    BY <2>1, Zenon
  <2>3. [r \in Rows |-> IF row[r] = "open" THEN "none" ELSE row[r]] = [r \in Rows |-> "none"]
    BY DEF Init
  <2>4. QED
    BY <2>2, <2>3, Zenon DEF Init, Queue!QInit
<1>2. IInv /\ IInv' /\ [Next]_vars => [Queue!QNext]_(Queue!qvars)
  <2> SUFFICES ASSUME IInv, IInv', [Next]_vars PROVE Queue!QNext
    OBVIOUS
  <2>1. \A r \in Rows : RowMove(r)
    BY RowMoves
  <2>2. \A r \in Rows : /\ deliveries[r] \in Nat /\ deliveries'[r] \in Nat
                        /\ attempts[r] \in Nat
    BY DEF IInv, TypeOK
  <2>3. attempts' \in [Rows -> Nat]
    BY DEF IInv, TypeOK
  <2>4. ASSUME NEW r \in Rows PROVE Queue!Move(r)
    <3> USE DEF Queue!Move, Queue!Stay, Queue!Publish, Queue!Act, Queue!Acknowledge,
          Queue!Discard, Queue!Retry, Queue!Park, Queue!Remove, Queue!Charge
    <3>1. RowMove(r) /\ deliveries[r] \in Nat /\ deliveries'[r] \in Nat /\ attempts[r] \in Nat
      BY <2>1, <2>2
    <3>2. QED
      BY <3>1 DEF RowMove, Settled
  <2>5. QED
    BY <2>3, <2>4 DEF Queue!QNext
<1>3. QED
  BY <1>1, <1>2, Invariance, PTL DEF Spec, ImplementsEventQueue, Queue!QSpec
=============================================================================
