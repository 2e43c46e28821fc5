------------------------------- MODULE Outbox -------------------------------
(***************************************************************************)
(* The transactional outbox of the engine and the worker processes that    *)
(* drain it: pkg/outbox/outbox.go (Enqueue), pkg/worker/worker.go (Run,    *)
(* runListener, drainAll, Drain) and pkg/consumers/router.go (Topics,      *)
(* Process).                                                               *)
(*                                                                         *)
(* A row is named by its position in created_at order (the time its        *)
(* business transaction began), so rows may COMMIT in any order.  Payloads *)
(* are left out: what matters of a row is its tenant, its topic, its state *)
(* and its attempts.  One Drain is one Postgres transaction: what a worker *)
(* has claimed and recorded in it (stage, result) is invisible to everyone *)
(* else until Commit, and vanishes with its row locks on a rollback; what  *)
(* a Processor did to the outside world (deliveries) never vanishes.       *)
(***************************************************************************)
EXTENDS Naturals, FiniteSets

CONSTANTS
    Rows,         \* outbox rows, in created_at order
    Topics,       \* event topics
    TopicOf,      \* the topic of each row
    Tenants,
    TenantOf,     \* the tenant of each row
    Workers,      \* appximo-worker processes
    MayOwn,       \* topics a worker's Router may ever own (its deployment)
    BatchSize,    \* Config.BatchSize
    MaxAttempts,  \* Config.MaxAttempts
    MaxFaults     \* bound of the model: crashes, lost connections, signals

ASSUME OutboxAssumption ==
    /\ Rows \subseteq Nat
    /\ TopicOf \in [Rows -> Topics]
    /\ TenantOf \in [Rows -> Tenants]
    /\ MayOwn \in [Workers -> SUBSET Topics]
    /\ BatchSize \in Nat \ {0}
    /\ MaxAttempts \in Nat \ {0}
    /\ MaxFaults \in Nat

VARIABLES
    row,         \* public.outbox.state, as committed
    attempts,    \* public.outbox.attempts, as committed
    deliveries,  \* history: times a Processor acted on the row and returned nil
    lost,        \* history: deliveries whose transaction was rolled back
    pc,          \* where a worker is in Run / runListener / drainAll
    owned,       \* the topics the worker's Router owns now (Router.Topics)
    stage,       \* how far the worker's open transaction is with a row
    result,      \* what Process returned for the row in that transaction
    note,        \* a notification waits on the worker's LISTEN connection
    wake,        \* the one-slot wake channel of runListener
    cancelled,   \* SIGINT/SIGTERM received: the worker's context is done
    faults       \* faults so far, bounded by MaxFaults

table     == <<row, attempts>>
history   == <<deliveries, lost>>
drain     == <<stage, result>>
signals   == <<note, wake>>
vars      == <<row, attempts, deliveries, lost, pc, owned, stage, result,
               note, wake, cancelled, faults>>

\* "none": no such row; "open": inserted by a business transaction that has
\* not committed; "purged": deleted with its tenant.
RowState  == {"none", "open", "pending", "sent", "failed", "discarded", "purged"}
Settled   == {"sent", "failed", "discarded"}
Stage     == {"no", "todo", "ran", "recorded"}
Result    == {"none", "ok", "err", "discard"}
Location  == {"off", "backoff", "idle", "claim", "batch"}
Connected == {"idle", "claim", "batch"}

Batch(w)  == {r \in Rows : stage[w][r] # "no"}
Todo(w)   == {r \in Rows : stage[w][r] = "todo"}
Locked(r) == \E w \in Workers : stage[w][r] # "no"

Init ==
    /\ row = [r \in Rows |-> "none"]
    /\ attempts = [r \in Rows |-> 0]
    /\ deliveries = [r \in Rows |-> 0]
    /\ lost = [r \in Rows |-> 0]
    /\ pc = [w \in Workers |-> "off"]
    /\ owned = MayOwn
    /\ stage = [w \in Workers |-> [r \in Rows |-> "no"]]
    /\ result = [w \in Workers |-> [r \in Rows |-> "none"]]
    /\ note = [w \in Workers |-> FALSE]
    /\ wake = [w \in Workers |-> FALSE]
    /\ cancelled = [w \in Workers |-> FALSE]
    /\ faults = 0

-----------------------------------------------------------------------------
(***************************************************************************)
(* The engine's side: outbox.Enqueue inside a business transaction.        *)
(***************************************************************************)

\* INSERT INTO public.outbox and pg_notify in the caller's transaction: until
\* it commits, nobody sees the row and nobody is notified.
Enqueue(r) ==
    /\ row[r] = "none"
    /\ row' = [row EXCEPT ![r] = "open"]
    /\ UNCHANGED <<attempts, history, pc, owned, drain, signals, cancelled, faults>>

\* The business transaction commits: the row becomes visible and the NOTIFY
\* goes out.  A worker that is not connected misses it, and so may one whose
\* LISTEN connection is broken and does not know yet.
CommitTx(r) ==
    /\ row[r] = "open"
    /\ row' = [row EXCEPT ![r] = "pending"]
    /\ \E heard \in SUBSET {w \in Workers : pc[w] \in Connected} :
          note' = [w \in Workers |-> note[w] \/ w \in heard]
    /\ UNCHANGED <<attempts, history, pc, owned, drain, wake, cancelled, faults>>

\* The business transaction rolls back, and its outbox row with it.
RollbackTx(r) ==
    /\ row[r] = "open"
    /\ row' = [row EXCEPT ![r] = "none"]
    /\ UNCHANGED <<attempts, history, pc, owned, drain, signals, cancelled, faults>>

\* platformadmin DeleteTenant: DELETE FROM public.outbox WHERE tenant_id = $1
\* waits for the row locks of a running batch.
DeleteTenant(t) ==
    LET mine == {r \in Rows : TenantOf[r] = t /\ row[r] \in {"pending"} \cup Settled}
    IN  /\ mine # {}
        /\ \A r \in mine : ~Locked(r)
        /\ row' = [r \in Rows |-> IF r \in mine THEN "purged" ELSE row[r]]
        /\ UNCHANGED <<attempts, history, pc, owned, drain, signals, cancelled, faults>>

-----------------------------------------------------------------------------
(***************************************************************************)
(* The worker's life: Worker.Run and runListener.                          *)
(***************************************************************************)

\* The worker's open transaction is rolled back: locks and recorded outcomes
\* vanish, what Process did stays done.
Rollback(w) ==
    /\ stage' = [stage EXCEPT ![w] = [r \in Rows |-> "no"]]
    /\ result' = [result EXCEPT ![w] = [r \in Rows |-> "none"]]
    /\ lost' = [r \in Rows |-> lost[r] + IF result[w][r] = "ok" THEN 1 ELSE 0]
    /\ UNCHANGED <<table, deliveries>>

\* The connections of runListener are gone, and with them the wake channel
\* and every notification not yet read.
Disconnect(w, to) ==
    /\ pc' = [pc EXCEPT ![w] = to]
    /\ note' = [note EXCEPT ![w] = FALSE]
    /\ wake' = [wake EXCEPT ![w] = FALSE]

Fault == faults < MaxFaults /\ faults' = faults + 1

\* The process starts (systemd, Restart=always) and enters Run.
Start(w) ==
    /\ pc[w] = "off"
    /\ pc' = [pc EXCEPT ![w] = "backoff"]
    /\ UNCHANGED <<table, history, owned, drain, signals, cancelled, faults>>

\* runListener connects, LISTENs and signals itself once: the backlog of
\* events enqueued while nobody listened is drained first.
Connect(w) ==
    /\ pc[w] = "backoff"
    /\ ~cancelled[w]
    /\ pc' = [pc EXCEPT ![w] = "idle"]
    /\ wake' = [wake EXCEPT ![w] = TRUE]
    /\ UNCHANGED <<table, history, owned, drain, note, cancelled, faults>>

\* The reader goroutine turns a notification into a wake-up; a wake-up that is
\* already waiting swallows it.
Hear(w) ==
    /\ pc[w] \in Connected
    /\ note[w]
    /\ note' = [note EXCEPT ![w] = FALSE]
    /\ wake' = [wake EXCEPT ![w] = TRUE]
    /\ UNCHANGED <<table, history, pc, owned, drain, cancelled, faults>>

\* Variant: the tick wakes the loop only if a notification is waiting.
TickOnNote(w) ==
    /\ pc[w] = "idle"
    /\ wake' = [wake EXCEPT ![w] = wake[w] \/ note[w]]
    /\ UNCHANGED <<table, history, pc, owned, drain, note, cancelled, faults>>

\* A poll tick, read by the select loop between two drains.
Tick(w) ==
    /\ pc[w] = "idle"
    /\ wake' = [wake EXCEPT ![w] = TRUE]
    /\ UNCHANGED <<table, history, pc, owned, drain, note, cancelled, faults>>

\* The select loop takes the wake-up and calls drainAll.
Wake(w) ==
    /\ pc[w] = "idle"
    /\ wake[w]
    /\ wake' = [wake EXCEPT ![w] = FALSE]
    /\ pc' = [pc EXCEPT ![w] = "claim"]
    /\ UNCHANGED <<table, history, owned, drain, note, cancelled, faults>>

\* The set of topics of a dynamic owner changes while the worker runs (a
\* tenant deployed a schema): Router.Topics answers differently from now on.
Refresh(w) ==
    /\ \E T \in SUBSET MayOwn[w] : owned' = [owned EXCEPT ![w] = T]
    /\ UNCHANGED <<table, history, pc, drain, signals, cancelled, faults>>

\* A database error while connected (claim, UPDATE, COMMIT, LISTEN): Drain's
\* deferred Rollback runs, runListener returns, Run backs off and reconnects.
Drop(w) ==
    /\ pc[w] \in Connected
    /\ Fault
    /\ Rollback(w)
    /\ Disconnect(w, "backoff")
    /\ UNCHANGED <<owned, cancelled>>

\* The process dies, its context with it: Postgres aborts its transaction.
Crash(w) ==
    /\ pc[w] # "off"
    /\ Fault
    /\ Rollback(w)
    /\ Disconnect(w, "off")
    /\ cancelled' = [cancelled EXCEPT ![w] = FALSE]
    /\ UNCHANGED owned

\* SIGINT/SIGTERM cancels the context every call of the worker runs under.
Cancel(w) ==
    /\ pc[w] # "off"
    /\ ~cancelled[w]
    /\ Fault
    /\ cancelled' = [cancelled EXCEPT ![w] = TRUE]
    /\ UNCHANGED <<table, history, pc, owned, drain, signals>>

\* The cancelled worker leaves Run from wherever it is: the next statement on
\* its transaction fails with the context's error.
Stop(w) ==
    /\ pc[w] # "off"
    /\ cancelled[w]
    /\ Rollback(w)
    /\ Disconnect(w, "off")
    /\ cancelled' = [cancelled EXCEPT ![w] = FALSE]
    /\ UNCHANGED <<owned, faults>>

-----------------------------------------------------------------------------
(***************************************************************************)
(* The worker's drain: drainAll and one Drain per iteration.               *)
(***************************************************************************)

\* Variants of the claim query: FOR UPDATE without SKIP LOCKED on a stale
\* snapshot; no topic scope.
ClaimableLocked(w) ==
    {r \in Rows : row[r] = "pending" /\ TopicOf[r] \in owned[w]}
ClaimableAnyTopic(w) ==
    {r \in Rows : row[r] = "pending" /\ ~Locked(r)}

\* The claim query: pending rows of the topics the worker owns now, FOR UPDATE
\* SKIP LOCKED.
Claimable(w) ==
    {r \in Rows : row[r] = "pending" /\ ~Locked(r) /\ TopicOf[r] \in owned[w]}

\* ORDER BY created_at LIMIT batchSize.
Claimed(w) ==
    {r \in Claimable(w) :
        Cardinality({q \in Claimable(w) : q < r}) < BatchSize}

\* Drain begins its transaction and claims a batch.  An empty batch ends
\* drainAll at once.
Claim(w) ==
    /\ pc[w] = "claim"
    /\ ~cancelled[w]
    /\ stage' = [stage EXCEPT ![w] =
                    [r \in Rows |-> IF r \in Claimed(w) THEN "todo" ELSE @[r]]]
    /\ pc' = [pc EXCEPT ![w] = IF Claimed(w) = {} THEN "idle" ELSE "batch"]
    /\ UNCHANGED <<table, history, owned, result, signals, cancelled, faults>>

\* Router.Process: the row's consumer returns nil, an error or a Discard; a
\* topic no route matches any more is an error, never an acknowledgement.
Outcomes(w, r) ==
    IF TopicOf[r] \in owned[w] THEN {"ok", "err", "discard"} ELSE {"err"}

\* Drain hands the oldest unprocessed row of its batch to the Processor; the
\* outcome is not recorded yet.  A cancelled context does not stop a Processor
\* from acting (an email already handed to the SMTP server).
Process(w) ==
    /\ pc[w] = "batch"
    /\ \A r \in Rows : stage[w][r] # "ran"
    /\ \E r \in Todo(w) : \E res \in Outcomes(w, r) :
          /\ \A q \in Todo(w) : r <= q
          /\ stage' = [stage EXCEPT ![w][r] = "ran"]
          /\ result' = [result EXCEPT ![w][r] = res]
          /\ deliveries' = [deliveries EXCEPT ![r] = @ + IF res = "ok" THEN 1 ELSE 0]
    /\ UNCHANGED <<table, lost, pc, owned, signals, cancelled, faults>>

\* Drain's UPDATE of the row, inside the transaction.
Record(w) ==
    /\ pc[w] = "batch"
    /\ ~cancelled[w]
    /\ \E r \in Rows :
          /\ stage[w][r] = "ran"
          /\ stage' = [stage EXCEPT ![w][r] = "recorded"]
    /\ UNCHANGED <<table, history, pc, owned, result, signals, cancelled, faults>>

\* Variant: an attempt too many.
ExhaustedLate(r) == attempts[r] + 1 > MaxAttempts

\* A failed row is parked once its attempts reach the cap.
Exhausted(r) == attempts[r] + 1 >= MaxAttempts

\* Variants: a discard acknowledged as delivered; a state no reader knows.
DiscardAsSent(r, res) ==
    CASE res \in {"ok", "discard"} -> "sent"
      [] res = "err" -> IF Exhausted(r) THEN "failed" ELSE "pending"
      [] OTHER -> row[r]
UnknownState(r, res) ==
    CASE res = "ok" -> "sent"
      [] res = "discard" -> "discarded"
      [] res = "err" -> IF Exhausted(r) THEN "dead" ELSE "pending"
      [] OTHER -> row[r]

\* The state the three UPDATEs of Drain leave a row in.
StateAfter(r, res) ==
    CASE res = "ok"      -> "sent"
      [] res = "discard" -> "discarded"
      [] res = "err"     -> IF Exhausted(r) THEN "failed" ELSE "pending"
      [] OTHER           -> row[r]

\* COMMIT: every recorded outcome becomes visible at once and the locks go.
Settle(w) ==
    /\ pc[w] = "batch"
    /\ ~cancelled[w]
    /\ \A r \in Batch(w) : stage[w][r] = "recorded"
    /\ row' = [r \in Rows |-> StateAfter(r, result[w][r])]
    /\ attempts' = [r \in Rows |->
                      attempts[r] + IF result[w][r] = "none" THEN 0 ELSE 1]
    /\ stage' = [stage EXCEPT ![w] = [r \in Rows |-> "no"]]
    /\ result' = [result EXCEPT ![w] = [r \in Rows |-> "none"]]

\* drainAll goes on after a full batch in which something succeeded.
DrainAgain(w) ==
    /\ Cardinality(Batch(w)) >= BatchSize
    /\ \E r \in Rows : result[w][r] = "ok"

Commit(w) ==
    /\ Settle(w)
    /\ pc' = [pc EXCEPT ![w] = IF DrainAgain(w) THEN "claim" ELSE "idle"]
    /\ UNCHANGED <<history, owned, signals, cancelled, faults>>

\* COMMIT reached the server but its answer did not reach the worker.
CommitUnacked(w) ==
    /\ Settle(w)
    /\ Fault
    /\ Disconnect(w, "backoff")
    /\ UNCHANGED <<history, owned, cancelled>>

-----------------------------------------------------------------------------
Engine ==
    \/ \E r \in Rows : Enqueue(r) \/ CommitTx(r) \/ RollbackTx(r)
    \/ \E t \in Tenants : DeleteTenant(t)

Worker(w) ==
    \/ Start(w) \/ Connect(w) \/ Hear(w) \/ Tick(w) \/ Wake(w)
    \/ Claim(w) \/ Process(w) \/ Record(w) \/ Commit(w) \/ Stop(w)

Environment(w) ==
    Refresh(w) \/ Drop(w) \/ Crash(w) \/ Cancel(w) \/ CommitUnacked(w)

Next == Engine \/ \E w \in Workers : Worker(w) \/ Environment(w)

Spec == Init /\ [][Next]_vars

\* systemd restarts the process, Run reconnects for ever, the poll ticker and
\* the drain loop keep going; nothing is assumed of the engine or of faults.
Fairness ==
    \A w \in Workers :
        /\ WF_vars(Start(w)) /\ WF_vars(Connect(w)) /\ WF_vars(Tick(w))
        /\ WF_vars(Wake(w)) /\ WF_vars(Claim(w)) /\ WF_vars(Process(w))
        /\ WF_vars(Record(w)) /\ WF_vars(Commit(w)) /\ WF_vars(Stop(w))

FairSpec == Spec /\ Fairness

-----------------------------------------------------------------------------
(***************************************************************************)
(* Properties.                                                             *)
(***************************************************************************)

\* Every variable has its type.
TypeOK ==
    /\ row \in [Rows -> RowState]
    /\ attempts \in [Rows -> Nat]
    /\ deliveries \in [Rows -> Nat]
    /\ lost \in [Rows -> Nat]
    /\ pc \in [Workers -> Location]
    /\ owned \in [Workers -> SUBSET Topics]
    /\ stage \in [Workers -> [Rows -> Stage]]
    /\ result \in [Workers -> [Rows -> Result]]
    /\ note \in [Workers -> BOOLEAN]
    /\ wake \in [Workers -> BOOLEAN]
    /\ cancelled \in [Workers -> BOOLEAN]
    /\ faults \in Nat

\* Two workers never hold the same row in their batches (FOR UPDATE SKIP
\* LOCKED), so a row is never processed by two workers at a time.
DisjointBatches ==
    \A v, w \in Workers : v # w => Batch(v) \cap Batch(w) = {}

\* At least once: a row is marked 'sent' only if a Processor acted on it.
SentWasDelivered ==
    \A r \in Rows : row[r] = "sent" => deliveries[r] >= 1

\* Not more than needed: every delivery of a row beyond the first is paid for
\* by a transaction that delivered it and was rolled back.  Without faults a
\* row is delivered at most once, whatever the workers do concurrently.
RedeliveryNeedsRollback ==
    \A r \in Rows : deliveries[r] <= lost[r] + 1

\* A row that may still be retried has attempts left, and a row parked
\* 'failed' used all of them: no row is parked early or retried for ever.
AttemptsBounded ==
    \A r \in Rows :
        /\ row[r] = "pending" => attempts[r] < MaxAttempts
        /\ row[r] = "failed" => attempts[r] = MaxAttempts

\* A topic no worker has a consumer for is never acknowledged and never burns
\* an attempt: its rows stay pending and visible.
ForeignRowsUntouched ==
    \A r \in Rows :
        (\A w \in Workers : TopicOf[r] \notin MayOwn[w]) =>
            /\ row[r] \notin Settled
            /\ attempts[r] = 0
            /\ deliveries[r] = 0

\* Once 'sent', 'failed' or 'discarded', a row and its attempts never change
\* again; only the deletion of its tenant removes it.
SettledForever ==
    [][\A r \in Rows : row[r] \in Settled =>
          /\ row'[r] \in {row[r], "purged"}
          /\ attempts'[r] = attempts[r]]_vars

\* A pending row whose topic some worker owns from some time on does not stay
\* pending for ever, even if its notification was lost: the poll finds it.
EventuallySettled ==
    \A r \in Rows :
        (\E w \in Workers : <>[](TopicOf[r] \in owned[w]))
            => (row[r] = "pending" ~> row[r] # "pending")

\* What the worker's documentation says of a graceful stop: "the worker
\* finishes its current batch".  A worker that stops because of the signal has
\* settled every row it had claimed.
StopFinishesBatch ==
    [][\A w \in Workers :
          (cancelled[w] /\ pc[w] = "batch" /\ pc'[w] = "off" /\ faults' = faults)
             => \A r \in Batch(w) : attempts'[r] = attempts[r] + 1]_vars

\* What the claim's comment says of the topics a worker does not own: such a
\* row is never locked, never acked and never burns attempts.  A row handed to
\* the Router has a consumer there.
ProcessedRowsHaveConsumer ==
    [][\A w \in Workers, r \in Rows :
          (stage[w][r] = "todo" /\ stage'[w][r] = "ran")
             => TopicOf[r] \in owned[w]]_vars

\* The refinement mapping: a row inside an open business transaction does not
\* exist yet, the rest of its state is the committed one, and it was acted on
\* once a Processor returned nil for it.
Queue == INSTANCE EventQueue WITH
    Events   <- Rows,
    state    <- [r \in Rows |-> IF row[r] = "open" THEN "none" ELSE row[r]],
    acted    <- [r \in Rows |-> deliveries[r] > 0]

\* The outbox table, its producers and its competing workers implement the
\* event queue: an event is acknowledged only after a consumer acted on it,
\* parked only on its last attempt, and never revived once settled.
ImplementsEventQueue == Queue!QSpec

=============================================================================
