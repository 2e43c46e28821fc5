------------------------------ MODULE Reminders ------------------------------
(***************************************************************************)
(* The per-row "time" trigger: pkg/workflows/reminders.go (Sweep, sweepOne, *)
(* fireIfDue, RunClaimed, ClaimReminder, PruneReminders), swept from the   *)
(* scheduler's tick.                                                       *)
(*                                                                         *)
(* One time workflow of one tenant: sweepOne treats every such pair alone. *)
(* A row is its id, its time field and whether it matches the trigger's    *)
(* `when`; the run's steps are abstracted to the outbox row they enqueue   *)
(* on the claim's transaction.  Several sweepers may be at work: the       *)
(* leader lock of the scheduler can be lost in the middle of a sweep, so   *)
(* exactly-once must not rest on it.                                       *)
(***************************************************************************)
EXTENDS Integers, FiniteSets

CONSTANTS
    Rows,        \* rows of the resource, by id
    Fields,      \* values of the time field
    Sweepers,    \* workers whose scheduler sweeps
    None,
    Before,      \* the trigger is "before" (else "after")
    Offset,
    Grace,       \* Workflow.Grace
    Retention,   \* reminderRetention
    PageSize,    \* rows of one API page
    MaxPages,    \* pages of one sweep
    SweepBound,  \* how long one sweep may take
    Punctual,    \* no Grace passes without a sweep that begins, meets no error and ends
    FaultKinds,  \* the faults of this instance
    MaxTime,     \* bound of the model: instants
    MaxFaults    \* bound of the model: faults and writes

\* Workflow.DueAt: the due instant of a row whose field is f.
DueAt(f) == IF Before THEN f - Offset ELSE f + Offset

Dues == {DueAt(f) : f \in Fields}

ASSUME RemindersAssumption ==
    /\ Rows \subseteq Nat \ {0}
    /\ IsFiniteSet(Rows)
    /\ Fields \subseteq Int
    /\ None \notin Int
    /\ Before \in BOOLEAN /\ Punctual \in BOOLEAN
    /\ Offset \in Nat \ {0}
    /\ Grace \in Nat \ {0}
    /\ Retention \in Nat
    /\ PageSize \in Nat \ {0} /\ MaxPages \in Nat \ {0}
    /\ SweepBound \in Nat \ {0}
    /\ FaultKinds \subseteq {"crash", "error", "write"}
    /\ MaxTime \in Nat /\ MaxFaults \in Nat

VARIABLES
    clock,
    row,       \* the resource's table: field and match of each row, or None
    ledger,    \* public.workflow_reminders: fired_at of each claimed (row, due)
    enqueued,  \* history: outbox rows committed for each (row, due)
    pc,        \* where a sweeper is in sweepOne / fireIfDue / RunClaimed
    now,       \* Sweep: now
    after,     \* sweepOne: the keyset cursor
    pages,     \* sweepOne: page
    page,      \* sweepOne: pageOut.Data not looked at yet
    more,      \* sweepOne: pageOut.Meta.HasNext
    cand,      \* fireIfDue: the row and due instant to fire
    firedAt,   \* RunClaimed: now() of the claim's transaction
    clean,     \* history: the sweep has met no error so far
    swept,     \* history: the latest beginning of a sweep that ended without an error
    faults     \* faults and writes so far, bounded by MaxFaults

paging == <<now, after, pages, page, more>>
claim  == <<cand, firedAt>>
vars   == <<clock, row, ledger, enqueued, pc, now, after, pages, page, more, cand,
            firedAt, clean, swept, faults>>

RowValue == [at : Fields, matches : BOOLEAN]
Record   == [id : Rows, at : Fields, matches : BOOLEAN]
Key      == [id : Rows, due : Dues]
Location == {"down", "idle", "list", "page", "claim", "run", "prune"}
Sweeping == {"list", "page", "claim", "run", "prune"}

Init ==
    /\ clock = 0
    /\ row \in [Rows -> RowValue \cup {None}]
    /\ ledger = [r \in Rows |-> [d \in Dues |-> None]]
    /\ enqueued = [r \in Rows |-> [d \in Dues |-> 0]]
    /\ pc = [w \in Sweepers |-> "down"]
    /\ now = [w \in Sweepers |-> 0]
    /\ after = [w \in Sweepers |-> 0]
    /\ pages = [w \in Sweepers |-> 0]
    /\ page = [w \in Sweepers |-> {}]
    /\ more = [w \in Sweepers |-> FALSE]
    /\ cand = [w \in Sweepers |-> None]
    /\ firedAt = [w \in Sweepers |-> 0]
    /\ clean = [w \in Sweepers |-> TRUE]
    /\ swept = -1
    /\ faults = 0

Fault(kind) ==
    /\ kind \in FaultKinds
    /\ faults < MaxFaults
    /\ faults' = faults + 1

Stain(w) == clean' = [clean EXCEPT ![w] = FALSE]

-----------------------------------------------------------------------------
(***************************************************************************)
(* The world around the sweep.                                             *)
(***************************************************************************)

\* No sweep outlives SweepBound (its API calls and steps have timeouts).
Clock ==
    /\ clock < MaxTime
    /\ \A w \in Sweepers : pc[w] \in Sweeping => clock - now[w] < SweepBound
    /\ Punctual => clock - swept < Grace
    /\ clock' = clock + 1
    /\ UNCHANGED <<row, ledger, enqueued, pc, paging, claim, clean, swept, faults>>

\* A client creates, reschedules, cancels or deletes a row through the API.
Write(r, v) ==
    /\ v # row[r]
    /\ Fault("write")
    /\ row' = [row EXCEPT ![r] = v]
    /\ UNCHANGED <<clock, ledger, enqueued, pc, paging, claim, clean, swept>>

Start(w) ==
    /\ pc[w] = "down"
    /\ pc' = [pc EXCEPT ![w] = "idle"]
    /\ UNCHANGED <<clock, row, ledger, enqueued, paging, claim, clean, swept, faults>>

\* The process dies: an open transaction rolls back, with its claim and its
\* outbox row.
Crash(w) ==
    /\ pc[w] # "down"
    /\ Fault("crash")
    /\ pc' = [pc EXCEPT ![w] = "down"]
    /\ UNCHANGED <<clock, row, ledger, enqueued, paging, claim, clean, swept>>

-----------------------------------------------------------------------------
(***************************************************************************)
(* Sweep and sweepOne: page through the rows inside the window.            *)
(***************************************************************************)

\* Mutant: now is read once, by the first sweep of the process.
BeginSweepOnce(w) ==
    /\ pc[w] = "idle"
    /\ pc' = [pc EXCEPT ![w] = "list"]
    /\ now' = [now EXCEPT ![w] = IF @ = 0 THEN clock ELSE @]
    /\ after' = [after EXCEPT ![w] = 0]
    /\ pages' = [pages EXCEPT ![w] = 0]
    /\ clean' = [clean EXCEPT ![w] = TRUE]
    /\ UNCHANGED <<clock, row, ledger, enqueued, page, more, claim, swept, faults>>

BeginSweep(w) ==
    /\ pc[w] = "idle"
    /\ pc' = [pc EXCEPT ![w] = "list"]
    /\ now' = [now EXCEPT ![w] = clock]
    /\ after' = [after EXCEPT ![w] = 0]
    /\ pages' = [pages EXCEPT ![w] = 0]
    /\ clean' = [clean EXCEPT ![w] = TRUE]
    /\ UNCHANGED <<clock, row, ledger, enqueued, page, more, claim, swept, faults>>

\* reminderWindow: from exclusive, to inclusive.
InWindow(f, t) ==
    LET off == IF Before THEN -Offset ELSE Offset
    IN  t - Grace - off < f /\ f <= t - off

\* The n smallest of a set of ids.
FirstOf(S, n) == {r \in S : Cardinality({x \in S : x < r}) < n}

\* Mutant: no page ceiling.
ListUncapped(w) ==
    LET hits == {r \in Rows : row[r] # None /\ InWindow(row[r].at, now[w]) /\ r > after[w]}
        got  == FirstOf(hits, PageSize)
    IN  /\ pc[w] = "list"
        /\ page' = [page EXCEPT ![w] = {[id |-> r, at |-> row[r].at, matches |-> row[r].matches] : r \in got}]
        /\ more' = [more EXCEPT ![w] = Cardinality(got) = PageSize]
        /\ \E last \in got \cup {after[w]} :
              (\A r \in got : r <= last) /\ after' = [after EXCEPT ![w] = last]
        /\ pages' = [pages EXCEPT ![w] = @ + 1]
        /\ pc' = [pc EXCEPT ![w] = "page"]
        /\ UNCHANGED <<clock, row, ledger, enqueued, now, claim, clean, swept, faults>>

\* GET /api/{resource} with the window as filters, in id order from the cursor.
List(w) ==
    LET hits == {r \in Rows : row[r] # None /\ InWindow(row[r].at, now[w]) /\ r > after[w]}
        got  == FirstOf(hits, PageSize)
    IN  /\ pc[w] = "list"
        /\ pages[w] < MaxPages
        /\ page' = [page EXCEPT ![w] = {[id |-> r, at |-> row[r].at, matches |-> row[r].matches] : r \in got}]
        /\ more' = [more EXCEPT ![w] = Cardinality(got) = PageSize]
        /\ \E last \in got \cup {after[w]} :
              (\A r \in got : r <= last) /\ after' = [after EXCEPT ![w] = last]
        /\ pages' = [pages EXCEPT ![w] = @ + 1]
        /\ pc' = [pc EXCEPT ![w] = "page"]
        /\ UNCHANGED <<clock, row, ledger, enqueued, now, claim, clean, swept, faults>>

\* The page ceiling, or an API call that fails, ends this workflow's sweep.
StopListing(w) ==
    /\ pc[w] = "list"
    /\ \/ pages[w] = MaxPages /\ UNCHANGED <<clean, faults>>
       \/ pages[w] < MaxPages /\ Fault("error") /\ Stain(w)
    /\ pc' = [pc EXCEPT ![w] = "prune"]
    /\ UNCHANGED <<clock, row, ledger, enqueued, paging, claim, swept>>

\* Mutant: only the first page is read.
EndFirstPage(w) ==
    /\ pc[w] = "page"
    /\ page[w] = {}
    /\ pc' = [pc EXCEPT ![w] = "prune"]
    /\ UNCHANGED <<clock, row, ledger, enqueued, paging, claim, clean, swept, faults>>

EndPage(w) ==
    /\ pc[w] = "page"
    /\ page[w] = {}
    /\ pc' = [pc EXCEPT ![w] = IF more[w] THEN "list" ELSE "prune"]
    /\ UNCHANGED <<clock, row, ledger, enqueued, paging, claim, clean, swept, faults>>

-----------------------------------------------------------------------------
(***************************************************************************)
(* fireIfDue.                                                              *)
(***************************************************************************)

\* The row as listed matches `when` and its instant is within grace.
Fireable(rec, t) ==
    /\ rec.matches
    /\ DueAt(rec.at) <= t
    /\ t - DueAt(rec.at) <= Grace

\* Look at the next row of the page: go on to RunClaimed when it is fireable
\* and ReminderFired does not find it in the ledger (or skip it when that
\* query fails).  RunClaimed begins its transaction, and with it now().
Consider(w) ==
    \E rec \in page[w] :
        LET due == DueAt(rec.at)
        IN  /\ pc[w] = "page"
            /\ \A x \in page[w] : rec.id <= x.id
            /\ page' = [page EXCEPT ![w] = @ \ {rec}]
            /\ \/ /\ Fireable(rec, now[w])
                  /\ ledger[rec.id][due] = None
                  /\ pc' = [pc EXCEPT ![w] = "claim"]
                  /\ cand' = [cand EXCEPT ![w] = [id |-> rec.id, due |-> due]]
                  /\ firedAt' = [firedAt EXCEPT ![w] = clock]
                  /\ UNCHANGED <<clean, faults>>
               \/ /\ ~Fireable(rec, now[w]) \/ ledger[rec.id][due] # None
                  /\ UNCHANGED <<pc, cand, firedAt, clean, faults>>
               \/ /\ Fireable(rec, now[w])
                  /\ Fault("error") /\ Stain(w)
                  /\ UNCHANGED <<pc, cand, firedAt>>
            /\ UNCHANGED <<clock, row, ledger, enqueued, now, after, pages, more, swept>>

-----------------------------------------------------------------------------
(***************************************************************************)
(* RunClaimed: one transaction.                                            *)
(***************************************************************************)

\* INSERT ... ON CONFLICT DO NOTHING waits for a transaction that has inserted
\* the same key and not ended; it claims nothing if the key is committed.
Blocked(w) == \E v \in Sweepers \ {w} : pc[v] = "run" /\ cand[v] = cand[w]

\* Mutant: RowsAffected is not looked at.
ClaimedIgnored(w) == FALSE

Claimed(w) == ledger[cand[w].id][cand[w].due] # None

Claim(w) ==
    /\ pc[w] = "claim"
    /\ ~Blocked(w)
    /\ pc' = [pc EXCEPT ![w] = IF Claimed(w) THEN "page" ELSE "run"]
    /\ UNCHANGED <<clock, row, ledger, enqueued, paging, claim, clean, swept, faults>>

\* The claim fails or the steps fail: everything rolls back, and the next
\* sweep finds the row again.
RunFails(w) ==
    /\ pc[w] \in {"claim", "run"}
    /\ Fault("error") /\ Stain(w)
    /\ pc' = [pc EXCEPT ![w] = "page"]
    /\ UNCHANGED <<clock, row, ledger, enqueued, paging, claim, swept>>

\* The steps have enqueued and the transaction commits, claim and outbox row
\* together; whether the answer to COMMIT arrives changes only the run log.
Commit(w) ==
    LET r == cand[w].id
        d == cand[w].due
    IN  /\ pc[w] = "run"
        /\ ledger' = [ledger EXCEPT ![r][d] = firedAt[w]]
        /\ enqueued' = [enqueued EXCEPT ![r][d] = @ + 1]
        /\ pc' = [pc EXCEPT ![w] = "page"]
        /\ UNCHANGED <<clock, row, paging, claim, clean, swept, faults>>

\* PruneReminders, once per Sweep; a failure is only logged.
Prune(w) ==
    /\ pc[w] = "prune"
    /\ \/ /\ ledger' = [r \in Rows |-> [d \in Dues |->
                IF ledger[r][d] # None /\ ledger[r][d] < clock - Retention THEN None ELSE ledger[r][d]]]
          /\ UNCHANGED faults
       \/ UNCHANGED ledger /\ Fault("error")
    /\ pc' = [pc EXCEPT ![w] = "idle"]
    /\ swept' = IF clean[w] /\ now[w] > swept THEN now[w] ELSE swept
    /\ UNCHANGED <<clock, row, enqueued, paging, claim, clean>>

-----------------------------------------------------------------------------
Next ==
    \/ Clock
    \/ \E r \in Rows, v \in RowValue \cup {None} : Write(r, v)
    \/ \E w \in Sweepers :
          \/ Start(w) \/ Crash(w) \/ BeginSweep(w) \/ List(w) \/ StopListing(w) \/ EndPage(w)
          \/ Consider(w) \/ Claim(w) \/ RunFails(w) \/ Commit(w) \/ Prune(w)

Spec == Init /\ [][Next]_vars

-----------------------------------------------------------------------------
(***************************************************************************)
(* Properties.                                                             *)
(***************************************************************************)

\* Every variable has its type.
TypeOK ==
    /\ clock \in 0..MaxTime
    /\ row \in [Rows -> RowValue \cup {None}]
    /\ ledger \in [Rows -> [Dues -> Nat \cup {None}]]
    /\ enqueued \in [Rows -> [Dues -> Nat]]
    /\ pc \in [Sweepers -> Location]
    /\ now \in [Sweepers -> 0..MaxTime]
    /\ after \in [Sweepers -> Nat]
    /\ pages \in [Sweepers -> 0..MaxPages]
    /\ page \in [Sweepers -> SUBSET Record]
    /\ more \in [Sweepers -> BOOLEAN]
    /\ cand \in [Sweepers -> Key \cup {None}]
    /\ firedAt \in [Sweepers -> 0..MaxTime]
    /\ clean \in [Sweepers -> BOOLEAN]
    /\ swept \in Int
    /\ faults \in 0..MaxFaults

\* The exactly-once ledger: however many sweepers race, crash or fail between
\* claim and commit, the outbox gets at most one row for a (row, due instant)
\* (reminders.go, RunClaimed with ClaimReminder and PruneReminders).
EnqueuedOnce ==
    \A r \in Rows, d \in Dues : enqueued[r][d] <= 1

\* A reminder is never early, and late by at most its grace plus the time a
\* sweep takes: fireIfDue judges by the instant at which the sweep began.
FiredInTime ==
    [][\A r \in Rows, d \in Dues :
          enqueued'[r][d] # enqueued[r][d] => d <= clock /\ clock <= d + Grace + SweepBound]_vars

\* Never lost: when no Grace passes without a sweep that meets no error, a row that
\* is there from the beginning has fired by the time its grace is over.
NoReminderMissed ==
    \A r \in Rows :
        row[r] # None => LET d == DueAt(row[r].at)
                         IN  row[r].matches /\ d >= 0 /\ clock > d + Grace => enqueued[r][d] > 0

\* "a row whose time moves fires once at its new moment and never at the old
\* one", and a row that stops matching never fires: what is enqueued is what
\* the row says.
FiresCurrentRow ==
    [][\A r \in Rows, d \in Dues :
          enqueued'[r][d] # enqueued[r][d] =>
             row[r] # None /\ row[r].matches /\ DueAt(row[r].at) = d]_vars
=============================================================================
