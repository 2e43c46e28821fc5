--------------------------- MODULE RemindersProofs ---------------------------
(***************************************************************************)
(* Proofs about Reminders, for any rows, sweepers and faults: type         *)
(* correctness; a reminder is fired within its grace; and the ledger makes *)
(* the enqueue exactly-once as long as it remembers a claim for at least   *)
(* the grace plus the time of one sweep.                                   *)
(***************************************************************************)
EXTENDS Reminders, FiniteSetTheorems, WellFoundedInduction, TLAPS

-----------------------------------------------------------------------------
(***************************************************************************)
(* Type correctness.                                                       *)
(***************************************************************************)

\* RunClaimed always has a candidate.
HasCandidate == \A w \in Sweepers : pc[w] \in {"claim", "run"} => cand[w] \in Key

TypeInv == TypeOK /\ HasCandidate

\* Due instants are integers: a negative offset may precede the clock's origin.
LEMMA DuesAreInts == Dues \subseteq Int
BY RemindersAssumption DEF Dues, DueAt

\* The absent value is no instant.
LEMMA NoneIsNoKey == None \notin Nat
BY RemindersAssumption

\* A fault stays within its budget.
LEMMA FaultCounted == ASSUME TypeOK, NEW kind, Fault(kind) PROVE faults' \in 0..MaxFaults
BY RemindersAssumption DEF TypeOK, Fault

\* The first boot has the types.
LEMMA TypeInit == Init => TypeInv
<1> SUFFICES ASSUME Init PROVE TypeInv OBVIOUS
<1>1. TypeOK BY RemindersAssumption DEF Init, TypeOK, Location
<1>2. HasCandidate BY DEF Init, HasCandidate
<1> QED BY <1>1, <1>2 DEF TypeInv

\* Every step keeps the types and the candidate a claim needs.
LEMMA TypeStep == TypeInv /\ [Next]_vars => TypeInv'
<1> SUFFICES ASSUME TypeInv, [Next]_vars PROVE TypeInv' OBVIOUS
<1> USE RemindersAssumption DEF TypeInv, paging, claim
<1>1. CASE Clock \/ UNCHANGED vars
    <2>1. TypeOK' BY <1>1 DEF Clock, vars, TypeOK
    <2>2. HasCandidate' BY <1>1 DEF Clock, vars, HasCandidate
    <2> QED BY <2>1, <2>2
<1>2. ASSUME NEW r \in Rows, NEW v \in RowValue \cup {None}, Write(r, v) PROVE TypeInv'
    <2>1. faults' \in 0..MaxFaults BY <1>2, FaultCounted DEF Write
    <2>2. TypeOK' BY <1>2, <2>1 DEF Write, TypeOK
    <2>3. HasCandidate' BY <1>2 DEF Write, HasCandidate
    <2> QED BY <2>2, <2>3
<1>3. ASSUME NEW w \in Sweepers, Start(w) \/ BeginSweep(w) \/ EndPage(w) PROVE TypeInv'
    <2>0. clean' = clean \/ clean' = [clean EXCEPT ![w] = TRUE]
        BY <1>3 DEF Start, BeginSweep, EndPage
    <2>c. clean' \in [Sweepers -> BOOLEAN] BY <2>0, Zenon DEF TypeOK
    <2>1. TypeOK'
        <3>1. CASE Start(w) \/ EndPage(w)
            BY <3>1, <2>c DEF Start, EndPage, TypeOK, Location
        <3>2. CASE BeginSweep(w)
            BY <3>2, <2>c DEF BeginSweep, TypeOK, Location
        <3> QED BY <1>3, <3>1, <3>2
    <2>2. HasCandidate' BY <1>3 DEF Start, BeginSweep, EndPage, HasCandidate, TypeOK
    <2> QED BY <2>1, <2>2
<1>4. ASSUME NEW w \in Sweepers, Crash(w) \/ StopListing(w) \/ RunFails(w) PROVE TypeInv'
    <2>1. faults' \in 0..MaxFaults
        BY <1>4, FaultCounted DEF Crash, StopListing, RunFails, TypeOK
    <2>0. clean' = clean \/ clean' = [clean EXCEPT ![w] = FALSE]
        BY <1>4 DEF Crash, StopListing, RunFails, Stain
    <2>c. clean' \in [Sweepers -> BOOLEAN] BY <2>0, Zenon DEF TypeOK
    <2>2. TypeOK' BY <1>4, <2>1, <2>c DEF Crash, StopListing, RunFails, TypeOK, Location
    <2>3. HasCandidate' BY <1>4 DEF Crash, StopListing, RunFails, HasCandidate, TypeOK
    <2> QED BY <2>2, <2>3
<1>5. ASSUME NEW w \in Sweepers, List(w) PROVE TypeInv'
    <2> DEFINE hits == {r \in Rows : row[r] # None /\ InWindow(row[r].at, now[w]) /\ r > after[w]}
               got  == FirstOf(hits, PageSize)
               data == {[id |-> r, at |-> row[r].at, matches |-> row[r].matches] : r \in got}
    <2>1. got \subseteq Rows /\ \A r \in got : row[r] \in RowValue
        BY DEF FirstOf, TypeOK
    <2>2. data \subseteq Record
        <3>1. \A v \in RowValue : v.at \in Fields /\ v.matches \in BOOLEAN BY DEF RowValue
        <3>2. ASSUME NEW r \in got
              PROVE  [id |-> r, at |-> row[r].at, matches |-> row[r].matches] \in Record
            <4>1. r \in Rows /\ row[r].at \in Fields /\ row[r].matches \in BOOLEAN
                BY <2>1, <3>1, <3>2, Zenon
            <4> HIDE DEF got
            <4> QED BY <4>1, Zenon DEF Record
        <3> HIDE DEF got
        <3> QED BY <3>2, Zenon
    <2>3. page' = [page EXCEPT ![w] = data] BY <1>5 DEF List
    <2>4. more' = [more EXCEPT ![w] = Cardinality(got) = PageSize] BY <1>5 DEF List
    <2>5. PICK last \in got \cup {after[w]} : after' = [after EXCEPT ![w] = last]
        BY <1>5 DEF List
    <2>6. last \in Nat BY <2>1, <2>5 DEF TypeOK
    <2>7. pages' = [pages EXCEPT ![w] = @ + 1] /\ pages[w] < MaxPages BY <1>5 DEF List
    <2>8. pages' \in [Sweepers -> 0..MaxPages] BY <2>7 DEF TypeOK
    <2> HIDE DEF data, got
    <2>9. page' \in [Sweepers -> SUBSET Record] /\ more' \in [Sweepers -> BOOLEAN]
        BY <2>2, <2>3, <2>4, Zenon DEF TypeOK
    <2>10. after' \in [Sweepers -> Nat] BY <2>5, <2>6 DEF TypeOK
    <2>11. pc' \in [Sweepers -> Location] BY <1>5 DEF List, TypeOK, Location
    <2>12. TypeOK' BY <1>5, <2>8, <2>9, <2>10, <2>11 DEF List, TypeOK
    <2>13. HasCandidate' BY <1>5 DEF List, HasCandidate, TypeOK
    <2> QED BY <2>12, <2>13
<1>6. ASSUME NEW w \in Sweepers, Consider(w) PROVE TypeInv'
    <2>1. PICK rec \in page[w] :
             /\ page' = [page EXCEPT ![w] = @ \ {rec}]
             /\ \/ /\ pc' = [pc EXCEPT ![w] = "claim"]
                   /\ cand' = [cand EXCEPT ![w] = [id |-> rec.id, due |-> DueAt(rec.at)]]
                \/ UNCHANGED <<pc, cand>>
        BY <1>6 DEF Consider
    <2>2. rec \in Record BY <2>1 DEF TypeOK
    <2>3. [id |-> rec.id, due |-> DueAt(rec.at)] \in Key BY <2>2 DEF Key, Record, Dues
    <2>4. faults' \in 0..MaxFaults BY <1>6, FaultCounted DEF Consider, TypeOK
    <2>5. page' \in [Sweepers -> SUBSET Record] BY <2>1 DEF TypeOK
    <2>6. cand' \in [Sweepers -> Key \cup {None}] BY <2>1, <2>3 DEF TypeOK
    <2>7. pc' \in [Sweepers -> Location] BY <2>1 DEF TypeOK, Location
    <2>0. clean' = clean \/ clean' = [clean EXCEPT ![w] = FALSE]
        BY <1>6 DEF Consider, Stain
    <2>c. clean' \in [Sweepers -> BOOLEAN] BY <2>0, Zenon DEF TypeOK
    <2>8. TypeOK' BY <1>6, <2>4, <2>5, <2>6, <2>7, <2>c DEF Consider, TypeOK
    <2>9. HasCandidate' BY <2>1, <2>3 DEF HasCandidate, TypeOK
    <2> QED BY <2>8, <2>9
<1>7. ASSUME NEW w \in Sweepers, Claim(w) PROVE TypeInv'
    <2>1. TypeOK' BY <1>7 DEF Claim, TypeOK, Location
    <2>2. HasCandidate' BY <1>7 DEF Claim, HasCandidate, TypeOK
    <2> QED BY <2>1, <2>2
<1>8. ASSUME NEW w \in Sweepers, Commit(w) PROVE TypeInv'
    <2>1. cand[w] \in Key BY <1>8 DEF Commit, HasCandidate
    <2>2. cand[w].id \in Rows /\ cand[w].due \in Dues BY <2>1 DEF Key
    <2>a. firedAt[w] \in Nat /\ enqueued[cand[w].id][cand[w].due] + 1 \in Nat
        <3>1. firedAt[w] \in 0..MaxTime BY DEF TypeOK
        <3>2. enqueued[cand[w].id] \in [Dues -> Nat] BY <2>2 DEF TypeOK
        <3>3. enqueued[cand[w].id][cand[w].due] \in Nat BY <2>2, <3>2
        <3> QED BY <3>1, <3>3
    <2>3. ledger' \in [Rows -> [Dues -> Nat \cup {None}]]
        <3>1. [ledger[cand[w].id] EXCEPT ![cand[w].due] = firedAt[w]] \in [Dues -> Nat \cup {None}]
            BY <2>2, <2>a DEF TypeOK
        <3>2. ledger' = [ledger EXCEPT ![cand[w].id] = [ledger[cand[w].id] EXCEPT ![cand[w].due] = firedAt[w]]]
            BY <1>8 DEF Commit
        <3> QED BY <3>1, <3>2 DEF TypeOK
    <2>4. enqueued' \in [Rows -> [Dues -> Nat]]
        <3> DEFINE e == enqueued[cand[w].id][cand[w].due] + 1
        <3>1. [enqueued[cand[w].id] EXCEPT ![cand[w].due] = e] \in [Dues -> Nat]
            BY <2>2, <2>a DEF TypeOK
        <3>2. enqueued' = [enqueued EXCEPT ![cand[w].id] = [enqueued[cand[w].id] EXCEPT ![cand[w].due] = e]]
            BY <1>8 DEF Commit
        <3> HIDE DEF e
        <3> QED BY <3>1, <3>2 DEF TypeOK
    <2>5. TypeOK' BY <1>8, <2>3, <2>4 DEF Commit, TypeOK, Location
    <2>6. HasCandidate' BY <1>8 DEF Commit, HasCandidate, TypeOK
    <2> QED BY <2>5, <2>6
<1>9. ASSUME NEW w \in Sweepers, Prune(w) PROVE TypeInv'
    <2>1. faults' \in 0..MaxFaults BY <1>9, FaultCounted DEF Prune, TypeOK
    <2>2. ledger' \in [Rows -> [Dues -> Nat \cup {None}]] BY <1>9 DEF Prune, TypeOK
    <2>3. TypeOK' BY <1>9, <2>1, <2>2 DEF Prune, TypeOK, Location
    <2>4. HasCandidate' BY <1>9 DEF Prune, HasCandidate, TypeOK
    <2> QED BY <2>3, <2>4
<1> QED
    BY <1>1, <1>2, <1>3, <1>4, <1>5, <1>6, <1>7, <1>8, <1>9 DEF Next

\* Every behaviour of the sweepers keeps its types.
THEOREM TypeCorrect == Spec => []TypeOK
<1>1. Spec => []TypeInv BY TypeInit, TypeStep, PTL DEF Spec
<1> QED BY <1>1, PTL DEF TypeInv

-----------------------------------------------------------------------------
(***************************************************************************)
(* Fired in time: the clock is never further than SweepBound from the      *)
(* instant a sweep judges by, and what it fires was fireable then.         *)
(***************************************************************************)

SweepIsRecent ==
    \A w \in Sweepers :
        pc[w] \in Sweeping => now[w] <= clock /\ clock <= now[w] + SweepBound

CandidateIsDue ==
    \A w \in Sweepers :
        pc[w] \in {"claim", "run"} =>
            cand[w].due <= now[w] /\ now[w] - cand[w].due <= Grace

TimeInv == SweepIsRecent /\ CandidateIsDue

\* What a sweeper in RunClaimed knows of its candidate.
LEMMA CandidateTime ==
    ASSUME TypeInv, TimeInv, NEW w \in Sweepers, pc[w] \in {"claim", "run"}
    PROVE  /\ cand[w].id \in Rows /\ cand[w].due \in Dues /\ cand[w].due \in Int
           /\ cand[w].due <= clock /\ clock <= cand[w].due + Grace + SweepBound
<1>1. cand[w] \in Key BY DEF TypeInv, HasCandidate
<1>2. cand[w].id \in Rows /\ cand[w].due \in Dues /\ cand[w].due \in Int
    BY <1>1, DuesAreInts DEF Key
<1>3. now[w] <= clock /\ clock <= now[w] + SweepBound BY DEF TimeInv, SweepIsRecent, Sweeping
<1>4. cand[w].due <= now[w] /\ now[w] - cand[w].due <= Grace BY DEF TimeInv, CandidateIsDue
<1>5. now[w] \in Int /\ clock \in Int /\ SweepBound \in Int /\ Grace \in Int
    BY RemindersAssumption DEF TypeInv, TypeOK
<1> QED BY <1>2, <1>3, <1>4, <1>5

\* Every step keeps a sweep recent and its candidate due within the grace.
LEMMA TimeStep == TypeInv /\ TimeInv /\ [Next]_vars => TimeInv'
<1> SUFFICES ASSUME TypeInv, TimeInv, [Next]_vars PROVE TimeInv' OBVIOUS
<1> USE RemindersAssumption DEF TimeInv, TypeInv, paging, claim
<1>1. CASE Clock
    <2>1. SweepIsRecent' BY <1>1 DEF Clock, SweepIsRecent, TypeOK
    <2>2. CandidateIsDue' BY <1>1 DEF Clock, CandidateIsDue
    <2> QED BY <2>1, <2>2
<1>2. ASSUME UNCHANGED <<clock, now, cand>>,
             \A w \in Sweepers : pc'[w] \in Sweeping => pc[w] \in Sweeping,
             \A w \in Sweepers : pc'[w] \in {"claim", "run"} => pc[w] \in {"claim", "run"}
      PROVE TimeInv'
    BY <1>2 DEF SweepIsRecent, CandidateIsDue
<1>3. CASE UNCHANGED vars
    BY <1>2, <1>3 DEF vars
<1>4. ASSUME NEW r \in Rows, NEW v \in RowValue \cup {None}, Write(r, v) PROVE TimeInv'
    BY <1>2, <1>4 DEF Write
<1>5. ASSUME NEW w \in Sweepers,
             Start(w) \/ Crash(w) \/ List(w) \/ StopListing(w) \/ EndPage(w) \/ Claim(w)
             \/ RunFails(w) \/ Commit(w) \/ Prune(w)
      PROVE TimeInv'
    <2>1. UNCHANGED <<clock, now, cand>>
        BY <1>5 DEF Start, Crash, List, StopListing, EndPage, Claim, RunFails, Commit, Prune
    <2>2. /\ \A v \in Sweepers \ {w} : pc'[v] = pc[v]
          /\ pc'[w] \in Sweeping => pc[w] \in Sweeping
          /\ pc'[w] \in {"claim", "run"} => pc[w] \in {"claim", "run"}
        BY <1>5 DEF Start, Crash, List, StopListing, EndPage, Claim, RunFails, Commit, Prune,
                    Sweeping, TypeOK
    <2> QED BY <1>2, <2>1, <2>2
<1>6. ASSUME NEW w \in Sweepers, BeginSweep(w) PROVE TimeInv'
    <2>1. SweepIsRecent' BY <1>6 DEF BeginSweep, SweepIsRecent, TypeOK
    <2>2. CandidateIsDue' BY <1>6 DEF BeginSweep, CandidateIsDue, TypeOK
    <2> QED BY <2>1, <2>2
<1>7. ASSUME NEW w \in Sweepers, Consider(w) PROVE TimeInv'
    <2>1. PICK rec \in page[w] :
             \/ /\ Fireable(rec, now[w])
                /\ pc' = [pc EXCEPT ![w] = "claim"]
                /\ cand' = [cand EXCEPT ![w] = [id |-> rec.id, due |-> DueAt(rec.at)]]
             \/ UNCHANGED <<pc, cand>>
        BY <1>7 DEF Consider
    <2>2. UNCHANGED <<clock, now>> /\ pc[w] = "page" BY <1>7 DEF Consider
    <2>3. SweepIsRecent' BY <2>1, <2>2 DEF SweepIsRecent, Sweeping, TypeOK
    <2>4. CandidateIsDue' BY <2>1, <2>2 DEF CandidateIsDue, Fireable, TypeOK
    <2> QED BY <2>3, <2>4
<1> QED BY <1>1, <1>3, <1>4, <1>5, <1>6, <1>7 DEF Next

\* Sweeps are recent and candidates due, in every reachable state.
LEMMA TimeInvariance == Spec => [](TypeInv /\ TimeInv)
<1>1. Init => TimeInv BY DEF Init, TimeInv, SweepIsRecent, CandidateIsDue, Sweeping
<1>2. TypeInv /\ TimeInv /\ [Next]_vars => (TypeInv /\ TimeInv)' BY TypeStep, TimeStep
<1> QED BY <1>1, <1>2, TypeInit, PTL DEF Spec

\* Only the commit of RunClaimed enqueues a reminder event.
LEMMA OnlyCommitEnqueues ==
    ASSUME [Next]_vars, enqueued' # enqueued
    PROVE  \E w \in Sweepers : Commit(w)
BY DEF Next, vars, Clock, Write, Start, Crash, BeginSweep, List, StopListing, EndPage, Consider,
       Claim, RunFails, Prune

\* A reminder is never enqueued before it is due, nor later than its grace and
\* one sweep after.
THEOREM InTime == Spec => FiredInTime
<1>1. ASSUME TypeInv, TimeInv, [Next]_vars, NEW r \in Rows, NEW d \in Dues,
             enqueued'[r][d] # enqueued[r][d]
      PROVE  d <= clock /\ clock <= d + Grace + SweepBound
    <2>1. PICK w \in Sweepers : Commit(w) BY <1>1, OnlyCommitEnqueues
    <2>2. pc[w] = "run" BY <2>1 DEF Commit
    <2>3. cand[w].due = d
        <3>1. cand[w].id \in Rows /\ cand[w].due \in Dues BY <1>1, <2>2, CandidateTime
        <3> QED BY <1>1, <2>1, <3>1 DEF Commit, TypeInv, TypeOK
    <2> QED BY <1>1, <2>2, <2>3, CandidateTime
<1>2. TypeInv /\ TimeInv /\ [Next]_vars =>
        [\A r \in Rows, d \in Dues :
            enqueued'[r][d] # enqueued[r][d] => d <= clock /\ clock <= d + Grace + SweepBound]_vars
    BY <1>1
<1> QED BY <1>2, TimeInvariance, PTL DEF Spec, FiredInTime

-----------------------------------------------------------------------------
(***************************************************************************)
(* Exactly once.  A claim in the ledger was made at or after its due        *)
(* instant; a fired instant the ledger has forgotten is so long past that   *)
(* no sweep can still find it within grace.                                 *)
(***************************************************************************)

LedgerTimes ==
    \A r \in Rows, d \in Dues :
        ledger[r][d] # None => d <= ledger[r][d] /\ ledger[r][d] <= clock /\ enqueued[r][d] = 1

Forgotten ==
    \A r \in Rows, d \in Dues :
        ledger[r][d] = None => enqueued[r][d] = 0 \/ (enqueued[r][d] = 1 /\ d < clock - Retention)

OpenClaims ==
    /\ \A w \in Sweepers :
          /\ pc[w] = "run" => ledger[cand[w].id][cand[w].due] = None
          /\ pc[w] \in {"claim", "run"} => cand[w].due <= firedAt[w] /\ firedAt[w] <= clock
    /\ \A v, w \in Sweepers : v # w /\ pc[v] = "run" /\ pc[w] = "run" => cand[v] # cand[w]

OnceInv == LedgerTimes /\ Forgotten /\ OpenClaims

\* A step that leaves the ledger, the clock and the open claims alone.
LEMMA OnceKept ==
    ASSUME TypeInv, OnceInv, UNCHANGED <<clock, ledger, enqueued, firedAt>>,
           \A w \in Sweepers : pc'[w] = "run" => pc[w] = "run" /\ cand'[w] = cand[w],
           \A w \in Sweepers : pc'[w] = "claim" => pc[w] = "claim" /\ cand'[w] = cand[w]
    PROVE  OnceInv'
BY DEF OnceInv, LedgerTimes, Forgotten, OpenClaims

\* A candidate just chosen is due.
LEMMA CandidateNext ==
    ASSUME TypeInv', TimeInv'
    PROVE  \A w \in Sweepers : pc'[w] = "claim" => cand'[w].due <= clock'
<1> SUFFICES ASSUME NEW w \in Sweepers, pc'[w] = "claim" PROVE cand'[w].due <= clock'
    OBVIOUS
<1>1. cand'[w] \in Key BY DEF TypeInv, HasCandidate
<1>2. cand'[w].due \in Int BY <1>1, DuesAreInts DEF Key
<1>3. now'[w] <= clock' BY DEF TimeInv, SweepIsRecent, Sweeping
<1>4. cand'[w].due <= now'[w] BY DEF TimeInv, CandidateIsDue
<1>5. now'[w] \in Int /\ clock' \in Int BY RemindersAssumption DEF TypeInv, TypeOK
<1> QED BY <1>2, <1>3, <1>4, <1>5

\* Every step keeps each (row, due) claimed once, when retention outlasts grace and sweep.
LEMMA OnceStep ==
    ASSUME Grace + SweepBound <= Retention, TypeInv, TypeInv', TimeInv, OnceInv, [Next]_vars
    PROVE  OnceInv'
<1> USE RemindersAssumption, DuesAreInts DEF OnceInv, paging, claim
<1>0. clock \in Int /\ Retention \in Int /\ \A r \in Rows, d \in Dues :
         d \in Int /\ (ledger[r][d] # None => ledger[r][d] \in Int) /\ enqueued[r][d] \in Int
    BY DEF TypeInv, TypeOK
<1>1. CASE Clock
    <2>1. clock' = clock + 1 /\ UNCHANGED <<ledger, enqueued, pc, cand, firedAt>>
        BY <1>1 DEF Clock
    <2>2. LedgerTimes' BY <1>0, <2>1 DEF LedgerTimes
    <2>3. Forgotten'
        <3>1. ASSUME NEW r \in Rows, NEW d \in Dues, ledger[r][d] = None
              PROVE  enqueued[r][d] = 0 \/ (enqueued[r][d] = 1 /\ d < clock' - Retention)
            <4>1. enqueued[r][d] = 0 \/ (enqueued[r][d] = 1 /\ d < clock - Retention)
                BY <3>1 DEF Forgotten
            <4>2. d \in Int BY <1>0
            <4> QED BY <1>0, <2>1, <4>1, <4>2
        <3> QED BY <2>1, <3>1 DEF Forgotten
    <2>4. \A w \in Sweepers : firedAt[w] \in Int BY DEF TypeInv, TypeOK
    <2>5. OpenClaims' BY <1>0, <2>1, <2>4 DEF OpenClaims
    <2> QED BY <2>2, <2>3, <2>5
<1>2. CASE UNCHANGED vars
    BY <1>2, OnceKept DEF vars
<1>3. ASSUME NEW r \in Rows, NEW v \in RowValue \cup {None}, Write(r, v) PROVE OnceInv'
    BY <1>3, OnceKept DEF Write
<1>4. ASSUME NEW w \in Sweepers,
             Start(w) \/ Crash(w) \/ BeginSweep(w) \/ List(w) \/ StopListing(w) \/ EndPage(w)
             \/ RunFails(w)
      PROVE OnceInv'
    <2>1. UNCHANGED <<clock, ledger, enqueued, firedAt, cand>>
        BY <1>4 DEF Start, Crash, BeginSweep, List, StopListing, EndPage, RunFails
    <2>2. \A v \in Sweepers : (pc'[v] = "run" => pc[v] = "run") /\ (pc'[v] = "claim" => pc[v] = "claim")
        BY <1>4 DEF Start, Crash, BeginSweep, List, StopListing, EndPage, RunFails, TypeInv, TypeOK
    <2> QED BY <2>1, <2>2, OnceKept
<1>5. ASSUME NEW w \in Sweepers, Consider(w) PROVE OnceInv'
    <2>1. UNCHANGED <<clock, ledger, enqueued>> /\ pc[w] = "page" BY <1>5 DEF Consider
    <2>2. /\ pc'[w] # "run"
          /\ \A v \in Sweepers \ {w} : pc'[v] = pc[v] /\ cand'[v] = cand[v] /\ firedAt'[v] = firedAt[v]
          /\ pc'[w] = "claim" => firedAt'[w] = clock
        BY <1>5 DEF Consider, TypeInv, TypeOK
    <2>3. pc'[w] = "claim" => cand'[w].due <= clock
        <3>1. TimeInv' BY TimeStep
        <3> QED BY <2>1, <3>1, CandidateNext
    <2>4. LedgerTimes' /\ Forgotten' BY <2>1 DEF LedgerTimes, Forgotten
    <2>5. OpenClaims' BY <1>0, <2>1, <2>2, <2>3 DEF OpenClaims
    <2> QED BY <2>4, <2>5
<1>6. ASSUME NEW w \in Sweepers, Claim(w) PROVE OnceInv'
    <2>1. UNCHANGED <<clock, ledger, enqueued, cand, firedAt>> /\ pc[w] = "claim" /\ ~Blocked(w)
        BY <1>6 DEF Claim
    <2>2. /\ \A v \in Sweepers \ {w} : pc'[v] = pc[v]
          /\ pc'[w] = "run" => ledger[cand[w].id][cand[w].due] = None
        BY <1>6 DEF Claim, Claimed, TypeInv, TypeOK
    <2>3. \A v \in Sweepers \ {w} : pc[v] = "run" => cand[v] # cand[w] BY <2>1 DEF Blocked
    <2>4. LedgerTimes' /\ Forgotten' BY <2>1 DEF LedgerTimes, Forgotten
    <2>5. OpenClaims' BY <2>1, <2>2, <2>3 DEF OpenClaims
    <2> QED BY <2>4, <2>5
<1>7. ASSUME NEW w \in Sweepers, Commit(w) PROVE OnceInv'
    <2> DEFINE r == cand[w].id
               d == cand[w].due
    <2>1. pc[w] = "run" /\ UNCHANGED <<clock, cand, firedAt>> BY <1>7 DEF Commit
    <2>2. r \in Rows /\ d \in Dues /\ d \in Int /\ clock <= d + Grace + SweepBound
        BY <2>1, CandidateTime
    <2>3. ledger[r][d] = None /\ d <= firedAt[w] /\ firedAt[w] <= clock
        BY <2>1 DEF OpenClaims
    <2>4. ~(d < clock - Retention) BY <2>2, <1>0
    <2>5. enqueued[r][d] = 0 BY <2>2, <2>3, <2>4 DEF Forgotten
    <2>6. /\ ledger'[r][d] = firedAt[w] /\ enqueued'[r][d] = 1
          /\ \A x \in Rows, y \in Dues : ~(x = r /\ y = d) =>
                ledger'[x][y] = ledger[x][y] /\ enqueued'[x][y] = enqueued[x][y]
        BY <1>7, <2>2, <2>5 DEF Commit, TypeInv, TypeOK
    <2>7. firedAt[w] # None BY DEF TypeInv, TypeOK
    <2> HIDE DEF r, d
    <2>8. LedgerTimes' BY <2>1, <2>2, <2>3, <2>6 DEF LedgerTimes
    <2>9. Forgotten'
        <3>1. ASSUME NEW x \in Rows, NEW y \in Dues, ledger'[x][y] = None
              PROVE  enqueued'[x][y] = 0 \/ (enqueued'[x][y] = 1 /\ y < clock' - Retention)
            <4>1. ~(x = r /\ y = d) BY <2>6, <2>7, <3>1
            <4>2. ledger[x][y] = None /\ enqueued'[x][y] = enqueued[x][y] BY <2>6, <3>1, <4>1
            <4>3. enqueued[x][y] = 0 \/ (enqueued[x][y] = 1 /\ y < clock - Retention)
                BY <4>2 DEF Forgotten
            <4> QED BY <2>1, <4>2, <4>3
        <3> QED BY <3>1, Zenon DEF Forgotten
    <2>10. pc'[w] # "run" /\ \A v \in Sweepers \ {w} : pc'[v] = pc[v]
        BY <1>7 DEF Commit, TypeInv, TypeOK
    <2>11. ASSUME NEW v \in Sweepers \ {w}, pc[v] = "run"
           PROVE  ledger'[cand[v].id][cand[v].due] = None
        <3>1. cand[v] # cand[w] /\ ledger[cand[v].id][cand[v].due] = None
            BY <2>1, <2>11 DEF OpenClaims
        <3>2. cand[v] \in Key /\ cand[w] \in Key
            BY <2>1, <2>11 DEF TypeInv, HasCandidate
        <3>3. ~(cand[v].id = r /\ cand[v].due = d) BY <3>1, <3>2 DEF Key, r, d
        <3>4. cand[v].id \in Rows /\ cand[v].due \in Dues BY <3>2 DEF Key
        <3> QED BY <2>6, <3>1, <3>3, <3>4
    <2>12. OpenClaims' BY <2>1, <2>10, <2>11 DEF OpenClaims
    <2> QED BY <2>8, <2>9, <2>12
<1>8. ASSUME NEW w \in Sweepers, Prune(w) PROVE OnceInv'
    <2>1. UNCHANGED <<clock, enqueued, cand, firedAt>> BY <1>8 DEF Prune
    <2>2. \A v \in Sweepers : (pc'[v] = "run" => pc[v] = "run") /\ (pc'[v] = "claim" => pc[v] = "claim")
        BY <1>8 DEF Prune, TypeInv, TypeOK
    <2>3. CASE ledger' = ledger
        BY <2>1, <2>2, <2>3, OnceKept
    <2>4. CASE ledger' # ledger
        <3>1. \A x \in Rows, y \in Dues :
                 ledger'[x][y] = IF ledger[x][y] # None /\ ledger[x][y] < clock - Retention
                                 THEN None ELSE ledger[x][y]
            BY <1>8, <2>4 DEF Prune
        <3>2. LedgerTimes' BY <2>1, <3>1 DEF LedgerTimes
        <3>3. ASSUME NEW x \in Rows, NEW y \in Dues, ledger'[x][y] = None
              PROVE  enqueued[x][y] = 0 \/ (enqueued[x][y] = 1 /\ y < clock - Retention)
            <4>1. CASE ledger[x][y] = None BY <4>1 DEF Forgotten
            <4>2. CASE ledger[x][y] # None
                <5>1. ledger[x][y] < clock - Retention BY <3>1, <3>3, <4>2
                <5>2. y <= ledger[x][y] /\ enqueued[x][y] = 1 BY <4>2 DEF LedgerTimes
                <5>3. y \in Int /\ ledger[x][y] \in Int BY <1>0, <4>2
                <5> QED BY <1>0, <5>1, <5>2, <5>3
            <4> QED BY <4>1, <4>2
        <3>4. Forgotten' BY <2>1, <3>3 DEF Forgotten
        <3>5. ASSUME NEW v \in Sweepers, pc[v] = "run"
              PROVE  cand[v].id \in Rows /\ cand[v].due \in Dues
            BY <3>5 DEF TypeInv, HasCandidate, Key
        <3>6. ASSUME NEW v \in Sweepers, pc[v] = "run"
              PROVE  ledger'[cand[v].id][cand[v].due] = None
            <4>1. ledger[cand[v].id][cand[v].due] = None BY <3>6 DEF OpenClaims
            <4> QED BY <3>1, <3>5, <3>6, <4>1
        <3>7. OpenClaims' BY <2>1, <2>2, <3>6 DEF OpenClaims
        <3> QED BY <3>2, <3>4, <3>7
    <2> QED BY <2>3, <2>4
<1> QED BY <1>1, <1>2, <1>3, <1>4, <1>5, <1>6, <1>7, <1>8 DEF Next

\* If the ledger remembers a claim for at least the grace and one sweep, the
\* outbox gets at most one row for each (row, due instant), whatever the
\* sweepers, the writers and the faults do.
THEOREM ExactlyOnce == ASSUME Grace + SweepBound <= Retention PROVE Spec => []EnqueuedOnce
<1>1. Init => OnceInv BY DEF Init, OnceInv, LedgerTimes, Forgotten, OpenClaims
<1>2. TypeInv /\ TimeInv /\ TypeInv' /\ OnceInv /\ [Next]_vars => OnceInv' BY OnceStep
<1>3. TypeInv /\ OnceInv => EnqueuedOnce
    <2> SUFFICES ASSUME TypeInv, OnceInv, NEW r \in Rows, NEW d \in Dues
                 PROVE  enqueued[r][d] <= 1
        BY DEF EnqueuedOnce
    <2>1. enqueued[r][d] = 0 \/ enqueued[r][d] = 1 BY DEF OnceInv, LedgerTimes, Forgotten
    <2> QED BY <2>1
<1>4. Spec => [](TypeInv /\ OnceInv) BY <1>1, <1>2, TimeInvariance, PTL DEF Spec
<1> QED BY <1>3, <1>4, PTL

-----------------------------------------------------------------------------
(***************************************************************************)
(* None missed.  First what a page of the API holds: the smallest ids from *)
(* the cursor on, and all of them when the page is not full.               *)
(***************************************************************************)

\* A set of ids has a smallest one.
LEMMA LeastId == ASSUME NEW T \in SUBSET Nat, T # {} PROVE \E x \in T : \A y \in T : x <= y
<1> DEFINE Less == OpToRel(<, Nat)
<1>1. IsWellFoundedOn(Less, Nat) BY NatLessThanWellFounded
<1>2. \A x, y \in Nat : <<y, x>> \in Less <=> y < x BY DEF OpToRel
<1> HIDE DEF Less
<1>3. PICK x \in T : \A y \in T : ~(<<y, x>> \in Less)
    <2>1. T \subseteq Nat /\ T # {} OBVIOUS
    <2> QED BY <1>1, <2>1, WFMin, Zenon
<1>4. \A y \in T : x \in Nat /\ y \in Nat /\ ~(y < x) BY <1>2, <1>3
<1>5. \A y \in T : x <= y BY <1>4
<1> QED BY <1>5

\* A page has no holes: an id of the listing before one on the page is on it.
LEMMA PageHasNoHoles ==
    ASSUME NEW S \in SUBSET Nat, IsFiniteSet(S), NEW n \in Nat,
           NEW r \in S, NEW x \in FirstOf(S, n), r <= x
    PROVE  r \in FirstOf(S, n)
<1> DEFINE Below(y) == {z \in S : z < y}
<1>1. x \in S /\ Cardinality(Below(x)) < n BY DEF FirstOf
<1>a. \A z \in S : z \in Nat OBVIOUS
<1>2. Below(r) \subseteq Below(x)
    <2>1. ASSUME NEW z \in S, z < r PROVE z < x BY <1>a, <1>1, <2>1
    <2> QED BY <2>1
<1>3. IsFiniteSet(Below(x)) BY FS_Subset
<1>4. IsFiniteSet(Below(r)) /\ Cardinality(Below(r)) <= Cardinality(Below(x))
    BY <1>2, <1>3, FS_Subset
<1>5. Cardinality(Below(r)) \in Nat /\ Cardinality(Below(x)) \in Nat
    BY <1>3, <1>4, FS_CardinalityType
<1>6. Cardinality(Below(r)) < n BY <1>1, <1>4, <1>5
<1> QED BY <1>6 DEF FirstOf

\* A page that is not full is the rest of the listing.
LEMMA ShortPageIsLast ==
    ASSUME NEW S \in SUBSET Nat, IsFiniteSet(S), NEW n \in Nat \ {0},
           Cardinality(FirstOf(S, n)) # n
    PROVE  FirstOf(S, n) = S
<1> DEFINE F == FirstOf(S, n)
           Below(y) == {z \in S : z < y}
<1>1. F \subseteq S BY DEF FirstOf
<1>a. (\A z \in S : z \in Nat) /\ (\A z \in F : z \in Nat /\ z \in S) BY <1>1
<1>2. \A y \in S : IsFiniteSet(Below(y)) /\ Cardinality(Below(y)) \in Nat
    BY FS_Subset, FS_CardinalityType
<1> SUFFICES ASSUME S \ F # {} PROVE FALSE BY <1>1
<1>3. PICK r \in S \ F : \A y \in S \ F : r <= y BY LeastId
<1>4. F = Below(r)
    <2>1. ASSUME NEW x \in F PROVE x < r
        <3>1. ~(r <= x) BY <1>3, PageHasNoHoles
        <3> QED BY <1>a, <3>1
    <2>2. \A z \in Below(r) : z \in F BY <1>3
    <2> QED BY <1>1, <2>1, <2>2
<1>5. ~(Cardinality(Below(r)) < n) BY <1>3 DEF FirstOf
<1>6. Cardinality(F) >= n /\ Cardinality(F) > 0 /\ IsFiniteSet(F)
    BY <1>2, <1>4, <1>5
<1>7. F # {} BY <1>6, FS_EmptySet
<1>8. PICK m \in F : \A x \in F : x <= m
    <2> DEFINE U == {u \in Nat : \A x \in F : x <= u}
    <2>1. r \in U
        <3>1. \A x \in F : x < r BY <1>4
        <3> HIDE DEF F
        <3> QED BY <1>a, <3>1
    <2>2. PICK u \in U : \A y \in U : u <= y
        <3>1. U \in SUBSET Nat /\ U # {} BY <2>1
        <3> HIDE DEF U
        <3> QED BY <3>1, LeastId
    <2>3. u \in F
        <3> SUFFICES ASSUME u \notin F PROVE FALSE OBVIOUS
        <3>1. PICK x \in F : TRUE BY <1>7
        <3>2. \A y \in F : y \in Nat /\ y <= u /\ y # u BY <1>1, <2>2
        <3>3. u \in Nat /\ u > 0 BY <2>2, <3>1, <3>2
        <3>4. \A y \in F : y <= u - 1 BY <3>2, <3>3
        <3>5. u - 1 \in U BY <3>3, <3>4
        <3> QED BY <2>2, <3>3, <3>5
    <2> QED BY <2>2, <2>3
<1>9. F = Below(m) \cup {m}
    <2>1. ASSUME NEW z \in Below(m) PROVE z \in F
        <3>1. z \in S /\ z <= m BY <1>a, <1>8
        <3> QED BY <1>8, <3>1, PageHasNoHoles
    <2>2. ASSUME NEW x \in F PROVE x \in Below(m) \cup {m}
        <3>1. x \in Nat /\ m \in Nat /\ x <= m BY <1>a, <1>8
        <3>2. x < m \/ x = m BY <3>1
        <3> HIDE DEF F
        <3> QED BY <1>a, <3>2
    <2> QED BY <1>8, <2>1, <2>2
<1>10. Cardinality(Below(m)) < n /\ m \in S BY <1>1, <1>8 DEF FirstOf
<1>11. Cardinality(F) = Cardinality(Below(m)) + 1
    <2>1. IsFiniteSet(Below(m)) /\ m \notin Below(m) BY <1>2, <1>10
    <2> HIDE DEF F, Below
    <2> QED BY <1>9, <2>1, FS_AddElement
<1>12. Cardinality(Below(m)) \in Nat BY <1>2, <1>10
<1>13. Cardinality(F) = n BY <1>6, <1>10, <1>11, <1>12
<1> QED BY <1>13

(***************************************************************************)
(* The cursor of a sweep moves over the rows in the order of their ids.  A *)
(* row it has passed has fired, is on the page at hand or is the one being *)
(* fired, unless the sweep met an error.                                   *)
(***************************************************************************)

\* Row r is due at t, and at the origin of the clock or after it.
Owed(r, t) ==
    row[r] # None /\ row[r].matches /\ 0 <= DueAt(row[r].at) /\ DueAt(row[r].at) <= t

Reminded(r) == enqueued[r][DueAt(row[r].at)] > 0

Listed(r) == [id |-> r, at |-> row[r].at, matches |-> row[r].matches]

\* The sweep is on its last page, or past it.
LastPage(w) == pc[w] = "prune" \/ (pc[w] \in {"page", "claim", "run"} /\ ~more[w])

ClaimsFired == \A r \in Rows, d \in Dues : ledger[r][d] # None => enqueued[r][d] > 0

\* What a sweep no longer finds in its window was up to the one before it.
OldFired(w) == \A r \in Rows : Owed(r, now[w] - Grace) => Reminded(r)

PassedFired(w) ==
    clean[w] =>
        \A r \in Rows : Owed(r, now[w]) /\ (r <= after[w] \/ LastPage(w)) =>
            \/ Reminded(r)
            \/ pc[w] \in {"page", "claim", "run"} /\ Listed(r) \in page[w]
            \/ pc[w] \in {"claim", "run"} /\ cand[w] = [id |-> r, due |-> DueAt(row[r].at)]

\* Every page but the last is full, so that the ceiling is not met too early.
PagesFull(w) ==
    LastPage(w) \/ Cardinality({r \in Rows : r <= after[w]}) >= pages[w] * PageSize

Underway(w) == pc[w] \in Sweeping => OldFired(w) /\ PassedFired(w) /\ PagesFull(w)

SweptFired == \A r \in Rows : Owed(r, swept) => Reminded(r)

NeverLate == clock <= swept + Grace

MissInv == ClaimsFired /\ (\A w \in Sweepers : Underway(w)) /\ SweptFired /\ NeverLate

\* What was enqueued stays enqueued (only the commit of RunClaimed changes it).
LEMMA EnqueuedStays ==
    ASSUME TypeInv, TypeInv', [Next]_vars, NEW r \in Rows, NEW d \in Dues, enqueued[r][d] > 0
    PROVE  enqueued'[r][d] > 0
<1>1. CASE enqueued' = enqueued BY <1>1
<1>2. CASE enqueued' # enqueued
    <2>1. PICK w \in Sweepers : Commit(w) BY <1>2, OnlyCommitEnqueues
    <2>2. cand[w] \in Key BY <2>1 DEF Commit, TypeInv, HasCandidate
    <2>3. cand[w].id \in Rows /\ cand[w].due \in Dues BY <2>2 DEF Key
    <2>4. enqueued[r][d] \in Nat BY DEF TypeInv, TypeOK
    <2>5. enqueued'[r][d] = enqueued[r][d] \/ enqueued'[r][d] = enqueued[r][d] + 1
        BY <2>1, <2>3 DEF Commit, TypeInv, TypeOK
    <2> QED BY <2>4, <2>5
<1> QED BY <1>1, <1>2

\* Without writes the rows are the ones of the beginning.
LEMMA RowsStay == ASSUME "write" \notin FaultKinds, [Next]_vars PROVE row' = row
BY DEF Next, vars, Clock, Write, Fault, Start, Crash, BeginSweep, List, StopListing, EndPage,
       Consider, Claim, RunFails, Commit, Prune

\* What the rows owe is an instant of the ledger.
LEMMA OwedDue ==
    ASSUME TypeInv, NEW r \in Rows, row[r] # None
    PROVE  /\ row[r].at \in Fields /\ row[r].matches \in BOOLEAN
           /\ DueAt(row[r].at) \in Dues /\ DueAt(row[r].at) \in Int
<1>1. row[r] \in RowValue BY DEF TypeInv, TypeOK
<1>2. row[r].at \in Fields /\ row[r].matches \in BOOLEAN BY <1>1 DEF RowValue
<1> QED BY <1>2, DuesAreInts DEF Dues

\* A reminded row stays reminded.
LEMMA RemindedStays ==
    ASSUME TypeInv, TypeInv', [Next]_vars, row' = row,
           NEW r \in Rows, row[r] # None, Reminded(r)
    PROVE  Reminded(r)'
<1>1. DueAt(row[r].at) \in Dues BY OwedDue
<1> QED BY <1>1, EnqueuedStays DEF Reminded

\* A sweep that a step leaves alone, but for the ledger and the clock.
LEMMA SweepLeftAlone ==
    ASSUME TypeInv, TypeInv', [Next]_vars, row' = row, NEW w \in Sweepers, Underway(w),
           pc'[w] = pc[w], now'[w] = now[w], after'[w] = after[w], pages'[w] = pages[w],
           page'[w] = page[w], more'[w] = more[w], cand'[w] = cand[w], clean'[w] = clean[w]
    PROVE  Underway(w)'
<1> SUFFICES ASSUME pc[w] \in Sweeping PROVE (OldFired(w) /\ PassedFired(w) /\ PagesFull(w))'
    BY DEF Underway
<1>1. OldFired(w) /\ PassedFired(w) /\ PagesFull(w) BY DEF Underway
<1>2. \A r \in Rows : row[r] # None /\ Reminded(r) => Reminded(r)' BY RemindedStays
<1>3. OldFired(w)' BY <1>1, <1>2 DEF OldFired, Owed
<1>4. LastPage(w)' <=> LastPage(w) BY DEF LastPage
<1>5. PassedFired(w)'
    BY <1>1, <1>2, <1>4 DEF PassedFired, Owed, Listed
<1>6. PagesFull(w)' BY <1>1, <1>4 DEF PagesFull
<1> QED BY <1>3, <1>5, <1>6

\* A sweep begins with what the last one without an error left.
LEMMA BeginUnderway ==
    ASSUME TypeInv, TypeInv', [Next]_vars, row' = row, MissInv,
           NEW w \in Sweepers, BeginSweep(w)
    PROVE  Underway(w)'
<1>1. /\ pc'[w] = "list" /\ now'[w] = clock /\ after'[w] = 0 /\ pages'[w] = 0
      /\ UNCHANGED enqueued
    BY DEF BeginSweep, TypeInv, TypeOK, paging, claim
<1>2. clock \in Int /\ swept \in Int /\ Grace \in Int /\ clock - Grace <= swept
    BY RemindersAssumption DEF MissInv, NeverLate, TypeInv, TypeOK
<1>3. OldFired(w)'
    <2> SUFFICES ASSUME NEW r \in Rows, Owed(r, clock - Grace) PROVE Reminded(r)
        BY <1>1 DEF OldFired, Owed, Reminded
    <2>1. DueAt(row[r].at) \in Int BY OwedDue DEF Owed
    <2>2. Owed(r, swept) BY <1>2, <2>1 DEF Owed
    <2> QED BY <2>2 DEF MissInv, SweptFired
<1>4. ~LastPage(w)' BY <1>1 DEF LastPage
<1>5. PassedFired(w)'
    <2>1. \A r \in Rows : ~(r <= 0) BY RemindersAssumption
    <2> QED BY <1>1, <1>4, <2>1 DEF PassedFired
<1>6. PagesFull(w)'
    <2>1. IsFiniteSet({r \in Rows : r <= after'[w]}) BY RemindersAssumption, FS_Subset
    <2>2. Cardinality({r \in Rows : r <= after'[w]}) \in Nat BY <2>1, FS_CardinalityType
    <2>3. pages'[w] * PageSize = 0 BY <1>1, RemindersAssumption
    <2> QED BY <2>2, <2>3 DEF PagesFull
<1> QED BY <1>3, <1>5, <1>6 DEF Underway

\* The next page: what it leaves out is behind the new cursor, or fired earlier.
LEMMA ListUnderway ==
    ASSUME TypeInv, TypeInv', [Next]_vars, row' = row, MissInv,
           NEW w \in Sweepers, List(w)
    PROVE  Underway(w)'
<1> DEFINE hits == {r \in Rows : row[r] # None /\ InWindow(row[r].at, now[w]) /\ r > after[w]}
           got == FirstOf(hits, PageSize)
<1>1. /\ pc[w] = "list" /\ pc'[w] = "page" /\ pages'[w] = pages[w] + 1
      /\ page'[w] = {Listed(r) : r \in got}
      /\ more'[w] = (Cardinality(got) = PageSize)
      /\ UNCHANGED <<enqueued, now, clean>>
    BY DEF List, Listed, TypeInv, TypeOK, paging, claim
<1>a. pc'[w] = "page" /\ UNCHANGED <<enqueued, now, clean>> BY <1>1
<1>2. PICK last \in got \cup {after[w]} : (\A r \in got : r <= last) /\ after'[w] = last
    BY DEF List, TypeInv, TypeOK
<1>3. OldFired(w) /\ PassedFired(w) /\ PagesFull(w) BY <1>1 DEF MissInv, Underway, Sweeping
<1>4. hits \subseteq Rows /\ hits \in SUBSET Nat /\ IsFiniteSet(hits)
    BY RemindersAssumption, FS_Subset
<1>5. got \subseteq hits BY DEF FirstOf
<1>6. PageSize \in Nat \ {0} /\ Grace \in Int /\ after[w] \in Nat /\ now[w] \in Int
      /\ pages[w] \in Nat
    BY RemindersAssumption DEF TypeInv, TypeOK
<1>7. OldFired(w)' BY <1>1, <1>3 DEF OldFired, Owed, Reminded
<1>8. \A r \in hits \ got : r > last
    <2> SUFFICES ASSUME NEW r \in hits \ got, ~(r > last) PROVE FALSE OBVIOUS
    <2>1. r \in Nat /\ r > after[w] BY <1>4
    <2>2. last # after[w] BY <2>1
    <2>3. last \in got /\ last \in Nat BY <1>2, <1>4, <1>5, <2>2
    <2>4. r <= last BY <2>1, <2>3
    <2> HIDE DEF hits
    <2> QED BY <1>4, <1>6, <2>3, <2>4, PageHasNoHoles
<1>9. ~more'[w] => got = hits
    <2> HIDE DEF hits
    <2> QED BY <1>1, <1>4, <1>6, ShortPageIsLast
<1>10. LastPage(w)' <=> ~more'[w] BY <1>1 DEF LastPage
<1>11. PassedFired(w)'
    <2>1. ASSUME clean[w], NEW r \in Rows, Owed(r, now[w]), r <= last \/ ~more'[w], ~Reminded(r)
          PROVE  Listed(r) \in page'[w]
        <3>1. row[r] # None /\ DueAt(row[r].at) \in Int /\ row[r].at \in Int /\ Offset \in Int
            <4>1. row[r] # None BY <2>1 DEF Owed
            <4>2. row[r].at \in Fields /\ DueAt(row[r].at) \in Int BY <4>1, OwedDue
            <4>3. Offset \in Int /\ Fields \subseteq Int BY RemindersAssumption
            <4> QED BY <4>1, <4>2, <4>3, Zenon
        <3>2. ~(r <= after[w])
            <4>1. ~LastPage(w) BY <1>1 DEF LastPage
            <4> QED BY <1>1, <1>3, <2>1 DEF PassedFired
        <3>3. r \in Nat /\ r > after[w] BY <1>6, <3>2, RemindersAssumption
        <3>4. ~(DueAt(row[r].at) <= now[w] - Grace) BY <1>3, <2>1 DEF OldFired, Owed
        <3>5. InWindow(row[r].at, now[w])
            BY <1>6, <2>1, <3>1, <3>4, RemindersAssumption DEF Owed, InWindow, DueAt
        <3>6. r \in hits BY <3>1, <3>3, <3>5
        <3>7. r \in got
            <4>1. CASE ~more'[w] BY <1>9, <3>6, <4>1
            <4>2. CASE r <= last
                <5>1. last \in Nat BY <1>2, <1>4, <1>5, <1>6
                <5>2. ~(r > last) BY <3>3, <4>2, <5>1
                <5> QED BY <1>8, <3>6, <5>2
            <4> QED BY <2>1, <4>1, <4>2
        <3> HIDE DEF got
        <3> QED BY <1>1, <3>7
    <2>2. ASSUME NEW r \in Rows, clean'[w], Owed(r, now[w])', r <= after'[w] \/ LastPage(w)',
                 ~Reminded(r)'
          PROVE  Listed(r)' \in page'[w]
        <3>1. clean' = clean /\ now' = now /\ enqueued' = enqueued /\ after'[w] = last
            BY <1>a, <1>2
        <3>2. /\ Owed(r, now[w])' <=> Owed(r, now[w])
              /\ Reminded(r)' <=> Reminded(r)
              /\ Listed(r)' = Listed(r)
            BY <3>1 DEF Owed, Reminded, Listed
        <3>3. r <= last \/ ~more'[w] BY <1>10, <2>2, <3>1
        <3> HIDE DEF got
        <3>4. clean[w] /\ Owed(r, now[w]) /\ ~Reminded(r) BY <2>2, <3>1, <3>2, Zenon
        <3>5. Listed(r) \in page'[w] BY <2>1, <3>3, <3>4, Zenon
        <3> QED BY <3>2, <3>5, Zenon
    <2> QED BY <1>a, <2>2 DEF PassedFired
<1>12. PagesFull(w)'
    <2> SUFFICES ASSUME more'[w]
                 PROVE  Cardinality({r \in Rows : r <= last}) >= (pages[w] + 1) * PageSize
        <3>1. after'[w] = last /\ pages'[w] = pages[w] + 1 BY <1>1, <1>2
        <3> HIDE DEF got
        <3> QED BY <1>10, <3>1 DEF PagesFull
    <2> DEFINE passed == {r \in Rows : r <= after[w]}
               next == {r \in Rows : r <= last}
    <2>1. IsFiniteSet(passed) /\ IsFiniteSet(next) /\ IsFiniteSet(got)
        BY <1>4, <1>5, RemindersAssumption, FS_Subset
    <2>2. Cardinality(passed) >= pages[w] * PageSize
        <3>1. ~LastPage(w) BY <1>1 DEF LastPage
        <3> QED BY <1>3, <3>1 DEF PagesFull
    <2>3. Cardinality(got) = PageSize BY <1>1
    <2>4. passed \cap got = {} BY <1>4, <1>5, <1>6
    <2>5. passed \cup got \subseteq next
        <3>1. after[w] <= last
            <4>1. CASE last = after[w] BY <1>6, <4>1
            <4>2. CASE last \in got
                <5>1. last \in Nat /\ last > after[w] BY <1>4, <1>5, <4>2
                <5> QED BY <1>6, <5>1
            <4> QED BY <4>1, <4>2
        <3>2. last \in Nat BY <1>4, <1>5, <1>6
        <3>3. \A r \in passed : r <= last BY <1>6, <3>1, <3>2, RemindersAssumption
        <3> QED BY <1>2, <1>4, <1>5, <3>3
    <2> HIDE DEF passed, next, got
    <2>6. Cardinality(passed \cup got) = Cardinality(passed) + PageSize
        <3>1. Cardinality(passed \cup got)
                 = Cardinality(passed) + Cardinality(got) - Cardinality(passed \cap got)
            BY <2>1, FS_Union
        <3>2. Cardinality(passed \cap got) = 0 BY <2>4, FS_EmptySet
        <3>3. Cardinality(passed) \in Nat BY <2>1, FS_CardinalityType
        <3> QED BY <1>6, <2>3, <3>1, <3>2, <3>3
    <2>7. Cardinality(passed \cup got) <= Cardinality(next) BY <2>1, <2>5, FS_Subset
    <2>8. Cardinality(passed) \in Nat /\ Cardinality(next) \in Nat BY <2>1, FS_CardinalityType
    <2>9. (pages[w] + 1) * PageSize = pages[w] * PageSize + PageSize BY <1>6
    <2>10. pages[w] * PageSize \in Nat BY <1>6
    <2>11. Cardinality(next) >= (pages[w] + 1) * PageSize
        <3> DEFINE full == pages[w] * PageSize
        <3>1. full \in Nat /\ PageSize \in Nat BY <1>6
        <3>2. (pages[w] + 1) * PageSize = full + PageSize BY <2>9
        <3>3. Cardinality(passed) >= full BY <2>2
        <3> HIDE DEF full
        <3>4. Cardinality(next) >= full + PageSize BY <2>6, <2>7, <2>8, <3>1, <3>3
        <3> QED BY <3>2, <3>4
    <2> QED BY <2>11 DEF next
<1> QED BY <1>7, <1>11, <1>12 DEF Underway

\* The end of a page, the ceiling or an error of the API.  With pages enough for all
\* rows the ceiling is only met behind the last of them.
LEMMA TurnUnderway ==
    ASSUME MaxPages * PageSize >= Cardinality(Rows),
           TypeInv, TypeInv', [Next]_vars, row' = row, MissInv,
           NEW w \in Sweepers, EndPage(w) \/ StopListing(w)
    PROVE  Underway(w)'
<1>1. /\ pc[w] \in {"list", "page"} /\ pc'[w] \in {"list", "prune"}
      /\ UNCHANGED <<enqueued, now, after, pages>>
    BY DEF EndPage, StopListing, TypeInv, TypeOK, paging, claim
<1>2. OldFired(w) /\ PassedFired(w) /\ PagesFull(w) BY <1>1 DEF MissInv, Underway, Sweeping
<1>3. OldFired(w)' BY <1>1, <1>2 DEF OldFired, Owed, Reminded
<1>4. PagesFull(w)'
    <2>1. CASE pc'[w] = "prune" BY <2>1 DEF PagesFull, LastPage
    <2>2. CASE pc'[w] = "list"
        <3>1. pc[w] = "page" /\ more[w]
            BY <2>2 DEF EndPage, StopListing, TypeInv, TypeOK
        <3>2. ~LastPage(w) BY <3>1 DEF LastPage
        <3> QED BY <1>1, <1>2, <3>2 DEF PagesFull
    <2> QED BY <1>1, <2>1, <2>2
<1>5. PassedFired(w)'
    <2> SUFFICES ASSUME clean'[w], NEW r \in Rows, Owed(r, now[w])', r <= after'[w] \/ LastPage(w)'
                 PROVE  Reminded(r)'
        BY DEF PassedFired
    <2>1. /\ Owed(r, now[w])' <=> Owed(r, now[w])
          /\ Reminded(r)' <=> Reminded(r)
        BY <1>1 DEF Owed, Reminded
    <2>2. Owed(r, now[w]) BY <2>1, Zenon
    <2>3. CASE EndPage(w)
        <3>1. /\ pc[w] = "page" /\ page[w] = {} /\ clean' = clean
              /\ pc'[w] = IF more[w] THEN "list" ELSE "prune"
            BY <2>3 DEF EndPage, TypeInv, TypeOK
        <3>2. LastPage(w)' => LastPage(w) BY <3>1 DEF LastPage
        <3>3. r <= after[w] \/ LastPage(w) BY <1>1, <3>2
        <3> QED BY <1>2, <2>1, <2>2, <3>1, <3>3 DEF PassedFired
    <2>4. CASE StopListing(w)
        <3>1. pc[w] = "list" BY <2>4 DEF StopListing
        <3>2. clean[w] /\ pages[w] = MaxPages
            <4>1. \/ pages[w] = MaxPages /\ clean' = clean
                  \/ clean' = [clean EXCEPT ![w] = FALSE]
                BY <2>4 DEF StopListing, Stain
            <4>2. clean \in [Sweepers -> BOOLEAN] BY DEF TypeInv, TypeOK
            <4> QED BY <4>1, <4>2, Zenon
        <3>3. r <= after[w]
            <4> DEFINE passed == {x \in Rows : x <= after[w]}
            <4>1. ~LastPage(w) BY <3>1 DEF LastPage
            <4>2. Cardinality(passed) >= MaxPages * PageSize BY <1>2, <3>2, <4>1 DEF PagesFull
            <4>3. IsFiniteSet(Rows) /\ passed \in SUBSET Rows BY RemindersAssumption
            <4>4. MaxPages * PageSize \in Nat BY RemindersAssumption
            <4> HIDE DEF passed
            <4>5. Cardinality(passed) <= Cardinality(Rows) /\ IsFiniteSet(passed)
                BY <4>3, FS_Subset
            <4>6. Cardinality(passed) \in Nat /\ Cardinality(Rows) \in Nat
                BY <4>3, <4>5, FS_CardinalityType
            <4>7. Cardinality(Rows) = Cardinality(passed)
                <5> DEFINE all == MaxPages * PageSize
                <5>1. all \in Nat /\ all >= Cardinality(Rows) /\ Cardinality(passed) >= all
                    BY <4>2, <4>4
                <5> HIDE DEF all
                <5> QED BY <4>5, <4>6, <5>1
            <4>8. passed = Rows BY <4>3, <4>7, FS_Subset
            <4> QED BY <4>8 DEF passed
        <3> QED BY <1>2, <2>1, <2>2, <3>1, <3>2, <3>3 DEF PassedFired
    <2> QED BY <2>3, <2>4
<1> QED BY <1>3, <1>4, <1>5 DEF Underway

\* The row looked at is fired, has fired, or leaves its mark on the sweep.
LEMMA ConsiderUnderway ==
    ASSUME TypeInv, TypeInv', [Next]_vars, row' = row, MissInv,
           NEW w \in Sweepers, Consider(w)
    PROVE  Underway(w)'
<1>1. /\ pc[w] = "page" /\ pc'[w] \in {"page", "claim"}
      /\ UNCHANGED <<enqueued, now, after, pages, more>>
    BY DEF Consider, TypeInv, TypeOK
<1>2. OldFired(w) /\ PassedFired(w) /\ PagesFull(w) BY <1>1 DEF MissInv, Underway, Sweeping
<1>3. OldFired(w)' BY <1>1, <1>2 DEF OldFired, Owed, Reminded
<1>4. LastPage(w)' <=> LastPage(w) BY <1>1 DEF LastPage
<1>5. PagesFull(w)' BY <1>1, <1>2, <1>4 DEF PagesFull
<1>6. PICK rec \in page[w] :
         /\ page'[w] = page[w] \ {rec}
         /\ \/ /\ pc'[w] = "claim" /\ cand'[w] = [id |-> rec.id, due |-> DueAt(rec.at)]
            \/ ~Fireable(rec, now[w]) \/ ledger[rec.id][DueAt(rec.at)] # None
            \/ Stain(w)
    BY DEF Consider, TypeInv, TypeOK
<1>7. PassedFired(w)'
    <2> SUFFICES ASSUME clean'[w], NEW r \in Rows, Owed(r, now[w])',
                        r <= after'[w] \/ LastPage(w)', ~Reminded(r)', Listed(r)' \notin page'[w]
                 PROVE  pc'[w] = "claim" /\ cand'[w] = [id |-> r, due |-> DueAt(row[r].at)]
        BY <1>1 DEF PassedFired
    <2>1. /\ Owed(r, now[w])' <=> Owed(r, now[w])
          /\ Reminded(r)' <=> Reminded(r)
          /\ Listed(r)' = Listed(r)
        BY <1>1 DEF Owed, Reminded, Listed
    <2>2. Owed(r, now[w]) /\ ~Reminded(r) /\ (r <= after[w] \/ LastPage(w)) BY <1>1, <1>4, <2>1
    <2>3. clean[w] /\ ~Stain(w)
        <3>1. clean \in [Sweepers -> BOOLEAN] BY DEF TypeInv, TypeOK
        <3>2. clean' = clean \/ Stain(w) BY DEF Consider
        <3>3. ~Stain(w) BY <3>1, Zenon DEF Stain
        <3> QED BY <3>2, <3>3, Zenon
    <2>4. Listed(r) \in page[w] BY <1>1, <1>2, <2>2, <2>3 DEF PassedFired
    <2>5. rec = Listed(r) BY <1>6, <2>1, <2>4
    <2>6. rec.id = r /\ rec.at = row[r].at /\ rec.matches = row[r].matches BY <2>5 DEF Listed
    <2>7. row[r] # None /\ DueAt(row[r].at) \in Dues /\ DueAt(row[r].at) \in Int
        BY <2>2, OwedDue DEF Owed
    <2>8. Fireable(rec, now[w])
        <3>1. ~(DueAt(row[r].at) <= now[w] - Grace) BY <1>2, <2>2 DEF OldFired, Owed
        <3>2. row[r].matches /\ DueAt(row[r].at) <= now[w] BY <2>2 DEF Owed
        <3>3. now[w] \in Int /\ Grace \in Int BY RemindersAssumption DEF TypeInv, TypeOK
        <3>4. now[w] - DueAt(row[r].at) <= Grace BY <2>7, <3>1, <3>3
        <3> QED BY <2>6, <3>2, <3>4, Zenon DEF Fireable
    <2>9. ledger[rec.id][DueAt(rec.at)] = None
        BY <2>2, <2>6, <2>7 DEF MissInv, ClaimsFired, Reminded
    <2> QED BY <1>6, <2>3, <2>6, <2>8, <2>9
<1> QED BY <1>3, <1>5, <1>7 DEF Underway

\* RunClaimed commits, finds its claim taken, or fails and leaves its mark.
LEMMA RunUnderway ==
    ASSUME TypeInv, TypeInv', [Next]_vars, row' = row, MissInv,
           NEW w \in Sweepers, Claim(w) \/ RunFails(w) \/ Commit(w)
    PROVE  Underway(w)'
<1>1. /\ pc[w] \in {"claim", "run"} /\ pc'[w] \in {"page", "run"}
      /\ UNCHANGED <<now, after, pages, page, more, cand>>
    BY DEF Claim, RunFails, Commit, TypeInv, TypeOK, paging, claim
<1>2. OldFired(w) /\ PassedFired(w) /\ PagesFull(w) BY <1>1 DEF MissInv, Underway, Sweeping
<1>3. \A r \in Rows : row[r] # None /\ Reminded(r) => Reminded(r)' BY RemindedStays
<1>4. OldFired(w)' BY <1>1, <1>2, <1>3 DEF OldFired, Owed
<1>5. LastPage(w)' <=> LastPage(w) BY <1>1 DEF LastPage
<1>6. PagesFull(w)' BY <1>1, <1>2, <1>5 DEF PagesFull
<1>7. PassedFired(w)'
    <2> SUFFICES ASSUME clean'[w], NEW r \in Rows, Owed(r, now[w])',
                        r <= after'[w] \/ LastPage(w)', ~Reminded(r)', Listed(r)' \notin page'[w]
                 PROVE  pc'[w] = "run" /\ cand'[w] = [id |-> r, due |-> DueAt(row[r].at)]
        BY <1>1 DEF PassedFired
    <2>1. /\ Owed(r, now[w])' <=> Owed(r, now[w])
          /\ Listed(r)' = Listed(r)
        BY <1>1 DEF Owed, Listed
    <2>2. Owed(r, now[w]) /\ (r <= after[w] \/ LastPage(w)) BY <1>1, <1>5, <2>1
    <2>3. row[r] # None /\ DueAt(row[r].at) \in Dues BY <2>2, OwedDue DEF Owed
    <2>4. ~Reminded(r) BY <1>3, <2>3
    <2>5. clean[w] /\ ~RunFails(w)
        <3>1. clean \in [Sweepers -> BOOLEAN] BY DEF TypeInv, TypeOK
        <3>2. clean' = clean \/ Stain(w) BY DEF Claim, RunFails, Commit
        <3>3. ~Stain(w) BY <3>1, Zenon DEF Stain
        <3>4. ~RunFails(w) BY <3>3, Zenon DEF RunFails
        <3> QED BY <3>2, <3>3, <3>4, Zenon
    <2>6. cand[w] = [id |-> r, due |-> DueAt(row[r].at)]
        BY <1>1, <1>2, <2>1, <2>2, <2>4, <2>5 DEF PassedFired
    <2>7. cand[w].id = r /\ cand[w].due = DueAt(row[r].at) BY <2>6
    <2>8. ~Commit(w)
        <3> SUFFICES ASSUME Commit(w) PROVE FALSE OBVIOUS
        <3>1. enqueued[r][DueAt(row[r].at)] \in Nat BY <2>3 DEF TypeInv, TypeOK
        <3>2. enqueued'[r][DueAt(row[r].at)] = enqueued[r][DueAt(row[r].at)] + 1
            BY <2>3, <2>7 DEF Commit, TypeInv, TypeOK
        <3>3. enqueued'[r][DueAt(row[r].at)] > 0 BY <3>1, <3>2
        <3> QED BY <3>3 DEF Reminded
    <2>9. Claim(w) BY <2>5, <2>8
    <2>10. ~Claimed(w)
        <3>1. ledger[r][DueAt(row[r].at)] = None
            BY <2>3, <2>4 DEF MissInv, ClaimsFired, Reminded
        <3> QED BY <2>7, <3>1 DEF Claimed
    <2>11. pc'[w] = "run" BY <2>9, <2>10 DEF Claim, TypeInv, TypeOK
    <2> QED BY <1>1, <2>6, <2>11
<1> QED BY <1>4, <1>6, <1>7 DEF Underway

\* A later start of the latest sweep leaves the clock within its grace.
LEMMA LaterStart ==
    ASSUME NEW t \in Int, NEW a \in Int, NEW b \in Int, NEW g \in Int, t <= a + g, b >= a
    PROVE  t <= b + g
OBVIOUS

\* Every step keeps what is due fired, passed over by nobody.
LEMMA MissStep ==
    ASSUME Punctual, "write" \notin FaultKinds, MaxPages * PageSize >= Cardinality(Rows),
           TypeInv, TypeInv', TimeInv, MissInv, [Next]_vars
    PROVE  MissInv'
<1>1. row' = row BY RowsStay
<1>2. \A r \in Rows : row[r] # None /\ Reminded(r) => Reminded(r)' BY <1>1, RemindedStays
<1>3. \A r \in Rows, d \in Dues : enqueued[r][d] > 0 => enqueued'[r][d] > 0 BY EnqueuedStays
<1>4. ClaimsFired'
    <2> SUFFICES ASSUME NEW r \in Rows, NEW d \in Dues, ledger'[r][d] # None
                 PROVE  enqueued'[r][d] > 0
        BY DEF ClaimsFired
    <2>1. CASE ledger[r][d] # None BY <1>3, <2>1 DEF MissInv, ClaimsFired
    <2>2. CASE ledger[r][d] = None
        <3>1. ledger' # ledger BY <2>2
        <3>2. PICK w \in Sweepers : Commit(w) \/ Prune(w)
            BY <3>1 DEF Next, vars, Clock, Write, Start, Crash, BeginSweep, List, StopListing, EndPage,
                        Consider, Claim, RunFails
        <3>3. CASE Prune(w)
            BY <2>2, <3>1, <3>3 DEF Prune
        <3>4. CASE Commit(w)
            <4>1. cand[w] \in Key BY <3>4 DEF Commit, TypeInv, HasCandidate
            <4>2. cand[w].id \in Rows /\ cand[w].due \in Dues BY <4>1 DEF Key
            <4>3. r = cand[w].id /\ d = cand[w].due
                BY <2>2, <3>4, <4>2 DEF Commit, TypeInv, TypeOK
            <4>4. enqueued[r][d] \in Nat BY DEF TypeInv, TypeOK
            <4>5. enqueued'[r][d] = enqueued[r][d] + 1
                BY <3>4, <4>3 DEF Commit, TypeInv, TypeOK
            <4> QED BY <4>4, <4>5
        <3> QED BY <3>2, <3>3, <3>4
    <2> QED BY <2>1, <2>2
<1>5. SweptFired'
    <2> SUFFICES ASSUME NEW r \in Rows, Owed(r, swept)' PROVE Reminded(r)'
        BY DEF SweptFired
    <2>1. Owed(r, swept') /\ row[r] # None BY <1>1 DEF Owed
    <2>2. CASE swept' = swept
        BY <1>2, <2>1, <2>2 DEF MissInv, SweptFired
    <2>3. CASE swept' # swept
        <3>1. PICK w \in Sweepers : Prune(w)
            BY <2>3 DEF Next, vars, Clock, Write, Start, Crash, BeginSweep, List, StopListing, EndPage,
                        Consider, Claim, RunFails, Commit
        <3>2. pc[w] = "prune" /\ clean[w] /\ swept' = now[w] BY <2>3, <3>1 DEF Prune
        <3>3. PassedFired(w) /\ LastPage(w)
            BY <3>2 DEF MissInv, Underway, Sweeping, LastPage
        <3>4. Reminded(r) BY <2>1, <3>2, <3>3 DEF PassedFired
        <3> QED BY <1>2, <2>1, <3>4
    <2> QED BY <2>2, <2>3
<1>6. NeverLate'
    <2>1. clock \in Int /\ swept \in Int /\ Grace \in Int /\ clock' \in Int /\ swept' \in Int
        BY RemindersAssumption DEF TypeInv, TypeOK
    <2>2. CASE Clock
        BY <2>1, <2>2 DEF Clock, NeverLate
    <2>3. CASE UNCHANGED <<clock, swept>>
        BY <2>3 DEF MissInv, NeverLate
    <2>4. ASSUME NEW w \in Sweepers, Prune(w) PROVE NeverLate'
        <3>1. clock' = clock /\ swept' >= swept
            <4>1. now[w] \in Int BY DEF TypeInv, TypeOK
            <4> QED BY <2>1, <2>4, <4>1 DEF Prune
        <3>2. clock <= swept + Grace BY DEF MissInv, NeverLate
        <3>3. clock' <= swept' + Grace BY <2>1, <3>1, <3>2, LaterStart
        <3> QED BY <3>3 DEF NeverLate
    <2> QED
        BY <2>2, <2>3, <2>4 DEF Next, vars, Write, Start, Crash, BeginSweep, List, StopListing, EndPage,
                                Consider, Claim, RunFails, Commit
<1>7. ASSUME NEW v \in Sweepers PROVE Underway(v)'
    <2>0. Underway(v) BY DEF MissInv
    <2>1. ASSUME UNCHANGED <<pc, now, after, pages, page, more, cand, clean>> PROVE Underway(v)'
        BY <1>1, <2>0, <2>1, SweepLeftAlone
    <2>2. CASE Clock \/ UNCHANGED vars BY <2>1, <2>2 DEF Clock, vars, paging, claim
    <2>3. ASSUME NEW r \in Rows, NEW x \in RowValue \cup {None}, Write(r, x) PROVE Underway(v)'
        BY <2>3 DEF Write, Fault
    <2>4. ASSUME NEW w \in Sweepers,
                 Start(w) \/ Crash(w) \/ BeginSweep(w) \/ List(w) \/ StopListing(w) \/ EndPage(w)
                 \/ Consider(w) \/ Claim(w) \/ RunFails(w) \/ Commit(w) \/ Prune(w),
                 v # w
          PROVE  Underway(v)'
        <3>1. /\ pc'[v] = pc[v] /\ now'[v] = now[v] /\ after'[v] = after[v] /\ pages'[v] = pages[v]
              /\ page'[v] = page[v] /\ more'[v] = more[v] /\ cand'[v] = cand[v]
              /\ clean'[v] = clean[v]
            <4>1. CASE Consider(w) BY <2>4, <4>1 DEF Consider, Stain, TypeInv, TypeOK
            <4>2. CASE Start(w) \/ Crash(w) \/ BeginSweep(w) \/ List(w) \/ StopListing(w) \/ EndPage(w)
                BY <2>4, <4>2 DEF Start, Crash, BeginSweep, List, StopListing, EndPage, Stain, paging,
                                  claim, TypeInv, TypeOK
            <4>3. CASE Claim(w) \/ RunFails(w) \/ Commit(w) \/ Prune(w)
                BY <2>4, <4>3 DEF Claim, RunFails, Commit, Prune, Stain, paging, claim, TypeInv, TypeOK
            <4> QED BY <2>4, <4>1, <4>2, <4>3
        <3> QED BY <1>1, <2>0, <3>1, SweepLeftAlone
    <2>5. CASE Start(v) \/ Crash(v) \/ Prune(v)
        <3>1. pc'[v] \notin Sweeping
            BY <2>5 DEF Start, Crash, Prune, Sweeping, TypeInv, TypeOK
        <3> QED BY <3>1 DEF Underway
    <2>6. CASE BeginSweep(v) BY <1>1, <2>6, BeginUnderway
    <2>7. CASE List(v) BY <1>1, <2>7, ListUnderway
    <2>8. CASE EndPage(v) \/ StopListing(v) BY <1>1, <2>8, TurnUnderway
    <2>9. CASE Consider(v) BY <1>1, <2>9, ConsiderUnderway
    <2>10. CASE Claim(v) \/ RunFails(v) \/ Commit(v) BY <1>1, <2>10, RunUnderway
    <2> QED BY <2>2, <2>3, <2>4, <2>5, <2>6, <2>7, <2>8, <2>9, <2>10 DEF Next
<1> QED BY <1>4, <1>5, <1>6, <1>7 DEF MissInv

\* None is missed: if no Grace passes without a sweep that meets no error, and the
\* pages of a sweep (sweepOne's ceiling) are enough for all rows, every row that is
\* there from the beginning and is due has fired by the end of its grace, however
\* many sweepers race, crash and fail in between.
THEOREM NoneMissed ==
    ASSUME Punctual, "write" \notin FaultKinds, MaxPages * PageSize >= Cardinality(Rows)
    PROVE  Spec => []NoReminderMissed
<1>1. Init => MissInv
    <2> SUFFICES ASSUME Init PROVE MissInv OBVIOUS
    <2>1. ClaimsFired BY DEF Init, ClaimsFired
    <2>2. \A w \in Sweepers : Underway(w) BY DEF Init, Underway, Sweeping
    <2>3. TypeInv BY TypeInit
    <2>4. SweptFired
        <3> SUFFICES ASSUME NEW r \in Rows, Owed(r, swept) PROVE FALSE BY DEF SweptFired
        <3>1. DueAt(row[r].at) \in Int BY <2>3, OwedDue DEF Owed
        <3> QED BY <3>1 DEF Init, Owed
    <2>5. NeverLate BY RemindersAssumption DEF Init, NeverLate
    <2> QED BY <2>1, <2>2, <2>4, <2>5 DEF MissInv
<1>2. TypeInv /\ TypeInv' /\ TimeInv /\ MissInv /\ [Next]_vars => MissInv' BY MissStep
<1>3. TypeInv /\ MissInv => NoReminderMissed
    <2> SUFFICES ASSUME TypeInv, MissInv, NEW r \in Rows, row[r] # None, row[r].matches,
                        DueAt(row[r].at) >= 0, clock > DueAt(row[r].at) + Grace
                 PROVE  enqueued[r][DueAt(row[r].at)] > 0
        BY DEF NoReminderMissed
    <2>1. DueAt(row[r].at) \in Int /\ clock \in Int /\ Grace \in Int /\ swept \in Int
        BY OwedDue, RemindersAssumption DEF TypeInv, TypeOK
    <2>2. DueAt(row[r].at) <= swept /\ 0 <= DueAt(row[r].at) BY <2>1 DEF MissInv, NeverLate
    <2>3. Owed(r, swept) BY <2>2, Zenon DEF Owed
    <2> QED BY <2>3 DEF MissInv, SweptFired, Reminded
<1>4. Spec => [](TypeInv /\ MissInv) BY <1>1, <1>2, TimeInvariance, PTL DEF Spec
<1> QED BY <1>3, <1>4, PTL
=============================================================================
