-------------------------- MODULE FileStoreProofs --------------------------
(***************************************************************************)
(* Proofs about FileStore, for any number of clients, ids, contents and    *)
(* faults: types, every row has its blob, every blob has a row, nothing is *)
(* left behind.  Each property is strengthened to an inductive one below;  *)
(* the invariants build on each other in the order of the lemmas.          *)
(***************************************************************************)
EXTENDS FileStore, TLAPS

\* What a request has in hand at each of its steps, and which rows there can be.
Held ==
    /\ \A c \in Clients :
          /\ pc[c] \in {"stat", "putBlob", "insert", "delCheck", "delCommit", "delBlob"}
                => want[c] \in Contents
          /\ pc[c] \in {"rest", "delRow", "delCheck", "delCommit", "delBlob"}
                => file[c] \in used
          /\ pc[c] = "delBlob" => ~shared[c]
          /\ c \in undo => pc[c] \in {"delRow", "delCheck", "delCommit", "delBlob"}
          /\ c \in temps => pc[c] \in {"stat", "putBlob"}
    /\ \A i \in Ids : rows[i] # None => i \in used

\* The lock on a deleted row: one transaction at a time has it, and until that
\* ends the row is as DELETE ... RETURNING found it.
RowLocked ==
    /\ \A c \in Clients : InTransaction(c) => rows[file[c]] = want[c]
    /\ \A c, d \in Clients : c # d /\ InTransaction(c) /\ InTransaction(d) => file[c] # file[d]

\* What RowsHaveBlobs needs: an upload that is past its blob has it, and who is
\* about to remove a blob has the last row of that content, or has deleted it;
\* but for overlaps.
InsertsHaveBlobs ==
    \A c \in Clients : pc[c] = "insert" /\ want[c] \notin overlapped => want[c] \in blobs

RemovesLast ==
    \A c \in Clients : \A i \in Ids :
        Removing(c, want[c]) /\ want[c] \notin overlapped /\ rows[i] = want[c]
            => pc[c] = "delCommit" /\ i = file[c]

Backed == RowsHaveBlobs /\ InsertsHaveBlobs /\ RemovesLast

\* What BlobsHaveRows needs: of two deletes of one content that both asked for
\* other rows, the later one saw the earlier; so a delete that leaves the blob
\* leaves a row; and a blob without a row has an upload or a delete to go with.
DeletesSeen ==
    \A c, d \in Clients :
        c # d /\ pc[c] = "delCommit" /\ pc[d] = "delCommit" /\ want[c] = want[d]
            => want[c] \in leaked

SharedHasOther ==
    \A c \in Clients :
        pc[c] = "delCommit" /\ shared[c] /\ want[c] \notin leaked
            => \E i \in Ids \ {file[c]} : rows[i] = want[c]

Attended ==
    \A s \in blobs \ leaked :
        \/ \E i \in Ids : rows[i] = s
        \/ \E c \in Clients : pc[c] \in {"insert", "delBlob"} /\ want[c] = s

Kept == DeletesSeen /\ SharedHasOther /\ Attended

\* What NothingLeftBehind needs: an upload that was taken back has lost its row
\* by the time its blob goes.
TakenBack ==
    \A c \in undo : pc[c] = "delBlob" => rows[file[c]] = None

Tidy == NothingLeftBehind /\ TakenBack

-----------------------------------------------------------------------------

\* A request that is over has nothing in hand.
LEMMA ForgetTypes ==
  ASSUME TypeOK, NEW c \in Clients, Forget(c)
  PROVE  /\ pc' \in [Clients -> Location]
         /\ want' \in [Clients -> Contents \cup {None}]
         /\ file' \in [Clients -> Ids \cup {None}]
         /\ shared' \in [Clients -> BOOLEAN]
         /\ undo' \in SUBSET Clients
BY DEF TypeOK, Location, Forget, Goto

\* Every step keeps the types.
LEMMA TypeStep == Held /\ TypeOK /\ [Next]_vars => TypeOK'
<1> SUFFICES ASSUME Held /\ TypeOK, [Next]_vars PROVE TypeOK'
  OBVIOUS
<1> USE FileStoreAssumption DEF TypeOK, Location, Held
<1>1. ASSUME NEW c \in Clients, NEW s \in Contents, Stage(c, s) PROVE TypeOK'
  BY <1>1 DEF Stage, Goto, marks
<1>2. ASSUME NEW c \in Clients, StatBlob(c) PROVE TypeOK'
  <2>1. CASE PutFails(c)
    BY <1>2, <2>1, ForgetTypes DEF StatBlob, PutFails, Fault, marks
  <2>2. CASE ~PutFails(c)
    BY <1>2, <2>2 DEF StatBlob, Goto, local, marks
  <2> QED
    BY <2>1, <2>2
<1>3. ASSUME NEW c \in Clients, PutBlob(c) PROVE TypeOK'
  <2>1. CASE PutFails(c)
    BY <1>3, <2>1, ForgetTypes DEF PutBlob, PutFails, Fault, marks
  <2>2. CASE ~PutFails(c)
    BY <1>3, <2>2 DEF PutBlob, Goto, local, marks
  <2> QED
    BY <2>1, <2>2
<1>4. ASSUME NEW c \in Clients, Insert(c) PROVE TypeOK'
  <2>1. CASE Forget(c) /\ Fault
    BY <1>4, <2>1, ForgetTypes DEF Insert, Fault
  <2>2. CASE ~(Forget(c) /\ Fault)
    BY <1>4, <2>2 DEF Insert, Goto
  <2> QED
    BY <2>1, <2>2
<1>5. ASSUME NEW c \in Clients, Answer(c) PROVE TypeOK'
  BY <1>5 DEF Answer, Forget, Goto, marks
<1>6. ASSUME NEW c \in Clients, SecondFile(c) PROVE TypeOK'
  BY <1>6 DEF SecondFile, Goto, marks
<1>7. ASSUME NEW c \in Clients, Malformed(c) PROVE TypeOK'
  BY <1>7 DEF Malformed, Fails, Forget, Goto, marks
<1>8. ASSUME NEW c \in Clients, NEW i \in Ids, RequestDelete(c, i) PROVE TypeOK'
  BY <1>8 DEF RequestDelete, Goto, marks
<1>9. ASSUME NEW c \in Clients, DeleteRow(c) PROVE TypeOK'
  BY <1>9 DEF DeleteRow, InTransaction, Fails, Forget, Goto, marks
<1>10. ASSUME NEW c \in Clients, CheckShared(c) PROVE TypeOK'
  BY <1>10 DEF CheckShared, InTransaction, Goto
<1>11. ASSUME NEW c \in Clients, DeleteCommit(c) PROVE TypeOK'
  <2>1. CASE Forget(c)
    BY <1>11, <2>1, ForgetTypes DEF DeleteCommit, Fails, Fault, marks
  <2>2. CASE ~Forget(c)
    BY <1>11, <2>2 DEF DeleteCommit, Fails, Goto, local, marks
  <2> QED
    BY <2>1, <2>2
<1>12. ASSUME NEW c \in Clients, DeleteBlob(c) PROVE TypeOK'
  BY <1>12 DEF DeleteBlob, Forget, Goto, Fault
<1>13. ASSUME NEW c \in Clients, Crash(c) PROVE TypeOK'
  BY <1>13 DEF Crash, Fails, Forget, Goto, Fault
<1>14. CASE UNCHANGED vars
  BY <1>14 DEF vars, local, marks
<1> QED
  BY <1>1, <1>2, <1>3, <1>4, <1>5, <1>6, <1>7, <1>8, <1>9, <1>10, <1>11, <1>12, <1>13, <1>14
  DEF Next, Step

\* Every step leaves a request with what its next step needs.
LEMMA HeldStep == TypeOK /\ TypeOK' /\ Held /\ [Next]_vars => Held'
<1> SUFFICES ASSUME TypeOK /\ TypeOK' /\ Held, [Next]_vars PROVE Held'
  OBVIOUS
<1> USE FileStoreAssumption DEF TypeOK, Location, Held
<1>1. ASSUME NEW c \in Clients, NEW s \in Contents, Stage(c, s) PROVE Held'
  BY <1>1 DEF Stage, Goto, marks
<1>2. ASSUME NEW c \in Clients, StatBlob(c) PROVE Held'
  BY <1>2 DEF StatBlob, PutFails, Forget, Goto, Fault, local, marks
<1>3. ASSUME NEW c \in Clients, PutBlob(c) PROVE Held'
  BY <1>3 DEF PutBlob, PutFails, Forget, Goto, Fault, Removing, local
<1>4. ASSUME NEW c \in Clients, Insert(c) PROVE Held'
  BY <1>4 DEF Insert, Forget, Goto, Fault, Removing
<1>5. ASSUME NEW c \in Clients, Answer(c) PROVE Held'
  BY <1>5 DEF Answer, Forget, Goto, marks
<1>6. ASSUME NEW c \in Clients, SecondFile(c) PROVE Held'
  BY <1>6 DEF SecondFile, Goto, marks
<1>7. ASSUME NEW c \in Clients, Malformed(c) PROVE Held'
  BY <1>7 DEF Malformed, Fails, Forget, Goto, marks
<1>8. ASSUME NEW c \in Clients, NEW i \in Ids, RequestDelete(c, i) PROVE Held'
  BY <1>8 DEF RequestDelete, Goto, marks
<1>9. ASSUME NEW c \in Clients, DeleteRow(c) PROVE Held'
  BY <1>9 DEF DeleteRow, InTransaction, Fails, Forget, Goto, marks
<1>10. ASSUME NEW c \in Clients, CheckShared(c) PROVE Held'
  BY <1>10 DEF CheckShared, InTransaction, Goto
<1>11. ASSUME NEW c \in Clients, DeleteCommit(c) PROVE Held'
  BY <1>11 DEF DeleteCommit, Fails, Forget, Goto, Fault, local, marks
<1>12. ASSUME NEW c \in Clients, DeleteBlob(c) PROVE Held'
  BY <1>12 DEF DeleteBlob, Forget, Goto, Fault
<1>13. ASSUME NEW c \in Clients, Crash(c) PROVE Held'
  BY <1>13 DEF Crash, Fails, Forget, Goto, Fault
<1>14. CASE UNCHANGED vars
  BY <1>14 DEF vars, local, marks
<1> QED
  BY <1>1, <1>2, <1>3, <1>4, <1>5, <1>6, <1>7, <1>8, <1>9, <1>10, <1>11, <1>12, <1>13, <1>14
  DEF Next, Step

\* Deletes of one row exclude each other (pgStore.del's transaction).
LEMMA RowLockedStep == TypeOK /\ TypeOK' /\ Held /\ RowLocked /\ [Next]_vars => RowLocked'
<1> SUFFICES ASSUME TypeOK /\ TypeOK' /\ Held /\ RowLocked, [Next]_vars PROVE RowLocked'
  OBVIOUS
<1> USE FileStoreAssumption DEF TypeOK, Location, Held, RowLocked, InTransaction
<1>1. ASSUME NEW c \in Clients, NEW s \in Contents, Stage(c, s) PROVE RowLocked'
  BY <1>1 DEF Stage, Goto, marks
<1>2. ASSUME NEW c \in Clients, StatBlob(c) PROVE RowLocked'
  BY <1>2 DEF StatBlob, PutFails, Forget, Goto, Fault, local, marks
<1>3. ASSUME NEW c \in Clients, PutBlob(c) PROVE RowLocked'
  BY <1>3 DEF PutBlob, PutFails, Forget, Goto, Fault, Removing, local
<1>4. ASSUME NEW c \in Clients, Insert(c) PROVE RowLocked'
  BY <1>4 DEF Insert, Forget, Goto, Fault, Removing
<1>5. ASSUME NEW c \in Clients, Answer(c) PROVE RowLocked'
  BY <1>5 DEF Answer, Forget, Goto, marks
<1>6. ASSUME NEW c \in Clients, SecondFile(c) PROVE RowLocked'
  BY <1>6 DEF SecondFile, Goto, marks
<1>7. ASSUME NEW c \in Clients, Malformed(c) PROVE RowLocked'
  BY <1>7 DEF Malformed, Fails, Forget, Goto, marks
<1>8. ASSUME NEW c \in Clients, NEW i \in Ids, RequestDelete(c, i) PROVE RowLocked'
  BY <1>8 DEF RequestDelete, Goto, marks
<1>9. ASSUME NEW c \in Clients, DeleteRow(c) PROVE RowLocked'
  BY <1>9 DEF DeleteRow, InTransaction, Fails, Forget, Goto, marks
<1>10. ASSUME NEW c \in Clients, CheckShared(c) PROVE RowLocked'
  BY <1>10 DEF CheckShared, InTransaction, Goto
<1>11. ASSUME NEW c \in Clients, DeleteCommit(c) PROVE RowLocked'
  BY <1>11 DEF DeleteCommit, Fails, Forget, Goto, Fault, local, marks
<1>12. ASSUME NEW c \in Clients, DeleteBlob(c) PROVE RowLocked'
  BY <1>12 DEF DeleteBlob, Forget, Goto, Fault
<1>13. ASSUME NEW c \in Clients, Crash(c) PROVE RowLocked'
  BY <1>13 DEF Crash, Fails, Forget, Goto, Fault
<1>14. CASE UNCHANGED vars
  BY <1>14 DEF vars, local, marks
<1> QED
  BY <1>1, <1>2, <1>3, <1>4, <1>5, <1>6, <1>7, <1>8, <1>9, <1>10, <1>11, <1>12, <1>13, <1>14
  DEF Next, Step

\* No step parts a row from its blob but an overlap (Store.Put beside Store.Delete).
LEMMA BackedStep == TypeOK /\ TypeOK' /\ Held /\ RowLocked /\ Backed /\ [Next]_vars => Backed'
<1> SUFFICES ASSUME TypeOK /\ TypeOK' /\ Held /\ RowLocked /\ Backed, [Next]_vars PROVE Backed'
  OBVIOUS
<1> USE FileStoreAssumption DEF TypeOK, Location, Held, RowLocked, InTransaction,
        Backed, RowsHaveBlobs, InsertsHaveBlobs, RemovesLast, Removing
<1>1. ASSUME NEW c \in Clients, NEW s \in Contents, Stage(c, s) PROVE Backed'
  BY <1>1 DEF Stage, Goto, marks
<1>2. ASSUME NEW c \in Clients, StatBlob(c) PROVE Backed'
  BY <1>2 DEF StatBlob, PutFails, Forget, Goto, Fault, local, marks
<1>3. ASSUME NEW c \in Clients, PutBlob(c) PROVE Backed'
  BY <1>3 DEF PutBlob, PutFails, Forget, Goto, Fault, Removing, local
<1>4. ASSUME NEW c \in Clients, Insert(c) PROVE Backed'
  BY <1>4 DEF Insert, Forget, Goto, Fault, Removing
<1>5. ASSUME NEW c \in Clients, Answer(c) PROVE Backed'
  BY <1>5 DEF Answer, Forget, Goto, marks
<1>6. ASSUME NEW c \in Clients, SecondFile(c) PROVE Backed'
  BY <1>6 DEF SecondFile, Goto, marks
<1>7. ASSUME NEW c \in Clients, Malformed(c) PROVE Backed'
  BY <1>7 DEF Malformed, Fails, Forget, Goto, marks
<1>8. ASSUME NEW c \in Clients, NEW i \in Ids, RequestDelete(c, i) PROVE Backed'
  BY <1>8 DEF RequestDelete, Goto, marks
<1>9. ASSUME NEW c \in Clients, DeleteRow(c) PROVE Backed'
  BY <1>9 DEF DeleteRow, InTransaction, Fails, Forget, Goto, marks
<1>10. ASSUME NEW c \in Clients, CheckShared(c) PROVE Backed'
  BY <1>10 DEF CheckShared, InTransaction, Goto
<1>11. ASSUME NEW c \in Clients, DeleteCommit(c) PROVE Backed'
  BY <1>11 DEF DeleteCommit, Fails, Forget, Goto, Fault, local, marks
<1>12. ASSUME NEW c \in Clients, DeleteBlob(c) PROVE Backed'
  <2>1. RowsHaveBlobs'
    BY <1>12 DEF DeleteBlob, Forget, Goto, Fault
  <2>2. InsertsHaveBlobs'
    BY <1>12 DEF DeleteBlob, Forget, Goto, Fault
  <2>3. RemovesLast'
    BY <1>12 DEF DeleteBlob, Forget, Goto, Fault
  <2> QED
    BY <2>1, <2>2, <2>3
<1>13. ASSUME NEW c \in Clients, Crash(c) PROVE Backed'
  BY <1>13 DEF Crash, Fails, Forget, Goto, Fault
<1>14. CASE UNCHANGED vars
  BY <1>14 DEF vars, local, marks
<1> QED
  BY <1>1, <1>2, <1>3, <1>4, <1>5, <1>6, <1>7, <1>8, <1>9, <1>10, <1>11, <1>12, <1>13, <1>14
  DEF Next, Step

\* No step forgets a blob, but for faults and overlapping deletes (pgStore.del).
LEMMA KeptStep == TypeOK /\ TypeOK' /\ Held /\ RowLocked /\ Kept /\ [Next]_vars => Kept'
<1> SUFFICES ASSUME TypeOK /\ TypeOK' /\ Held /\ RowLocked /\ Kept, [Next]_vars PROVE Kept'
  OBVIOUS
<1> USE FileStoreAssumption DEF TypeOK, Location, Held, RowLocked, InTransaction,
        Kept, DeletesSeen, SharedHasOther, Attended
<1>1. ASSUME NEW c \in Clients, NEW s \in Contents, Stage(c, s) PROVE Kept'
  <2>1. DeletesSeen'
    BY <1>1 DEF Stage, Goto, marks
  <2>2. SharedHasOther'
    BY <1>1 DEF Stage, Goto, marks
  <2>3. Attended'
    BY <1>1 DEF Stage, Goto, marks
  <2> QED
    BY <2>1, <2>2, <2>3
<1>2. ASSUME NEW c \in Clients, StatBlob(c) PROVE Kept'
  <2>1. DeletesSeen'
    BY <1>2 DEF StatBlob, PutFails, Forget, Goto, Fault, local, marks
  <2>2. SharedHasOther'
    BY <1>2 DEF StatBlob, PutFails, Forget, Goto, Fault, local, marks
  <2>3. Attended'
    BY <1>2 DEF StatBlob, PutFails, Forget, Goto, Fault, local, marks
  <2> QED
    BY <2>1, <2>2, <2>3
<1>3. ASSUME NEW c \in Clients, PutBlob(c) PROVE Kept'
  <2>1. DeletesSeen'
    BY <1>3 DEF PutBlob, PutFails, Forget, Goto, Fault, Removing, local
  <2>2. SharedHasOther'
    BY <1>3 DEF PutBlob, PutFails, Forget, Goto, Fault, Removing, local
  <2>3. Attended'
    BY <1>3 DEF PutBlob, PutFails, Forget, Goto, Fault, Removing, local
  <2> QED
    BY <2>1, <2>2, <2>3
<1>4. ASSUME NEW c \in Clients, Insert(c) PROVE Kept'
  <2>1. DeletesSeen'
    BY <1>4 DEF Insert, Forget, Goto, Fault, Removing
  <2>2. SharedHasOther'
    BY <1>4 DEF Insert, Forget, Goto, Fault, Removing
  <2>3. Attended'
    BY <1>4 DEF Insert, Forget, Goto, Fault, Removing
  <2> QED
    BY <2>1, <2>2, <2>3
<1>5. ASSUME NEW c \in Clients, Answer(c) PROVE Kept'
  <2>1. DeletesSeen'
    BY <1>5 DEF Answer, Forget, Goto, marks
  <2>2. SharedHasOther'
    BY <1>5 DEF Answer, Forget, Goto, marks
  <2>3. Attended'
    BY <1>5 DEF Answer, Forget, Goto, marks
  <2> QED
    BY <2>1, <2>2, <2>3
<1>6. ASSUME NEW c \in Clients, SecondFile(c) PROVE Kept'
  <2>1. DeletesSeen'
    BY <1>6 DEF SecondFile, Goto, marks
  <2>2. SharedHasOther'
    BY <1>6 DEF SecondFile, Goto, marks
  <2>3. Attended'
    BY <1>6 DEF SecondFile, Goto, marks
  <2> QED
    BY <2>1, <2>2, <2>3
<1>7. ASSUME NEW c \in Clients, Malformed(c) PROVE Kept'
  <2>1. DeletesSeen'
    BY <1>7 DEF Malformed, Fails, Forget, Goto, marks
  <2>2. SharedHasOther'
    BY <1>7 DEF Malformed, Fails, Forget, Goto, marks
  <2>3. Attended'
    BY <1>7 DEF Malformed, Fails, Forget, Goto, marks
  <2> QED
    BY <2>1, <2>2, <2>3
<1>8. ASSUME NEW c \in Clients, NEW i \in Ids, RequestDelete(c, i) PROVE Kept'
  <2>1. DeletesSeen'
    BY <1>8 DEF RequestDelete, Goto, marks
  <2>2. SharedHasOther'
    BY <1>8 DEF RequestDelete, Goto, marks
  <2>3. Attended'
    BY <1>8 DEF RequestDelete, Goto, marks
  <2> QED
    BY <2>1, <2>2, <2>3
<1>9. ASSUME NEW c \in Clients, DeleteRow(c) PROVE Kept'
  <2>1. DeletesSeen'
    BY <1>9 DEF DeleteRow, InTransaction, Fails, Forget, Goto, marks
  <2>2. SharedHasOther'
    BY <1>9 DEF DeleteRow, InTransaction, Fails, Forget, Goto, marks
  <2>3. Attended'
    BY <1>9 DEF DeleteRow, InTransaction, Fails, Forget, Goto, marks
  <2> QED
    BY <2>1, <2>2, <2>3
<1>10. ASSUME NEW c \in Clients, CheckShared(c) PROVE Kept'
  <2>1. DeletesSeen'
    BY <1>10 DEF CheckShared, InTransaction, Goto
  <2>2. SharedHasOther'
    BY <1>10 DEF CheckShared, InTransaction, Goto
  <2>3. Attended'
    BY <1>10 DEF CheckShared, InTransaction, Goto
  <2> QED
    BY <2>1, <2>2, <2>3
<1>11. ASSUME NEW c \in Clients, DeleteCommit(c) PROVE Kept'
  <2>1. DeletesSeen'
    BY <1>11 DEF DeleteCommit, Fails, Forget, Goto, Fault, local, marks
  <2>2. SharedHasOther'
    BY <1>11 DEF DeleteCommit, Fails, Forget, Goto, Fault, local, marks
  <2>3. Attended'
    BY <1>11 DEF DeleteCommit, Fails, Forget, Goto, Fault, local, marks
  <2> QED
    BY <2>1, <2>2, <2>3
<1>12. ASSUME NEW c \in Clients, DeleteBlob(c) PROVE Kept'
  <2>1. DeletesSeen'
    BY <1>12 DEF DeleteBlob, Forget, Goto, Fault
  <2>2. SharedHasOther'
    BY <1>12 DEF DeleteBlob, Forget, Goto, Fault
  <2>3. Attended'
    BY <1>12 DEF DeleteBlob, Forget, Goto, Fault
  <2> QED
    BY <2>1, <2>2, <2>3
<1>13. ASSUME NEW c \in Clients, Crash(c) PROVE Kept'
  <2>1. DeletesSeen'
    BY <1>13 DEF Crash, Fails, Forget, Goto, Fault
  <2>2. SharedHasOther'
    BY <1>13 DEF Crash, Fails, Forget, Goto, Fault
  <2>3. Attended'
    BY <1>13 DEF Crash, Fails, Forget, Goto, Fault
  <2> QED
    BY <2>1, <2>2, <2>3
<1>14. CASE UNCHANGED vars
  BY <1>14 DEF vars, local, marks
<1> QED
  BY <1>1, <1>2, <1>3, <1>4, <1>5, <1>6, <1>7, <1>8, <1>9, <1>10, <1>11, <1>12, <1>13, <1>14
  DEF Next, Step

\* No step leaves a temporary file or an unknown row (ProcessUpload).
LEMMA TidyStep == TypeOK /\ TypeOK' /\ Held /\ Tidy /\ [Next]_vars => Tidy'
<1> SUFFICES ASSUME TypeOK /\ TypeOK' /\ Held /\ Tidy, [Next]_vars PROVE Tidy'
  OBVIOUS
<1> USE FileStoreAssumption DEF TypeOK, Location, Held, Tidy, NothingLeftBehind, TakenBack
<1>1. ASSUME NEW c \in Clients, NEW s \in Contents, Stage(c, s) PROVE Tidy'
  BY <1>1 DEF Stage, Goto, marks
<1>2. ASSUME NEW c \in Clients, StatBlob(c) PROVE Tidy'
  BY <1>2 DEF StatBlob, PutFails, Forget, Goto, Fault, local, marks
<1>3. ASSUME NEW c \in Clients, PutBlob(c) PROVE Tidy'
  BY <1>3 DEF PutBlob, PutFails, Forget, Goto, Fault, Removing, local
<1>4. ASSUME NEW c \in Clients, Insert(c) PROVE Tidy'
  BY <1>4 DEF Insert, Forget, Goto, Fault, Removing
<1>5. ASSUME NEW c \in Clients, Answer(c) PROVE Tidy'
  BY <1>5 DEF Answer, Forget, Goto, marks
<1>6. ASSUME NEW c \in Clients, SecondFile(c) PROVE Tidy'
  BY <1>6 DEF SecondFile, Goto, marks
<1>7. ASSUME NEW c \in Clients, Malformed(c) PROVE Tidy'
  BY <1>7 DEF Malformed, Fails, Forget, Goto, marks
<1>8. ASSUME NEW c \in Clients, NEW i \in Ids, RequestDelete(c, i) PROVE Tidy'
  BY <1>8 DEF RequestDelete, Goto, marks
<1>9. ASSUME NEW c \in Clients, DeleteRow(c) PROVE Tidy'
  BY <1>9 DEF DeleteRow, InTransaction, Fails, Forget, Goto, marks
<1>10. ASSUME NEW c \in Clients, CheckShared(c) PROVE Tidy'
  BY <1>10 DEF CheckShared, InTransaction, Goto
<1>11. ASSUME NEW c \in Clients, DeleteCommit(c) PROVE Tidy'
  BY <1>11 DEF DeleteCommit, Fails, Forget, Goto, Fault, local, marks
<1>12. ASSUME NEW c \in Clients, DeleteBlob(c) PROVE Tidy'
  BY <1>12 DEF DeleteBlob, Forget, Goto, Fault
<1>13. ASSUME NEW c \in Clients, Crash(c) PROVE Tidy'
  BY <1>13 DEF Crash, Fails, Forget, Goto, Fault
<1>14. CASE UNCHANGED vars
  BY <1>14 DEF vars, local, marks
<1> QED
  BY <1>1, <1>2, <1>3, <1>4, <1>5, <1>6, <1>7, <1>8, <1>9, <1>10, <1>11, <1>12, <1>13, <1>14
  DEF Next, Step

-----------------------------------------------------------------------------
IInv == TypeOK /\ Held /\ RowLocked /\ Backed /\ Kept /\ Tidy

\* The conjunction of them all is an invariant.
THEOREM Invariance == Spec => []IInv
<1>1. Init => IInv
  BY FileStoreAssumption
  DEF Init, IInv, TypeOK, Location, Held, RowLocked, InTransaction, Backed, RowsHaveBlobs,
      InsertsHaveBlobs, RemovesLast, Removing, Kept, DeletesSeen, SharedHasOther, Attended,
      Tidy, NothingLeftBehind, TakenBack
<1>2. IInv /\ [Next]_vars => IInv'
  BY TypeStep, HeldStep, RowLockedStep, BackedStep, KeptStep, TidyStep DEF IInv
<1>3. QED
  BY <1>1, <1>2, PTL DEF Spec

\* Every variable has its type, for any number of requests.
THEOREM TypeCorrect == Spec => []TypeOK
<1>1. IInv => TypeOK
  BY DEF IInv
<1>2. QED
  BY Invariance, <1>1, PTL

\* Every file has its blob, through any faults and however many uploads and
\* deletes meet, unless an upload overlapped the removal of its content.
THEOREM FilesAreReadable == Spec => []RowsHaveBlobs
<1>1. IInv => RowsHaveBlobs
  BY DEF IInv, Backed
<1>2. QED
  BY Invariance, <1>1, PTL

\* A blob outlives its last row only because of a fault or of two deletes that
\* overlapped (pgStore.del's EXISTS).
THEOREM BlobsAreReferenced == Spec => []BlobsHaveRows
<1>1. IInv => BlobsHaveRows
  BY DEF IInv, Kept, Attended, BlobsHaveRows
<1>2. QED
  BY Invariance, <1>1, PTL

\* No temporary file but a crash's, and no file behind an error but those the
\* upload handler gives up.
THEOREM UploadsAreTidy == Spec => []NothingLeftBehind
<1>1. IInv => NothingLeftBehind
  BY DEF IInv, Tidy
<1>2. QED
  BY Invariance, <1>1, PTL
=============================================================================

