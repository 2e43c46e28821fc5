----------------------------- MODULE FileStore -----------------------------
(***************************************************************************)
(* The file store of a tenant (pkg/files/store.go): metadata rows in       *)
(* PostgreSQL (meta.go), content-addressed blobs in a backend              *)
(* (backend_local.go; S3 takes the same steps), uploads staged in temporary *)
(* files.  Uploads and deletions of any number of clients interleave       *)
(* between the row and the blob; a step may fail and a process may die.    *)
(* An upload is a multipart request (http.go): after its one file comes    *)
(* the rest of the body, and a second file takes the first one back.       *)
(*                                                                         *)
(* A blob is named by its content (sha256), so rows with equal content     *)
(* share one.  Reading (Get, Serve, Stat, ListMeta) changes nothing.       *)
(***************************************************************************)
EXTENDS Naturals, FiniteSets

CONSTANTS Clients, Ids, Contents, None,
          MaxFaults     \* bound of the model

ASSUME FileStoreAssumption ==
    /\ None \notin Contents /\ None \notin Ids
    /\ MaxFaults \in Nat

VARIABLES
    rows,       \* committed rows: the content of each file, None if there is no row
    used,       \* ids that were ever assigned: gen_random_uuid gives none twice
    blobs,      \* contents in the backend
    temps,      \* clients with a staged temporary file
    garbage,    \* temporary files that nobody removes
    pc,
    want,       \* the content a client uploads, or deletes
    file,       \* the id a client deletes
    shared,     \* del: stillRef
    undo,       \* clients whose delete takes back their own upload
    known,      \* history: ids an upload was answered with, or whose file an error left
    overlapped, \* history: contents whose upload overlapped the removal of their blob
    leaked,     \* history: contents left without a row by a fault or by overlapping deletes
    faults

marks == <<overlapped, leaked>>
local == <<want, file, shared, undo>>
vars == <<rows, used, blobs, temps, garbage, pc, local, known, marks, faults>>

Init ==
    /\ rows = [i \in Ids |-> None]
    /\ used = {} /\ blobs = {} /\ temps = {} /\ garbage = 0
    /\ pc = [c \in Clients |-> "idle"]
    /\ want = [c \in Clients |-> None]
    /\ file = [c \in Clients |-> None]
    /\ shared = [c \in Clients |-> FALSE]
    /\ undo = {} /\ known = {}
    /\ overlapped = {} /\ leaked = {}
    /\ faults = 0

Goto(c, l) == pc' = [pc EXCEPT ![c] = l]

Fault ==
    /\ faults < MaxFaults
    /\ faults' = faults + 1

\* A client that is about to remove the blob of s, or will after its commit.
Removing(c, s) ==
    pc[c] \in {"delCommit", "delBlob"} /\ want[c] = s /\ ~shared[c]

\* The local variables of a request that is over.
Forget(c) ==
    /\ want' = [want EXCEPT ![c] = None]
    /\ file' = [file EXCEPT ![c] = None]
    /\ shared' = [shared EXCEPT ![c] = FALSE]
    /\ undo' = undo \ {c}
    /\ Goto(c, "idle")

\* A request that ends without having removed its file: if that was to take an
\* upload back, the file stays behind an error.
Fails(c) ==
    /\ known' = IF pc[c] = "rest" \/ c \in undo THEN known \cup {file[c]} ELSE known
    /\ Forget(c)

-----------------------------------------------------------------------------
(* Put. *)

\* The upload is validated and streamed into a temporary file, hashed as it goes.
\* If that fails the file is removed and nothing has happened.
Stage(c, s) ==
    /\ pc[c] = "idle"
    /\ Ids \ used # {}
    /\ want' = [want EXCEPT ![c] = s]
    /\ temps' = temps \cup {c}
    /\ Goto(c, "stat")
    /\ UNCHANGED <<rows, used, blobs, garbage, file, shared, undo, known, marks, faults>>

\* Every early return removes the temporary file.
PutFails(c) ==
    /\ Fault
    /\ temps' = temps \ {c}
    /\ Forget(c)

\* Stat of the blob: stored already (the temporary file is dropped), or not.
StatBlob(c) ==
    /\ pc[c] = "stat"
    /\ \/ /\ want[c] \in blobs
          /\ temps' = temps \ {c}
          /\ Goto(c, "insert")
          /\ UNCHANGED <<local, faults>>
       \/ /\ want[c] \notin blobs
          /\ Goto(c, "putBlob")
          /\ UNCHANGED <<temps, local, faults>>
       \/ PutFails(c)
    /\ UNCHANGED <<rows, used, blobs, garbage, known, marks>>

\* The backend adopts the file by a rename.  The blob is there again for every
\* row of that content, unless somebody is about to remove it.
PutBlob(c) ==
    /\ pc[c] = "putBlob"
    /\ \/ /\ blobs' = blobs \cup {want[c]}
          /\ temps' = temps \ {c}
          /\ overlapped' = IF \E d \in Clients : Removing(d, want[c])
                           THEN overlapped ELSE overlapped \ {want[c]}
          /\ Goto(c, "insert")
          /\ UNCHANGED <<local, faults>>
       \/ PutFails(c) /\ UNCHANGED <<blobs, overlapped>>
    /\ UNCHANGED <<rows, used, garbage, leaked, known>>

\* The metadata row, last.  If it fails the blob is left.
Insert(c) ==
    /\ pc[c] = "insert"
    /\ \/ \E i \in Ids \ used :
             /\ rows' = [rows EXCEPT ![i] = want[c]]
             /\ used' = used \cup {i}
             /\ overlapped' = IF \E d \in Clients : Removing(d, want[c])
                              THEN overlapped \cup {want[c]} ELSE overlapped
             /\ file' = [file EXCEPT ![c] = i]
             /\ want' = [want EXCEPT ![c] = None]
             /\ Goto(c, "rest")
             /\ UNCHANGED <<leaked, faults, shared, undo>>
       \/ /\ Fault
          /\ leaked' = leaked \cup {want[c]}
          /\ Forget(c)
          /\ UNCHANGED <<rows, used, overlapped>>
    /\ UNCHANGED <<blobs, temps, garbage, known>>

\* The body ends and the client gets its id.
Answer(c) ==
    /\ pc[c] = "rest"
    /\ known' = known \cup {file[c]}
    /\ Forget(c)
    /\ UNCHANGED <<rows, used, blobs, temps, garbage, marks, faults>>

\* Mutant: a second file is refused, the first stays.
SecondFileRefused(c) ==
    /\ pc[c] = "rest"
    /\ Forget(c)
    /\ UNCHANGED <<rows, used, blobs, temps, garbage, known, marks, faults>>

\* A second file in the body: the first one is taken back.
SecondFile(c) ==
    /\ pc[c] = "rest"
    /\ undo' = undo \cup {c}
    /\ Goto(c, "delRow")
    /\ UNCHANGED <<rows, used, blobs, temps, garbage, want, file, shared, known, marks, faults>>

\* The rest of the body is malformed or too large: an error, and the file stays.
Malformed(c) ==
    /\ pc[c] = "rest"
    /\ Fails(c)
    /\ UNCHANGED <<rows, used, blobs, temps, garbage, marks, faults>>

-----------------------------------------------------------------------------
(* Delete: a transaction (the row, the question who else has the content) and *)
(* then the blob.                                                             *)

RequestDelete(c, i) ==
    /\ pc[c] = "idle"
    /\ i \in used
    /\ file' = [file EXCEPT ![c] = i]
    /\ Goto(c, "delRow")
    /\ UNCHANGED <<rows, used, blobs, temps, garbage, want, shared, undo, known, marks, faults>>

InTransaction(c) == pc[c] \in {"delCheck", "delCommit"}

\* DELETE ... RETURNING: it waits for another transaction's delete of that row.
\* There is no such row; or a record references the file (RESTRICT), which is a
\* conflict; or the row goes.
DeleteRow(c) ==
    /\ pc[c] = "delRow"
    /\ \A d \in Clients \ {c} : ~(InTransaction(d) /\ file[d] = file[c])
    /\ \/ /\ rows[file[c]] = None
          /\ Forget(c)
          /\ UNCHANGED known
       \/ rows[file[c]] # None /\ Fails(c)
       \/ /\ rows[file[c]] # None
          /\ want' = [want EXCEPT ![c] = rows[file[c]]]
          /\ Goto(c, "delCheck")
          /\ UNCHANGED <<file, shared, undo, known>>
    /\ UNCHANGED <<rows, used, blobs, temps, garbage, marks, faults>>

\* Mutant: nobody asks whether the content is shared.
CheckNothing(c) ==
    /\ pc[c] = "delCheck"
    /\ Goto(c, "delCommit")
    /\ UNCHANGED <<rows, used, blobs, temps, garbage, local, known, marks, faults>>

\* EXISTS another row with this content, among the rows that are committed: two
\* deletes at the same time see each other's row.
CheckShared(c) ==
    /\ pc[c] = "delCheck"
    /\ shared' = [shared EXCEPT ![c] = \E i \in Ids \ {file[c]} : rows[i] = want[c]]
    /\ leaked' = IF \E d \in Clients \ {c} : InTransaction(d) /\ want[d] = want[c]
                 THEN leaked \cup {want[c]} ELSE leaked
    /\ Goto(c, "delCommit")
    /\ UNCHANGED <<rows, used, blobs, temps, garbage, want, file, undo, known, overlapped, faults>>

\* Mutant: the blob is forgotten.
CommitOnly(c) ==
    /\ pc[c] = "delCommit"
    /\ rows' = [rows EXCEPT ![file[c]] = None]
    /\ Forget(c)
    /\ UNCHANGED <<used, blobs, temps, garbage, known, marks, faults>>

\* COMMIT, or an error and a rollback.
DeleteCommit(c) ==
    /\ pc[c] = "delCommit"
    /\ \/ /\ rows' = [rows EXCEPT ![file[c]] = None]
          /\ IF shared[c] THEN Forget(c) ELSE Goto(c, "delBlob") /\ UNCHANGED local
          /\ UNCHANGED <<known, faults>>
       \/ Fault /\ Fails(c) /\ UNCHANGED rows
    /\ UNCHANGED <<used, blobs, temps, garbage, marks>>

DeleteBlob(c) ==
    /\ pc[c] = "delBlob"
    /\ \/ /\ blobs' = blobs \ {want[c]}
          /\ overlapped' = IF \E p \in Clients : pc[p] = "insert" /\ want[p] = want[c]
                           THEN overlapped \cup {want[c]} ELSE overlapped
          /\ UNCHANGED <<leaked, faults>>
       \/ /\ Fault
          /\ leaked' = leaked \cup {want[c]}
          /\ UNCHANGED <<blobs, overlapped>>
    /\ Forget(c)
    /\ UNCHANGED <<rows, used, temps, garbage, known>>

-----------------------------------------------------------------------------
\* The process of a client dies: a transaction is rolled back, a temporary file
\* stays, what comes after the last step does not happen.
Crash(c) ==
    /\ pc[c] # "idle"
    /\ Fault
    /\ garbage' = IF c \in temps THEN garbage + 1 ELSE garbage
    /\ temps' = temps \ {c}
    /\ leaked' = IF pc[c] \in {"insert", "delBlob"} THEN leaked \cup {want[c]} ELSE leaked
    /\ Fails(c)
    /\ UNCHANGED <<rows, used, blobs, overlapped>>

Step(c) ==
    \/ StatBlob(c) \/ PutBlob(c) \/ Insert(c)
    \/ Answer(c) \/ SecondFile(c) \/ Malformed(c)
    \/ DeleteRow(c) \/ CheckShared(c) \/ DeleteCommit(c) \/ DeleteBlob(c)

Next ==
    \E c \in Clients :
        \/ \E s \in Contents : Stage(c, s)
        \/ \E i \in Ids : RequestDelete(c, i)
        \/ Step(c)
        \/ Crash(c)

Spec == Init /\ [][Next]_vars

-----------------------------------------------------------------------------
(***************************************************************************)
(* Properties.                                                             *)
(***************************************************************************)

Location == {"idle", "stat", "putBlob", "insert", "rest",
             "delRow", "delCheck", "delCommit", "delBlob"}

\* Every variable has its type.
TypeOK ==
    /\ rows \in [Ids -> Contents \cup {None}]
    /\ used \in SUBSET Ids
    /\ blobs \in SUBSET Contents
    /\ temps \in SUBSET Clients
    /\ garbage \in Nat
    /\ pc \in [Clients -> Location]
    /\ want \in [Clients -> Contents \cup {None}]
    /\ file \in [Clients -> Ids \cup {None}]
    /\ shared \in [Clients -> BOOLEAN]
    /\ undo \in SUBSET Clients
    /\ known \in SUBSET Ids
    /\ overlapped \in SUBSET Contents
    /\ leaked \in SUBSET Contents
    /\ faults \in Nat

\* No torn state: every file has its blob, through any faults, unless an upload
\* of its content overlapped the removal of the blob (and until an upload stores
\* that content again).
RowsHaveBlobs ==
    \A i \in Ids : (rows[i] # None /\ rows[i] \notin overlapped) => rows[i] \in blobs

\* A blob outlives its last row only because of a fault or of two deletes that
\* overlapped.
BlobsHaveRows ==
    (\A c \in Clients : pc[c] = "idle")
        => \A s \in blobs \ leaked : \E i \in Ids : rows[i] = s

\* "an interrupted upload leaves no garbage": a temporary file belongs to an
\* upload that has not stored its blob, and only a crash leaves one behind.  And no
\* file behind an error: a row belongs to an upload that was answered with its id
\* or that is still under way, but for a body that breaks off after the file and
\* for a fault or a conflict while the file is taken back.
NothingLeftBehind ==
    /\ garbage <= faults
    /\ \A c \in temps : pc[c] \in {"stat", "putBlob"}
    /\ \A i \in Ids \ known :
          rows[i] # None => \E c \in Clients : file[c] = i /\ (pc[c] = "rest" \/ c \in undo)
============================================================================
