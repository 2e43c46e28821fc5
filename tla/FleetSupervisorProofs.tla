----------------------- MODULE FleetSupervisorProofs -----------------------
(***************************************************************************)
(* Proofs about FleetSupervisor, for any number of slots, requests,        *)
(* crashes, commands and failed starts: the supervisor knows its process,  *)
(* a stopped app stays down and the shutdown leaves nothing.  How long a   *)
(* back-off lasts (delay, consecutive) plays no part in them.              *)
(***************************************************************************)
EXTENDS FleetSupervisor, TLAPS

\* The types the argument needs; and what StopApp was called for.
Typed ==
    /\ running \in BOOLEAN /\ pid \in Slots \cup {0}
    /\ stopping \in BOOLEAN
    /\ life \in [Slots -> {"none", "up", "draining", "dead"}]
    /\ mon \in [Slots -> {"none", "wait", "exited", "backoff", "respawn"}]
    /\ cancelled \in BOOLEAN
    /\ pc \in [Actors -> {"idle", "stop", "term", "poll", "start", "spawn", "over"}]
    /\ kind \in [Actors -> {"none", "stop", "start", "restart", "shutdown"}]
    /\ \A a \in Actors : pc[a] \in {"stop", "term", "poll"}
                            => kind[a] \in {"stop", "restart", "shutdown"}
    /\ target \in [Actors -> Slots \cup {0}]
    /\ wanted \in {"up", "down", "failed"} /\ raced \in BOOLEAN /\ late \in BOOLEAN

\* A live process has a goroutine waiting for it.  Unless a start raced a
\* pending restart, there is one goroutine at most, the process it waits for is
\* the one the supervisor has, and one that is backing off has none.
Solo ==
    /\ \A i \in Slots : life[i] \in {"up", "draining"} => mon[i] = "wait"
    /\ ~raced =>
          /\ \A i, j \in Slots : mon[i] # "none" /\ mon[j] # "none" => i = j
          /\ \A i \in Slots : mon[i] = "wait" => running /\ pid = i
          /\ \A i \in Slots : mon[i] \in {"backoff", "respawn"} => ~running

\* After a stop that found the app running, its mark is there for onExit to see
\* and no goroutine is on its way to a restart.
Stopped ==
    wanted = "down" /\ ~raced =>
        stopping /\ \A i \in Slots : mon[i] \notin {"backoff", "respawn"}

\* In Shutdown's StopApp, the process that is left, if any, is the target; behind
\* it, none is left.
Closing ==
    /\ pc[Main] \in {"stop", "term", "poll", "over"} => cancelled
    /\ ~late /\ ~raced =>
          /\ pc[Main] \in {"term", "poll"} => \A i \in Slots : mon[i] = "wait" => i = target[Main]
          /\ pc[Main] = "over" => \A i \in Slots : life[i] \notin {"up", "draining"}

-----------------------------------------------------------------------------

\* Every step keeps the types, and a request in StopApp knows what it is part of.
LEMMA TypedStep == Typed /\ [Next]_vars => Typed'
<1> SUFFICES ASSUME Typed, [Next]_vars PROVE Typed'
  OBVIOUS
<1> USE FleetAssumption DEF Typed, Actors
<1>1. ASSUME NEW i \in Slots, Crash(i) PROVE Typed'
  BY <1>1 DEF Crash, app, reqs, marks
<1>2. ASSUME NEW i \in Slots, Drained(i) PROVE Typed'
  BY <1>2 DEF Drained, app, reqs, marks
<1>3. ASSUME NEW i \in Slots, Wait(i) PROVE Typed'
  BY <1>3 DEF Wait, app, marks
<1>4. ASSUME NEW i \in Slots, OnExit(i) PROVE Typed'
  BY <1>4 DEF OnExit, reqs, marks
<1>5. ASSUME NEW i \in Slots, Backoff(i) PROVE Typed'
  BY <1>5 DEF Backoff, app, reqs, marks
<1>6. ASSUME NEW i \in Slots, Respawn(i) PROVE Typed'
  BY <1>6 DEF Respawn, Up, SpawnFails, app, reqs
<1>7. ASSUME NEW c \in Callers, NEW k \in {"stop", "start", "restart"}, Request(c, k) PROVE Typed'
  BY <1>7 DEF Request, Goto, app, procs, marks
<1>8. CASE Cancel
  BY <1>8 DEF Cancel, Goto, app, procs, marks
<1>9. ASSUME NEW a \in Actors, StopMark(a) PROVE Typed'
  <2>1. AfterStop(a) \in {"idle", "start", "over"}
    BY <1>9 DEF StopMark, AfterStop
  <2>2. CASE running
    BY <1>9, <2>2 DEF StopMark, Goto, procs
  <2>3. CASE ~running
    BY <1>9, <2>1, <2>3 DEF StopMark, Leave, Goto, procs
  <2> QED
    BY <2>2, <2>3
<1>10. ASSUME NEW a \in Actors, Term(a) PROVE Typed'
  BY <1>10 DEF Term, Leave, Goto, app, marks
<1>11. ASSUME NEW a \in Actors, Poll(a) PROVE Typed'
  BY <1>11 DEF Poll, Leave, Goto, AfterStop, app, marks
<1>12. ASSUME NEW a \in Actors, StartMark(a) PROVE Typed'
  BY <1>12 DEF StartMark, Goto, procs
<1>13. ASSUME NEW a \in Actors, StartSpawn(a) PROVE Typed'
  BY <1>13 DEF StartSpawn, Up, SpawnFails, Leave, Goto, app, Free, Pending
<1>14. CASE UNCHANGED vars
  BY <1>14 DEF vars, app, procs, reqs, marks
<1> QED
  BY <1>1, <1>2, <1>3, <1>4, <1>5, <1>6, <1>7, <1>8, <1>9, <1>10, <1>11, <1>12, <1>13, <1>14
  DEF Next, Monitor, Handle

\* Unless StartApp meets a pending restart, one process and one monitor at most.
LEMMA SoloStep == Typed /\ Typed' /\ Solo /\ [Next]_vars => Solo'
<1> SUFFICES ASSUME Typed /\ Typed' /\ Solo, [Next]_vars PROVE Solo'
  OBVIOUS
<1> USE FleetAssumption DEF Typed, Solo
<1>1. ASSUME NEW i \in Slots, Crash(i) PROVE Solo'
  BY <1>1 DEF Crash, app, reqs, marks
<1>2. ASSUME NEW i \in Slots, Drained(i) PROVE Solo'
  BY <1>2 DEF Drained, app, reqs, marks
<1>3. ASSUME NEW i \in Slots, Wait(i) PROVE Solo'
  BY <1>3 DEF Wait, app, marks
<1>4. ASSUME NEW i \in Slots, OnExit(i) PROVE Solo'
  BY <1>4 DEF OnExit, reqs, marks
<1>5. ASSUME NEW i \in Slots, Backoff(i) PROVE Solo'
  BY <1>5 DEF Backoff, app, reqs, marks
<1>6. ASSUME NEW i \in Slots, Respawn(i) PROVE Solo'
  BY <1>6 DEF Respawn, Up, SpawnFails, app, reqs
<1>7. ASSUME NEW c \in Callers, NEW k \in {"stop", "start", "restart"}, Request(c, k) PROVE Solo'
  BY <1>7 DEF Request, Goto, app, procs, marks
<1>8. CASE Cancel
  BY <1>8 DEF Cancel, Goto, app, procs, marks
<1>9. ASSUME NEW a \in Actors, StopMark(a) PROVE Solo'
  BY <1>9 DEF StopMark, Leave, Goto, AfterStop, procs
<1>10. ASSUME NEW a \in Actors, Term(a) PROVE Solo'
  BY <1>10 DEF Term, Leave, Goto, app, marks
<1>11. ASSUME NEW a \in Actors, Poll(a) PROVE Solo'
  BY <1>11 DEF Poll, Leave, Goto, AfterStop, app, marks
<1>12. ASSUME NEW a \in Actors, StartMark(a) PROVE Solo'
  BY <1>12 DEF StartMark, Goto, procs
<1>13. ASSUME NEW a \in Actors, StartSpawn(a) PROVE Solo'
  BY <1>13 DEF StartSpawn, Up, SpawnFails, Leave, Goto, app, Free, Pending
<1>14. CASE UNCHANGED vars
  BY <1>14 DEF vars, app, procs, reqs, marks
<1> QED
  BY <1>1, <1>2, <1>3, <1>4, <1>5, <1>6, <1>7, <1>8, <1>9, <1>10, <1>11, <1>12, <1>13, <1>14
  DEF Next, Monitor, Handle

\* A stop that found the app running is not undone by a monitor (onExit).
LEMMA StoppedStep == Typed /\ Typed' /\ Solo /\ Stopped /\ [Next]_vars => Stopped'
<1> SUFFICES ASSUME Typed /\ Typed' /\ Solo /\ Stopped, [Next]_vars PROVE Stopped'
  OBVIOUS
<1> USE FleetAssumption DEF Typed, Solo, Stopped
<1>1. ASSUME NEW i \in Slots, Crash(i) PROVE Stopped'
  BY <1>1 DEF Crash, app, reqs, marks
<1>2. ASSUME NEW i \in Slots, Drained(i) PROVE Stopped'
  BY <1>2 DEF Drained, app, reqs, marks
<1>3. ASSUME NEW i \in Slots, Wait(i) PROVE Stopped'
  BY <1>3 DEF Wait, app, marks
<1>4. ASSUME NEW i \in Slots, OnExit(i) PROVE Stopped'
  BY <1>4 DEF OnExit, reqs, marks
<1>5. ASSUME NEW i \in Slots, Backoff(i) PROVE Stopped'
  BY <1>5 DEF Backoff, app, reqs, marks
<1>6. ASSUME NEW i \in Slots, Respawn(i) PROVE Stopped'
  BY <1>6 DEF Respawn, Up, SpawnFails, app, reqs
<1>7. ASSUME NEW c \in Callers, NEW k \in {"stop", "start", "restart"}, Request(c, k) PROVE Stopped'
  BY <1>7 DEF Request, Goto, app, procs, marks
<1>8. CASE Cancel
  BY <1>8 DEF Cancel, Goto, app, procs, marks
<1>9. ASSUME NEW a \in Actors, StopMark(a) PROVE Stopped'
  BY <1>9 DEF StopMark, Leave, Goto, AfterStop, procs
<1>10. ASSUME NEW a \in Actors, Term(a) PROVE Stopped'
  BY <1>10 DEF Term, Leave, Goto, app, marks
<1>11. ASSUME NEW a \in Actors, Poll(a) PROVE Stopped'
  BY <1>11 DEF Poll, Leave, Goto, AfterStop, app, marks
<1>12. ASSUME NEW a \in Actors, StartMark(a) PROVE Stopped'
  BY <1>12 DEF StartMark, Goto, procs
<1>13. ASSUME NEW a \in Actors, StartSpawn(a) PROVE Stopped'
  BY <1>13 DEF StartSpawn, Up, SpawnFails, Leave, Goto, app, Free, Pending
<1>14. CASE UNCHANGED vars
  BY <1>14 DEF vars, app, procs, reqs, marks
<1> QED
  BY <1>1, <1>2, <1>3, <1>4, <1>5, <1>6, <1>7, <1>8, <1>9, <1>10, <1>11, <1>12, <1>13, <1>14
  DEF Next, Monitor, Handle

\* The shutdown's StopApp has the only process as its target.
LEMMA ClosingStep == Typed /\ Typed' /\ Solo /\ Closing /\ [Next]_vars => Closing'
<1> SUFFICES ASSUME Typed /\ Typed' /\ Solo /\ Closing, [Next]_vars PROVE Closing'
  OBVIOUS
<1> USE FleetAssumption DEF Typed, Solo, Closing, Actors
<1>1. ASSUME NEW i \in Slots, Crash(i) PROVE Closing'
  BY <1>1 DEF Crash, app, reqs, marks
<1>2. ASSUME NEW i \in Slots, Drained(i) PROVE Closing'
  BY <1>2 DEF Drained, app, reqs, marks
<1>3. ASSUME NEW i \in Slots, Wait(i) PROVE Closing'
  BY <1>3 DEF Wait, app, marks
<1>4. ASSUME NEW i \in Slots, OnExit(i) PROVE Closing'
  BY <1>4 DEF OnExit, reqs, marks
<1>5. ASSUME NEW i \in Slots, Backoff(i) PROVE Closing'
  BY <1>5 DEF Backoff, app, reqs, marks
<1>6. ASSUME NEW i \in Slots, Respawn(i) PROVE Closing'
  BY <1>6 DEF Respawn, Up, SpawnFails, app, reqs
<1>7. ASSUME NEW c \in Callers, NEW k \in {"stop", "start", "restart"}, Request(c, k) PROVE Closing'
  BY <1>7 DEF Request, Goto, app, procs, marks
<1>8. CASE Cancel
  BY <1>8 DEF Cancel, Goto, app, procs, marks
<1>9. ASSUME NEW a \in Actors, StopMark(a) PROVE Closing'
  BY <1>9 DEF StopMark, Leave, Goto, AfterStop, procs
<1>10. ASSUME NEW a \in Actors, Term(a) PROVE Closing'
  BY <1>10 DEF Term, Leave, Goto, app, marks
<1>11. ASSUME NEW a \in Actors, Poll(a) PROVE Closing'
  BY <1>11 DEF Poll, Leave, Goto, AfterStop, app, marks
<1>12. ASSUME NEW a \in Actors, StartMark(a) PROVE Closing'
  BY <1>12 DEF StartMark, Goto, procs
<1>13. ASSUME NEW a \in Actors, StartSpawn(a) PROVE Closing'
  BY <1>13 DEF StartSpawn, Up, SpawnFails, Leave, Goto, app, Free, Pending
<1>14. CASE UNCHANGED vars
  BY <1>14 DEF vars, app, procs, reqs, marks
<1> QED
  BY <1>1, <1>2, <1>3, <1>4, <1>5, <1>6, <1>7, <1>8, <1>9, <1>10, <1>11, <1>12, <1>13, <1>14
  DEF Next, Monitor, Handle

-----------------------------------------------------------------------------
IInv == Typed /\ Solo /\ Stopped /\ Closing

\* The conjunction of them all is an invariant.
THEOREM Invariance == Spec => []IInv
<1>1. Init => IInv
  <2> SUFFICES ASSUME Init PROVE IInv
    OBVIOUS
  <2> USE FleetAssumption
  <2>1. Typed
    <3> PICK i \in Slots :
            /\ running = TRUE /\ pid = i /\ stopping = FALSE
            /\ life = [j \in Slots |-> IF j = i THEN "up" ELSE "none"]
            /\ mon = [j \in Slots |-> IF j = i THEN "wait" ELSE "none"]
            /\ cancelled = FALSE
            /\ pc = [a \in Actors |-> "idle"]
            /\ kind = [a \in Actors |-> "none"]
            /\ target = [a \in Actors |-> 0]
            /\ wanted = "up" /\ raced = FALSE /\ late = FALSE
      BY DEF Init
    <3> QED
      BY DEF Typed
  <2>2. Solo
    BY DEF Init, Solo
  <2>3. Stopped
    BY DEF Init, Stopped
  <2>4. Closing
    BY DEF Init, Closing, Actors
  <2>5. QED
    BY <2>1, <2>2, <2>3, <2>4 DEF IInv
<1>2. IInv /\ [Next]_vars => IInv'
  BY TypedStep, SoloStep, StoppedStep, ClosingStep DEF IInv
<1>3. QED
  BY <1>1, <1>2, PTL DEF Spec

\* One engine process at most, and the supervisor knows it, whatever requests
\* and monitors do, unless StartApp succeeded while a restart was pending.
THEOREM ProcessIsKnown == Spec => []KnowsItsProcess
<1>1. IInv => KnowsItsProcess
  BY DEF IInv, Solo, KnowsItsProcess, Live
<1>2. QED
  BY Invariance, <1>1, PTL

\* Shutdown leaves no process behind but one started after the cancellation.
THEOREM NothingSurvives == Spec => []ShutdownLeavesNothing
<1>1. IInv => ShutdownLeavesNothing
  BY DEF IInv, Closing, ShutdownLeavesNothing, Live
<1>2. QED
  BY Invariance, <1>1, PTL

\* A stop that found the app running keeps it down until the next start.
THEOREM StopIsFinal == Spec => StoppedStaysDown
<1>1. IInv /\ [Next]_vars =>
        [(wanted = "down" /\ wanted' = "down" /\ ~raced')
            => \A i \in Slots : life'[i] = "up" => life[i] = "up"]_vars
  <2> SUFFICES ASSUME IInv, [Next]_vars, wanted = "down", wanted' = "down", ~raced',
                      NEW i \in Slots, life'[i] = "up"
               PROVE  life[i] = "up"
    OBVIOUS
  <2> USE DEF IInv, Typed
  <2>1. ASSUME NEW j \in Slots, Crash(j) \/ Drained(j) \/ Wait(j) \/ OnExit(j) \/ Backoff(j)
        PROVE  life[i] = "up"
    BY <2>1 DEF Crash, Drained, Wait, OnExit, Backoff
  <2>2. ASSUME NEW j \in Slots, Respawn(j) PROVE life[i] = "up"
    BY <2>2 DEF Respawn, Stopped
  <2>3. ASSUME NEW c \in Callers, NEW k \in {"stop", "start", "restart"}, Request(c, k)
        PROVE  life[i] = "up"
    BY <2>3 DEF Request, procs
  <2>4. CASE Cancel
    BY <2>4 DEF Cancel, procs
  <2>5. ASSUME NEW a \in Actors, StopMark(a) \/ StartMark(a) PROVE life[i] = "up"
    BY <2>5 DEF StopMark, StartMark, procs
  <2>6. ASSUME NEW a \in Actors, Term(a) PROVE life[i] = "up"
    BY <2>6 DEF Term
  <2>7. ASSUME NEW a \in Actors, Poll(a) PROVE life[i] = "up"
    BY <2>7 DEF Poll
  <2>8. ASSUME NEW a \in Actors, StartSpawn(a) PROVE life[i] = "up"
    BY <2>8 DEF StartSpawn, SpawnFails
  <2>9. CASE UNCHANGED vars
    BY <2>9 DEF vars, procs
  <2>10. QED
    BY <2>1, <2>2, <2>3, <2>4, <2>5, <2>6, <2>7, <2>8, <2>9 DEF Next, Monitor, Handle
<1>2. QED
  BY Invariance, <1>1, PTL DEF Spec, StoppedStaysDown
=============================================================================
