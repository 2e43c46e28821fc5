--------------------------- MODULE FleetSupervisor ---------------------------
(***************************************************************************)
(* The fleet's process supervisor (pkg/fleet/supervisor.go): one app's     *)
(* engine process, the goroutine that waits for its exit and starts it     *)
(* again after a back-off, the operator's stop, start and restart requests *)
(* (pkg/fleet/proxy.go), which run concurrently, and the fleet's shutdown. *)
(* The apps share nothing, so one stands for all.                          *)
(*                                                                         *)
(* A slot is a process with the goroutine that monitors it.  A goroutine   *)
(* that starts its app again keeps its slot; StartApp takes a free one.    *)
(***************************************************************************)
EXTENDS Integers, FiniteSets, FiniteSetsExt

CONSTANTS
    Slots,        \* positive numbers: the pids
    Callers,      \* requests of the operator
    Main,         \* the fleet's main goroutine, which shuts the apps down
    BaseBackoff, CapBackoff,
    Width,        \* bits of a time.Duration (64)
    MaxCrashes, MaxCommands, MaxFaults   \* bounds of the model

ASSUME FleetAssumption ==
    /\ Slots \subseteq Nat \ {0} /\ Slots # {}
    /\ Main \notin Callers
    /\ BaseBackoff \in Nat \ {0} /\ CapBackoff \in Nat /\ BaseBackoff <= CapBackoff
    /\ Width \in Nat \ {0} /\ CapBackoff < 2^(Width - 1)
    /\ MaxCrashes \in Nat /\ MaxCommands \in Nat /\ MaxFaults \in Nat

VARIABLES
    running, pid, stopping, consecutive,   \* appProc
    life,       \* the engine processes
    mon,        \* the goroutines behind cmd.Wait and onExit
    delay,      \* onExit: delay
    cancelled,  \* s.ctx is done
    pc, kind,   \* the requests and Main
    target,     \* StopApp: pid; 0 when that process has been reaped
    wanted,     \* history: what the last request asked for
    raced,      \* history: StartApp succeeded while a restart was pending
    late,       \* history: a process was started after the cancellation
    crashes, commands, faults

app   == <<running, pid, stopping, consecutive>>
procs == <<life, mon, delay>>
reqs  == <<pc, kind, target>>
marks == <<wanted, raced, late>>
bounds == <<crashes, commands, faults>>
vars  == <<app, procs, cancelled, reqs, marks, bounds>>

Actors == Callers \cup {Main}
Live == {i \in Slots : life[i] \in {"up", "draining"}}
Pending == {i \in Slots : mon[i] \in {"exited", "backoff", "respawn"}}
Free == {i \in Slots : mon[i] = "none"}

\* After Start: the app is up.
Init ==
    \E i \in Slots :
        /\ running = TRUE /\ pid = i /\ stopping = FALSE /\ consecutive = 0
        /\ life = [j \in Slots |-> IF j = i THEN "up" ELSE "none"]
        /\ mon = [j \in Slots |-> IF j = i THEN "wait" ELSE "none"]
        /\ delay = [j \in Slots |-> 0]
        /\ cancelled = FALSE
        /\ pc = [a \in Actors |-> "idle"]
        /\ kind = [a \in Actors |-> "none"]
        /\ target = [a \in Actors |-> 0]
        /\ wanted = "up" /\ raced = FALSE /\ late = FALSE
        /\ crashes = 0 /\ commands = 0 /\ faults = 0
        /\ \A j \in Slots : i <= j

-----------------------------------------------------------------------------
(* spawn, under p.mu.  It is refused while the app is running. *)

Up(i) ==
    /\ running' = TRUE /\ pid' = i /\ stopping' = FALSE
    /\ life' = [life EXCEPT ![i] = "up"]
    /\ mon' = [mon EXCEPT ![i] = "wait"]
    /\ late' = (late \/ cancelled)
    /\ UNCHANGED consecutive

\* The engine does not start, or its log cannot be opened.
SpawnFails ==
    /\ faults < MaxFaults
    /\ faults' = faults + 1
    /\ UNCHANGED <<app, life, late>>

-----------------------------------------------------------------------------
(* The process and its monitor. *)

\* The engine exits by itself, crashed or not.
Crash(i) ==
    /\ life[i] = "up"
    /\ crashes < MaxCrashes
    /\ crashes' = crashes + 1
    /\ life' = [life EXCEPT ![i] = "dead"]
    /\ UNCHANGED <<app, mon, delay, cancelled, reqs, marks, commands, faults>>

\* It ends its drain.
Drained(i) ==
    /\ life[i] = "draining"
    /\ life' = [life EXCEPT ![i] = "dead"]
    /\ UNCHANGED <<app, mon, delay, cancelled, reqs, marks, bounds>>

\* cmd.Wait returns: the process is reaped and its pid names nobody.
Wait(i) ==
    /\ mon[i] = "wait" /\ life[i] = "dead"
    /\ mon' = [mon EXCEPT ![i] = "exited"]
    /\ target' = [a \in Actors |-> IF target[a] = i THEN 0 ELSE target[a]]
    /\ UNCHANGED <<app, life, delay, cancelled, pc, kind, marks, bounds>>

\* baseBackoff << (consecutive - 1), in an integer of Width bits, and the cap.
Delay(c) ==
    LET v == (BaseBackoff * 2^(c - 1)) % 2^Width
        d == IF v >= 2^(Width - 1) THEN v - 2^Width ELSE v
    IN  Min({d, CapBackoff})

\* Mutant: a deliberate stop is not told from a crash.
OnExitAlways(i) ==
    /\ mon[i] = "exited"
    /\ running' = FALSE /\ pid' = 0
    /\ consecutive' = consecutive + 1
    /\ delay' = [delay EXCEPT ![i] = Delay(consecutive')]
    /\ mon' = [mon EXCEPT ![i] = IF cancelled THEN "none" ELSE "backoff"]
    /\ UNCHANGED <<stopping, life, cancelled, reqs, marks, bounds>>

\* Mutant: after a failed start the goroutine gives up.
RespawnOnce(i) ==
    /\ mon[i] = "respawn"
    /\ \/ ~running /\ Up(i) /\ UNCHANGED faults
       \/ /\ ~running
          /\ mon' = [mon EXCEPT ![i] = "none"]
          /\ SpawnFails
       \/ /\ running
          /\ mon' = [mon EXCEPT ![i] = "none"]
          /\ UNCHANGED <<app, life, late, faults>>
    /\ UNCHANGED <<delay, cancelled, reqs, wanted, raced, crashes, commands>>

\* onExit.  It runs again, for the same process, after a start that failed.  An
\* uptime of more than a minute resets the count.
OnExit(i) ==
    /\ mon[i] = "exited"
    /\ running' = FALSE /\ pid' = 0
    /\ \E before \in {0, consecutive} : consecutive' = before + 1
    /\ IF stopping \/ cancelled
       THEN /\ mon' = [mon EXCEPT ![i] = "none"]
            /\ UNCHANGED delay
       ELSE /\ mon' = [mon EXCEPT ![i] = "backoff"]
            /\ delay' = [delay EXCEPT ![i] = Delay(consecutive')]
    /\ UNCHANGED <<stopping, life, cancelled, reqs, marks, bounds>>

\* The select: the timer, or the cancellation.
Backoff(i) ==
    /\ mon[i] = "backoff"
    /\ \/ mon' = [mon EXCEPT ![i] = "respawn"]
       \/ cancelled /\ mon' = [mon EXCEPT ![i] = "none"]
    /\ delay' = [delay EXCEPT ![i] = 0]
    /\ UNCHANGED <<app, life, cancelled, reqs, marks, bounds>>

\* restarts++ and spawn; if that fails, onExit again.
Respawn(i) ==
    /\ mon[i] = "respawn"
    /\ \/ ~running /\ Up(i) /\ UNCHANGED faults
       \/ /\ ~running
          /\ mon' = [mon EXCEPT ![i] = "exited"]
          /\ SpawnFails
       \/ /\ running
          /\ mon' = [mon EXCEPT ![i] = "exited"]
          /\ UNCHANGED <<app, life, late, faults>>
    /\ UNCHANGED <<delay, cancelled, reqs, wanted, raced, crashes, commands>>

-----------------------------------------------------------------------------
(* The requests. *)

Goto(a, l) == pc' = [pc EXCEPT ![a] = l]

\* The next step, without the local variables of a request that is over.
Leave(a, l) ==
    /\ Goto(a, l)
    /\ target' = [target EXCEPT ![a] = 0]
    /\ kind' = [kind EXCEPT ![a] = IF l \in {"idle", "over"} THEN "none" ELSE @]

Request(c, k) ==
    /\ pc[c] = "idle"
    /\ commands < MaxCommands
    /\ commands' = commands + 1
    /\ kind' = [kind EXCEPT ![c] = k]
    /\ Goto(c, IF k = "start" THEN "start" ELSE "stop")
    /\ UNCHANGED <<app, procs, cancelled, target, marks, crashes, faults>>

\* SIGTERM to the fleet cancels the context; the servers are drained, with a
\* deadline, and Shutdown stops the app.
Cancel ==
    /\ ~cancelled
    /\ cancelled' = TRUE
    /\ kind' = [kind EXCEPT ![Main] = "shutdown"]
    /\ Goto(Main, "stop")
    /\ UNCHANGED <<app, procs, target, marks, bounds>>

AfterStop(a) ==
    CASE kind[a] = "stop"     -> "idle"
      [] kind[a] = "restart"  -> "start"
      [] kind[a] = "shutdown" -> "over"

\* StopApp, under p.mu.  An app that is not running is left as it is, a pending
\* restart too.
StopMark(a) ==
    /\ pc[a] = "stop"
    /\ \/ /\ ~running
          /\ Leave(a, AfterStop(a))
          /\ UNCHANGED <<stopping, wanted>>
       \/ /\ running
          /\ stopping' = TRUE
          /\ target' = [target EXCEPT ![a] = IF mon[pid] = "wait" THEN pid ELSE 0]
          /\ wanted' = "down"
          /\ Goto(a, "term") /\ UNCHANGED kind
    /\ UNCHANGED <<running, pid, consecutive, procs, cancelled, raced, late, bounds>>

\* SIGTERM.  It fails when the process has been reaped, and so does the request,
\* a restart too.
Term(a) ==
    /\ pc[a] = "term"
    /\ IF target[a] = 0
       THEN Leave(a, IF kind[a] = "shutdown" THEN "over" ELSE "idle") /\ UNCHANGED life
       ELSE /\ Goto(a, "poll") /\ UNCHANGED <<kind, target>>
            /\ life' = [life EXCEPT ![target[a]] = IF @ = "up" THEN "draining" ELSE @]
    /\ UNCHANGED <<app, mon, delay, cancelled, marks, bounds>>

\* Mutant: no SIGKILL at the deadline.
PollForEver(a) ==
    /\ pc[a] = "poll"
    /\ Leave(a, AfterStop(a))
    /\ UNCHANGED <<app, procs, cancelled, marks, bounds>>

\* Until the app is not running, or the deadline: then SIGKILL, and no wait.
Poll(a) ==
    /\ pc[a] = "poll"
    /\ \/ ~running /\ UNCHANGED life
       \/ /\ running
          /\ life' = [i \in Slots |-> IF i = target[a] THEN "dead" ELSE life[i]]
    /\ Leave(a, AfterStop(a))
    /\ UNCHANGED <<app, mon, delay, cancelled, marks, bounds>>

StartMark(c) ==
    /\ pc[c] = "start"
    /\ stopping' = FALSE /\ consecutive' = 0
    /\ wanted' = "up"
    /\ Goto(c, "spawn")
    /\ UNCHANGED <<running, pid, procs, cancelled, kind, target, raced, late, bounds>>

\* Mutant: a running app is started again.
StartSpawnAnyway(c) ==
    /\ pc[c] = "spawn"
    /\ \E i \in Free : Up(i)
    /\ Leave(c, "idle")
    /\ UNCHANGED <<delay, cancelled, wanted, raced, bounds>>

StartSpawn(c) ==
    /\ pc[c] = "spawn"
    /\ \/ /\ ~running
          /\ \E i \in Free : (\A j \in Free : i <= j) /\ Up(i)
          /\ raced' = (raced \/ Pending # {})
          /\ wanted' = "up"
          /\ UNCHANGED faults
       \/ /\ ~running
          /\ SpawnFails
          /\ wanted' = "failed"
          /\ UNCHANGED <<mon, raced>>
       \/ /\ running
          /\ UNCHANGED <<app, life, mon, wanted, raced, late, faults>>
    /\ Leave(c, "idle")
    /\ UNCHANGED <<delay, cancelled, crashes, commands>>

-----------------------------------------------------------------------------
Monitor(i) == Wait(i) \/ OnExit(i) \/ Backoff(i) \/ Respawn(i)
Handle(a) == StopMark(a) \/ Term(a) \/ Poll(a) \/ StartMark(a) \/ StartSpawn(a)

Next ==
    \/ \E i \in Slots : Crash(i) \/ Drained(i) \/ Monitor(i)
    \/ \E c \in Callers, k \in {"stop", "start", "restart"} : Request(c, k)
    \/ Cancel
    \/ \E a \in Actors : Handle(a)

Spec == Init /\ [][Next]_vars

\* Goroutines run and timers fire.  Nobody has to crash, to drain or to ask.
Fairness ==
    /\ \A i \in Slots : WF_vars(Monitor(i))
    /\ \A a \in Actors : WF_vars(Handle(a))

FairSpec == Spec /\ Fairness

-----------------------------------------------------------------------------
(***************************************************************************)
(* Properties.                                                             *)
(***************************************************************************)

\* Every variable has its type.
TypeOK ==
    /\ running \in BOOLEAN /\ pid \in Slots \cup {0}
    /\ stopping \in BOOLEAN /\ consecutive \in Nat
    /\ life \in [Slots -> {"none", "up", "draining", "dead"}]
    /\ mon \in [Slots -> {"none", "wait", "exited", "backoff", "respawn"}]
    /\ delay \in [Slots -> Int]
    /\ cancelled \in BOOLEAN
    /\ pc \in [Actors -> {"idle", "stop", "term", "poll", "start", "spawn", "over"}]
    /\ kind \in [Actors -> {"none", "stop", "start", "restart", "shutdown"}]
    /\ target \in [Actors -> Slots \cup {0}]
    /\ wanted \in {"up", "down", "failed"} /\ raced \in BOOLEAN /\ late \in BOOLEAN
    /\ crashes \in Nat /\ commands \in Nat /\ faults \in Nat

\* "one engine process per app": whatever operators and monitors do at the same
\* time, the supervisor knows every process it has, so there is one at most;
\* unless StartApp succeeded while a restart was pending.
KnowsItsProcess ==
    ~raced => \A i \in Live : running /\ pid = i

\* "A deliberate stop (StopApp/Shutdown) does not restart": once StopApp has
\* found the app running, nothing starts it before the next StartApp.
StoppedStaysDown ==
    [][(wanted = "down" /\ wanted' = "down" /\ ~raced')
            => \A i \in Slots : life'[i] = "up" => life[i] = "up"]_vars

\* Shutdown leaves no process behind, but for one started after the context was
\* cancelled.
ShutdownLeavesNothing ==
    (pc[Main] = "over" /\ ~late /\ ~raced) => Live = {}

\* "keeps it alive": an app that is down and was not stopped comes up again,
\* through starts that fail, unless it is stopped or the fleet shuts down.
CrashedComesBack ==
    (Live = {} /\ wanted = "up") ~> (Live # {} \/ wanted # "up" \/ cancelled)

-----------------------------------------------------------------------------
\* What the comments say without the conditions; not properties of this code.

\* "StopApp gracefully stops one app ... and marks it so onExit does not restart
\* it": when the request has succeeded, nobody is about to start the app.  One
\* whose restart is pending is not marked.
StopIsHonoured ==
    [][\A c \in Callers : (pc[c] = "stop" /\ pc'[c] = "idle" /\ ~cancelled) => Pending = {}]_vars

\* "keep retrying with growing backoff": whoever waits, waits for the base delay
\* at least.  The shift overflows, after 34 crashes with 64 bits and a second.
BackoffIsPositive == \A i \in Slots : mon[i] = "backoff" => delay[i] >= BaseBackoff
==============================================================================
