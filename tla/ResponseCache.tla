---------------------------- MODULE ResponseCache ----------------------------
(***************************************************************************)
(* The in-memory response cache: pkg/cache/response_cache.go (Middleware,  *)
(* refresh, get, set, Invalidate, purgeExpired), with the write handlers   *)
(* that invalidate it (pkg/codegen, route.go) and those that do not.       *)
(*                                                                         *)
(* A body is the version of the tenant's data it was read from: the only   *)
(* thing the properties ask of a response is how old it is.  None is an    *)
(* answer other than a 200.  Requests the middleware passes through        *)
(* without touching the cache (not a GET, streams, files, no-cache,        *)
(* If-None-Match, no tenant, a token of another tenant, a role behind the  *)
(* gate) change nothing here and are left out.                             *)
(***************************************************************************)
EXTENDS Integers, FiniteSets

CONSTANTS
    Tenants,
    Keys,        \* request URIs
    Roles,
    Requests,    \* GET requests in flight
    Writers,     \* write requests in flight
    WriteKinds,  \* the write paths of this instance
    None,
    Cap,         \* maxPerTenant
    MaxVersion,  \* bound of the model: writes per tenant
    MaxReloads   \* bound of the model: invalidations without a write

\* "update": PUT, PATCH, the batch transaction, a custom non-GET route, a
\* spoken write.  "create": POST and DELETE of the generated API, the GraphQL
\* mutations, and any write of another process.
Kinds == {"update", "create"}

\* The write paths that call Invalidate once their transaction committed.
Invalidating == {"update"}

Entries == Tenants \X Keys

ASSUME ResponseCacheAssumption ==
    /\ None \notin Int /\ None \notin Requests /\ None \notin Tenants
    /\ None \notin [tenant : Tenants, version : Nat]
    /\ WriteKinds \subseteq Kinds
    /\ IsFiniteSet(Keys)
    /\ Cap \in Nat /\ MaxVersion \in Nat /\ MaxReloads \in Nat

VARIABLES
    version,    \* PostgreSQL: committed writes of each tenant
    writing,    \* a write that committed and has yet to invalidate
    epoch,      \* ResponseCache.epochs
    cache,      \* ResponseCache.tenants: the body stored under (tenant, URI)
    expired,    \* entries past expiresAt
    gate,       \* ResponseCache.roleCacheable: roles that may share responses
    validated,  \* auth.claimsCache: tokens, as (tenant, role), known valid
    flight,     \* ResponseCache.sf: the request that runs the refresh
    pc,         \* where a GET is in Middleware / refresh
    req,        \* its tenant, URI and role
    asOf,       \* the epoch it captured
    body,       \* the answer it got
    acked,      \* history: latest write of a tenant that was answered
    floor,      \* history: acked when the GET arrived
    shared,     \* history: the GET was answered by another one's backend call
    reloads     \* history: invalidations without a write

reqVars == <<pc, req, asOf, body, floor, shared>>
storeVars == <<epoch, cache, expired>>
dataVars == <<version, writing, acked>>
authVars == <<gate, validated>>
vars == <<dataVars, storeVars, authVars, flight, reqVars, reloads>>

Idle == [tenant |-> None, key |-> None, role |-> None]

Init ==
    /\ version = [t \in Tenants |-> 0]
    /\ acked = [t \in Tenants |-> 0]
    /\ writing = [w \in Writers |-> None]
    /\ epoch = [t \in Tenants |-> 0]
    /\ cache = [e \in Entries |-> None]
    /\ expired = {}
    /\ gate \in SUBSET Roles
    /\ validated = {}
    /\ flight = [e \in Entries |-> None]
    /\ pc = [p \in Requests |-> "idle"]
    /\ req = [p \in Requests |-> Idle]
    /\ asOf = [p \in Requests |-> 0]
    /\ body = [p \in Requests |-> None]
    /\ floor = [p \in Requests |-> 0]
    /\ shared = [p \in Requests |-> FALSE]
    /\ reloads = 0

Entry(p) == <<req[p].tenant, req[p].key>>
Token(p) == <<req[p].tenant, req[p].role>>

-----------------------------------------------------------------------------
(* The store. *)

\* get: an entry is served until it expires.
Served(e) == cache[e] # None /\ e \notin expired

\* Mutant of Settable: the store forgets to compare the epoch.
SettableAnyEpoch(e, since) == Cardinality({k \in Keys : cache[<<e[1], k>>] # None}) < Cap

\* set, under the lock: dropped if the tenant was invalidated since asOf, and
\* when the bucket is full, expired entries included.
Settable(e, since) ==
    /\ epoch[e[1]] = since
    /\ Cardinality({k \in Keys : cache[<<e[1], k>>] # None}) < Cap

\* Mutant of Set: an entry that exists is only given a new expiry.
SetKeepsBody(e, b, since) ==
    IF Settable(e, since) \/ cache[e] # None
    THEN /\ cache' = [cache EXCEPT ![e] = IF @ = None THEN b ELSE @]
         /\ expired' = expired \ {e}
    ELSE UNCHANGED <<cache, expired>>

Set(e, b, since) ==
    IF Settable(e, since)
    THEN /\ cache' = [cache EXCEPT ![e] = b]
         /\ expired' = expired \ {e}
    ELSE UNCHANGED <<cache, expired>>

\* Mutant of Drop: the epoch stays.
DropWithoutBump(t) ==
    /\ cache' = [e \in Entries |-> IF e[1] = t THEN None ELSE cache[e]]
    /\ expired' = {e \in expired : e[1] # t}
    /\ UNCHANGED epoch

\* Invalidate: drop the tenant's bucket and bump its epoch.
Drop(t) ==
    /\ cache' = [e \in Entries |-> IF e[1] = t THEN None ELSE cache[e]]
    /\ expired' = {e \in expired : e[1] # t}
    /\ epoch' = [epoch EXCEPT ![t] = @ + 1]

-----------------------------------------------------------------------------
(* Writes. *)

Later(a, b) == IF a < b THEN b ELSE a

\* A write handler's transaction commits.  A path that does not invalidate
\* answers its client at once.
Write(w, t, kind) ==
    /\ writing[w] = None
    /\ version[t] < MaxVersion
    /\ version' = [version EXCEPT ![t] = @ + 1]
    /\ IF kind \in Invalidating
       THEN /\ writing' = [writing EXCEPT ![w] = [tenant |-> t, version |-> version[t] + 1]]
            /\ UNCHANGED acked
       ELSE /\ acked' = [acked EXCEPT ![t] = version[t] + 1]
            /\ UNCHANGED writing
    /\ UNCHANGED <<storeVars, authVars, flight, reqVars, reloads>>

\* Invalidate after the commit; then the client is answered.
Invalidate(w) ==
    /\ writing[w] # None
    /\ Drop(writing[w].tenant)
    /\ acked' = [acked EXCEPT ![writing[w].tenant] = Later(@, writing[w].version)]
    /\ writing' = [writing EXCEPT ![w] = None]
    /\ UNCHANGED <<version, authVars, flight, reqVars, reloads>>

\* The schema_updated notification and the reload endpoint.
Reload(t) ==
    /\ reloads < MaxReloads
    /\ reloads' = reloads + 1
    /\ Drop(t)
    /\ UNCHANGED <<dataVars, authVars, flight, reqVars>>

-----------------------------------------------------------------------------
(* Time, and what surrounds the cache. *)

\* An entry reaches its TTL.
Expire(e) ==
    /\ Served(e)
    /\ expired' = expired \cup {e}
    /\ UNCHANGED <<dataVars, epoch, cache, authVars, flight, reqVars, reloads>>

\* purgeExpired, every 30 seconds.
Purge ==
    /\ expired # {}
    /\ cache' = [e \in Entries |-> IF e \in expired THEN None ELSE cache[e]]
    /\ expired' = {}
    /\ UNCHANGED <<dataVars, epoch, authVars, flight, reqVars, reloads>>

\* A hot swap re-points the gate at the new policy.
SetRoleCacheGate(g) ==
    /\ gate' = g
    /\ UNCHANGED <<dataVars, storeVars, validated, flight, reqVars, reloads>>

\* A validated token leaves the claims cache after its 30 seconds.
Forget(token) ==
    /\ token \in validated
    /\ validated' = validated \ {token}
    /\ UNCHANGED <<dataVars, storeVars, gate, flight, reqVars, reloads>>

-----------------------------------------------------------------------------
(* A GET. *)

Begin(p, t, k, r) ==
    /\ pc[p] = "idle"
    /\ req' = [req EXCEPT ![p] = [tenant |-> t, key |-> k, role |-> r]]
    /\ floor' = [floor EXCEPT ![p] = acked[t]]
    /\ UNCHANGED <<dataVars, storeVars, authVars, flight, shared, reloads>>

\* A validated token of a shareable role, and a fresh entry: a HIT.
Hit(p, t, k, r) ==
    /\ Begin(p, t, k, r)
    /\ <<t, r>> \in validated /\ r \in gate
    /\ Served(<<t, k>>)
    /\ body' = [body EXCEPT ![p] = cache[<<t, k>>]]
    /\ pc' = [pc EXCEPT ![p] = "done"]
    /\ UNCHANGED asOf

\* The same without an entry: on to refresh.
Miss(p, t, k, r) ==
    /\ Begin(p, t, k, r)
    /\ <<t, r>> \in validated /\ r \in gate
    /\ ~Served(<<t, k>>)
    /\ pc' = [pc EXCEPT ![p] = "miss"]
    /\ UNCHANGED <<asOf, body>>

\* A token nobody validated lately flows through on its own, its epoch taken
\* before the backend runs.
Alone(p, t, k, r) ==
    /\ Begin(p, t, k, r)
    /\ <<t, r>> \notin validated
    /\ asOf' = [asOf EXCEPT ![p] = epoch[t]]
    /\ pc' = [pc EXCEPT ![p] = "alone"]
    /\ UNCHANGED body

\* refresh, sf.Do: the first caller runs the backend, the others wait for it.
Lead(p) ==
    /\ pc[p] = "miss"
    /\ flight[Entry(p)] = None
    /\ flight' = [flight EXCEPT ![Entry(p)] = p]
    /\ pc' = [pc EXCEPT ![p] = "lead"]
    /\ UNCHANGED <<dataVars, storeVars, authVars, req, asOf, body, floor, shared, reloads>>

Join(p) ==
    /\ pc[p] = "miss"
    /\ flight[Entry(p)] # None
    /\ pc' = [pc EXCEPT ![p] = "wait"]
    /\ UNCHANGED <<dataVars, storeVars, authVars, flight, req, asOf, body, floor, shared, reloads>>

\* refresh: asOf := epoch.
Capture(p) ==
    /\ pc[p] = "lead"
    /\ asOf' = [asOf EXCEPT ![p] = epoch[req[p].tenant]]
    /\ pc' = [pc EXCEPT ![p] = "run"]
    /\ UNCHANGED <<dataVars, storeVars, authVars, flight, req, body, floor, shared, reloads>>

\* next.ServeHTTP: the JWT middleware remembers the token, the handler reads
\* the database; or the answer is an error (a client that left included), from
\* before or after the token was validated.
Respond(p) ==
    /\ pc[p] \in {"run", "alone"}
    /\ \/ /\ body' = [body EXCEPT ![p] = version[req[p].tenant]]
          /\ validated' = validated \cup {Token(p)}
       \/ /\ body' = [body EXCEPT ![p] = None]
          /\ validated' \in {validated, validated \cup {Token(p)}}
    /\ pc' = [pc EXCEPT ![p] = IF @ = "run" THEN "built" ELSE "answered"]
    /\ UNCHANGED <<dataVars, storeVars, gate, flight, req, asOf, floor, shared, reloads>>

\* The 200 is stored; an individual request's only if its token is known by
\* now and its role may share.
Store(p) ==
    /\ pc[p] \in {"built", "answered"}
    /\ IF /\ body[p] # None
          /\ pc[p] = "built" \/ (Token(p) \in validated /\ req[p].role \in gate)
       THEN Set(Entry(p), body[p], asOf[p])
       ELSE UNCHANGED <<cache, expired>>
    /\ pc' = [pc EXCEPT ![p] = IF @ = "built" THEN "stored" ELSE "done"]
    /\ UNCHANGED <<dataVars, epoch, authVars, flight, req, asOf, body, floor, shared, reloads>>

\* The requests waiting for p's backend call.
Waiting(p) == {q \in Requests : pc[q] = "wait" /\ Entry(q) = Entry(p)}

\* Mutant of Land: an error never ends the flight.
LandOnSuccess(p) ==
    /\ pc[p] = "stored"
    /\ body[p] # None
    /\ flight' = [flight EXCEPT ![Entry(p)] = None]
    /\ pc' = [q \in Requests |-> IF q = p \/ q \in Waiting(p) THEN "done" ELSE pc[q]]
    /\ body' = [q \in Requests |-> IF q \in Waiting(p) THEN body[p] ELSE body[q]]
    /\ shared' = [q \in Requests |-> shared[q] \/ q \in Waiting(p)]
    /\ UNCHANGED <<dataVars, storeVars, authVars, req, asOf, floor, reloads>>

\* Mutant of Land: an error is answered to the leader and to nobody else.
LandLeavesWaiters(p) ==
    LET woken == IF body[p] = None THEN {} ELSE Waiting(p)
    IN  /\ pc[p] = "stored"
        /\ flight' = [flight EXCEPT ![Entry(p)] = None]
        /\ pc' = [q \in Requests |-> IF q = p \/ q \in woken THEN "done" ELSE pc[q]]
        /\ body' = [q \in Requests |-> IF q \in woken THEN body[p] ELSE body[q]]
        /\ shared' = [q \in Requests |-> shared[q] \/ q \in woken]
        /\ UNCHANGED <<dataVars, storeVars, authVars, req, asOf, floor, reloads>>

\* sf.Do returns: every waiter gets the leader's item.
Land(p) ==
    /\ pc[p] = "stored"
    /\ flight' = [flight EXCEPT ![Entry(p)] = None]
    /\ pc' = [q \in Requests |-> IF q = p \/ q \in Waiting(p) THEN "done" ELSE pc[q]]
    /\ body' = [q \in Requests |-> IF q \in Waiting(p) THEN body[p] ELSE body[q]]
    /\ shared' = [q \in Requests |-> shared[q] \/ q \in Waiting(p)]
    /\ UNCHANGED <<dataVars, storeVars, authVars, req, asOf, floor, reloads>>

\* The request is over; its slot serves another one.
Finish(p) ==
    /\ pc[p] = "done"
    /\ pc' = [pc EXCEPT ![p] = "idle"]
    /\ req' = [req EXCEPT ![p] = Idle]
    /\ asOf' = [asOf EXCEPT ![p] = 0]
    /\ body' = [body EXCEPT ![p] = None]
    /\ floor' = [floor EXCEPT ![p] = 0]
    /\ shared' = [shared EXCEPT ![p] = FALSE]
    /\ UNCHANGED <<dataVars, storeVars, authVars, flight, reloads>>

-----------------------------------------------------------------------------
Step(p) == Lead(p) \/ Join(p) \/ Capture(p) \/ Respond(p) \/ Store(p) \/ Land(p)

Arrive(p, t, k, r) == Hit(p, t, k, r) \/ Miss(p, t, k, r) \/ Alone(p, t, k, r)

Next ==
    \/ \E w \in Writers : \/ \E t \in Tenants, kind \in WriteKinds : Write(w, t, kind)
                          \/ Invalidate(w)
    \/ \E t \in Tenants : Reload(t)
    \/ \E e \in Entries : Expire(e)
    \/ Purge
    \/ \E g \in SUBSET Roles : SetRoleCacheGate(g)
    \/ \E token \in Tenants \X Roles : Forget(token)
    \/ \E p \in Requests : \/ \E t \in Tenants, k \in Keys, r \in Roles : Arrive(p, t, k, r)
                           \/ Step(p)
                           \/ Finish(p)

Spec == Init /\ [][Next]_vars

\* Handlers that were entered run on, and time passes.
Fairness ==
    /\ \A p \in Requests : WF_vars(Step(p))
    /\ \A w \in Writers : WF_vars(Invalidate(w))
    /\ \A e \in Entries : WF_vars(Expire(e))

FairSpec == Spec /\ Fairness

-----------------------------------------------------------------------------
(* Properties. *)

\* The values the store, the claims cache and the requests may hold.
TypeOK ==
    /\ version \in [Tenants -> Nat] /\ acked \in [Tenants -> Nat]
    /\ writing \in [Writers -> [tenant : Tenants, version : Nat] \cup {None}]
    /\ epoch \in [Tenants -> Nat]
    /\ cache \in [Entries -> Nat \cup {None}]
    /\ expired \subseteq Entries
    /\ gate \subseteq Roles /\ validated \subseteq Tenants \X Roles
    /\ flight \in [Entries -> Requests \cup {None}]
    /\ pc \in [Requests -> {"idle", "miss", "wait", "lead", "run", "built",
                            "stored", "alone", "answered", "done"}]
    /\ req \in [Requests -> [tenant : Tenants, key : Keys, role : Roles] \cup {Idle}]
    /\ asOf \in [Requests -> Nat]
    /\ body \in [Requests -> Nat \cup {None}]
    /\ floor \in [Requests -> Nat]
    /\ shared \in [Requests -> BOOLEAN]
    /\ reloads \in Nat
    /\ \A p \in Requests : pc[p] # "idle" => req[p] # Idle
    /\ \A e \in expired : cache[e] # None

\* "Never stored": unless a write is between its commit and its Invalidate, no
\* entry of the tenant, fresh or expired, is older than the tenant's data, in
\* whatever order refreshes, stores and invalidations interleave.
StoredIsCurrent ==
    \A t \in Tenants, k \in Keys :
        /\ cache[<<t, k>>] # None
        /\ \A w \in Writers : writing[w] # None => writing[w].tenant # t
        => cache[<<t, k>>] = version[t]

\* A GET that is answered from the cache or by its own backend call sees every
\* write that was answered before it arrived.
FreshUnlessShared ==
    \A p \in Requests :
        pc[p] = "done" /\ body[p] # None /\ ~shared[p] => body[p] >= floor[p]

\* "so the next read is fresh": the same for every GET.  It fails: a GET that
\* arrives after the write joins a backend call that read before it.
NextReadIsFresh ==
    \A p \in Requests : pc[p] = "done" /\ body[p] # None => body[p] >= floor[p]

\* A request that waits waits for a refresh that some other request is running:
\* nobody is left behind by a flight that already landed.
WaitersHaveLeader ==
    \A p \in Requests :
        pc[p] = "wait" =>
            \E q \in Requests \ {p} : /\ flight[Entry(p)] = q
                                      /\ pc[q] \in {"lead", "run", "built", "stored"}
                                      /\ Entry(q) = Entry(p)

\* A refresh that was not invalidated renews the entry it refreshes: only new
\* entries are dropped when the bucket is full.  It fails: so are old ones.
RefreshRenews ==
    [][\A p \in Requests :
        pc[p] = "built" /\ pc'[p] = "stored" /\ body[p] # None
        /\ asOf[p] = epoch[req[p].tenant] /\ cache[Entry(p)] # None
        => Entry(p) \notin expired']_vars

\* Every GET the middleware takes in is answered, those that share a backend
\* call included.
EveryGetAnswered ==
    \A p \in Requests : pc[p] # "idle" ~> pc[p] = "done"

\* "Self-healing at TTL": with writes that never invalidate, once the writes
\* stop the cache comes to serve only current bodies, for good.
SelfHeals ==
    <>[](\A t \in Tenants, k \in Keys : Served(<<t, k>>) => cache[<<t, k>>] = version[t])
=============================================================================
