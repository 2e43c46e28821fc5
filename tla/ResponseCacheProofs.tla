------------------------- MODULE ResponseCacheProofs -------------------------
(***************************************************************************)
(* Proofs about ResponseCache: type correctness and the soundness of the   *)
(* shared refresh for every instance, and the freshness of the store and   *)
(* of unshared answers when every write path invalidates.                  *)
(***************************************************************************)
EXTENDS ResponseCache, TLAPS

Named == [tenant : Tenants, key : Keys, role : Roles]

\* A GET that is under way has a tenant, a URI and a role.
LEMMA ReqTyped ==
    ASSUME TypeOK, NEW p \in Requests, pc[p] # "idle"
    PROVE  /\ req[p] \in Named
           /\ req[p].tenant \in Tenants /\ req[p].key \in Keys /\ req[p].role \in Roles
           /\ Entry(p) \in Entries
           /\ Token(p) \in Tenants \X Roles
  <1>1. req[p] \in Named
    BY DEF TypeOK, Named
  <1>2. QED
    BY <1>1 DEF Named, Entry, Token, Entries

\* Init satisfies the type invariant.
LEMMA InitType == Init => TypeOK
  BY ResponseCacheAssumption DEF Init, TypeOK, Idle, Entries

-----------------------------------------------------------------------------
(* TypeOK is inductive. *)

LEMMA DropType ==
    ASSUME TypeOK, NEW t \in Tenants, Drop(t)
    PROVE  /\ epoch' \in [Tenants -> Nat]
           /\ cache' \in [Entries -> Nat \cup {None}]
           /\ expired' \subseteq Entries
           /\ \A e \in expired' : cache'[e] # None
  BY DEF TypeOK, Drop

\* Set stores a body or refuses it, and the cache stays typed.
LEMMA SetType ==
    ASSUME TypeOK, NEW e \in Entries, NEW b \in Nat, NEW since, Set(e, b, since)
    PROVE  /\ cache' \in [Entries -> Nat \cup {None}]
           /\ expired' \subseteq Entries
           /\ \A f \in expired' : cache'[f] # None
  BY ResponseCacheAssumption DEF TypeOK, Set

\* Writes, their invalidations and reloads keep the types.
LEMMA WriteType ==
    ASSUME TypeOK,
           \/ \E w \in Writers, t \in Tenants, kind \in WriteKinds : Write(w, t, kind)
           \/ \E w \in Writers : Invalidate(w)
           \/ \E t \in Tenants : Reload(t)
    PROVE  TypeOK'
  <1>1. ASSUME NEW w \in Writers, NEW t \in Tenants, NEW kind \in WriteKinds, Write(w, t, kind)
        PROVE  TypeOK'
    <2>1. version' \in [Tenants -> Nat]
      BY <1>1 DEF Write, TypeOK
    <2>2. acked' \in [Tenants -> Nat] /\ writing' \in [Writers -> [tenant : Tenants, version : Nat] \cup {None}]
      BY <1>1 DEF Write, TypeOK
    <2>3. QED
      BY <1>1, <2>1, <2>2 DEF Write, TypeOK, storeVars, authVars, reqVars
  <1>2. ASSUME NEW w \in Writers, Invalidate(w)
        PROVE  TypeOK'
    <2>1. writing[w].tenant \in Tenants /\ writing[w].version \in Nat
      BY <1>2 DEF Invalidate, TypeOK
    <2>2. Drop(writing[w].tenant)
      BY <1>2 DEF Invalidate
    <2>3. acked' \in [Tenants -> Nat] /\ writing' \in [Writers -> [tenant : Tenants, version : Nat] \cup {None}]
      BY <1>2, <2>1 DEF Invalidate, TypeOK, Later
    <2>4. QED
      BY <1>2, <2>1, <2>2, <2>3, DropType DEF Invalidate, TypeOK, authVars, reqVars
  <1>3. ASSUME NEW t \in Tenants, Reload(t)
        PROVE  TypeOK'
    BY <1>3, DropType DEF Reload, TypeOK, dataVars, authVars, reqVars
  <1>4. QED
    BY <1>1, <1>2, <1>3

\* Expiry, the purge and the role gate keep the types.
LEMMA EnvType ==
    ASSUME TypeOK,
           \/ \E e \in Entries : Expire(e)
           \/ Purge
           \/ \E g \in SUBSET Roles : SetRoleCacheGate(g)
           \/ \E token \in Tenants \X Roles : Forget(token)
    PROVE  TypeOK'
  <1>1. ASSUME NEW e \in Entries, Expire(e)
        PROVE  TypeOK'
    BY <1>1 DEF Expire, Served, TypeOK, dataVars, authVars, reqVars
  <1>2. CASE Purge
    BY <1>2 DEF Purge, TypeOK, dataVars, authVars, reqVars
  <1>3. ASSUME NEW g \in SUBSET Roles, SetRoleCacheGate(g)
        PROVE  TypeOK'
    BY <1>3 DEF SetRoleCacheGate, TypeOK, dataVars, storeVars, reqVars
  <1>4. ASSUME NEW token \in Tenants \X Roles, Forget(token)
        PROVE  TypeOK'
    BY <1>4 DEF Forget, TypeOK, dataVars, storeVars, reqVars
  <1>5. QED
    BY <1>1, <1>2, <1>3, <1>4

\* A request that arrives keeps the types.
LEMMA ArriveType ==
    ASSUME TypeOK, NEW p \in Requests, NEW t \in Tenants, NEW k \in Keys, NEW r \in Roles,
           Arrive(p, t, k, r)
    PROVE  TypeOK'
  <1> DEFINE new == [tenant |-> t, key |-> k, role |-> r]
  <1>1. Begin(p, t, k, r)
    BY DEF Arrive, Hit, Miss, Alone
  <1>2. acked[t] \in Nat /\ epoch[t] \in Nat
    BY DEF TypeOK
  <1>3. new \in Named
    BY DEF Named
  <1>4. req' \in [Requests -> Named \cup {Idle}]
    BY <1>1, <1>3 DEF Begin, TypeOK, Named
  <1>5. floor' \in [Requests -> Nat]
    BY <1>1, <1>2 DEF Begin, TypeOK
  <1>6. asOf' \in [Requests -> Nat]
    BY <1>2 DEF Arrive, Hit, Miss, Alone, TypeOK
  <1>7. <<t, k>> \in Entries
    BY DEF Entries
  <1>8. body' \in [Requests -> Nat \cup {None}]
    BY <1>7 DEF Arrive, Hit, Miss, Alone, TypeOK
  <1>9. /\ pc' \in [Requests -> {"idle", "miss", "wait", "lead", "run", "built",
                                 "stored", "alone", "answered", "done"}]
        /\ \A q \in Requests \ {p} : pc'[q] = pc[q] /\ req'[q] = req[q]
        /\ req'[p] = new
    BY <1>1 DEF Begin, Arrive, Hit, Miss, Alone, TypeOK
  <1>10. new # Idle
    <2>1. new.tenant = t /\ new.key = k /\ new.role = r
      OBVIOUS
    <2>2. new = Idle => <<t, k, r>> = <<None, None, None>>
      BY <2>1 DEF Idle
    <2>3. QED
      BY <2>2, ResponseCacheAssumption
  <1>11. QED
    BY <1>1, <1>4, <1>5, <1>6, <1>8, <1>9, <1>10
    DEF Begin, TypeOK, Named, dataVars, storeVars, authVars

\* A step of a request in progress keeps the types.
LEMMA StepType ==
    ASSUME TypeOK, NEW p \in Requests, Step(p) \/ Finish(p)
    PROVE  TypeOK'
  <1> USE DEF TypeOK
  <1>1. CASE Lead(p)
    BY <1>1, ReqTyped DEF Lead, dataVars, storeVars, authVars
  <1>2. CASE Join(p)
    BY <1>2 DEF Join, dataVars, storeVars, authVars
  <1>3. CASE Capture(p)
    <2>1. epoch[req[p].tenant] \in Nat
      BY <1>3, ReqTyped DEF Capture
    <2>2. QED
      BY <1>3, <2>1 DEF Capture, dataVars, storeVars, authVars
  <1>4. CASE Respond(p)
    <2>1. version[req[p].tenant] \in Nat /\ Token(p) \in Tenants \X Roles
      BY <1>4, ReqTyped DEF Respond
    <2>2. body' \in [Requests -> Nat \cup {None}] /\ validated' \subseteq Tenants \X Roles
      BY <1>4, <2>1 DEF Respond
    <2>3. QED
      BY <1>4, <2>2 DEF Respond, dataVars, storeVars
  <1>5. CASE Store(p)
    <2>1. /\ cache' \in [Entries -> Nat \cup {None}]
          /\ expired' \subseteq Entries
          /\ \A f \in expired' : cache'[f] # None
      <3>1. CASE UNCHANGED <<cache, expired>>
        BY <3>1
      <3>2. CASE body[p] # None /\ Set(Entry(p), body[p], asOf[p])
        <4>1. Entry(p) \in Entries /\ body[p] \in Nat
          BY <1>5, <3>2, ReqTyped DEF Store
        <4>2. QED
          BY <3>2, <4>1, SetType
      <3>3. QED
        BY <1>5, <3>1, <3>2 DEF Store
    <2>2. QED
      BY <1>5, <2>1 DEF Store, dataVars, authVars
  <1>6. CASE Land(p)
    <2>1. /\ pc' \in [Requests -> {"idle", "miss", "wait", "lead", "run", "built",
                                   "stored", "alone", "answered", "done"}]
          /\ body' \in [Requests -> Nat \cup {None}]
          /\ shared' \in [Requests -> BOOLEAN]
          /\ flight' \in [Entries -> Requests \cup {None}]
      BY <1>6 DEF Land
    <2>2. \A q \in Requests : pc'[q] # "idle" => pc[q] # "idle"
      BY <1>6 DEF Land, Waiting
    <2>3. QED
      BY <1>6, <2>1, <2>2 DEF Land, dataVars, storeVars, authVars
  <1>7. CASE Finish(p)
    BY <1>7 DEF Finish, dataVars, storeVars, authVars
  <1>8. QED
    BY <1>1, <1>2, <1>3, <1>4, <1>5, <1>6, <1>7 DEF Step

\* Every step keeps the types.
LEMMA NextType == TypeOK /\ [Next]_vars => TypeOK'
  <1> SUFFICES ASSUME TypeOK, [Next]_vars
               PROVE  TypeOK'
    OBVIOUS
  <1>1. CASE UNCHANGED vars
    BY <1>1 DEF TypeOK, vars, dataVars, storeVars, authVars, reqVars
  <1>2. CASE Next
    BY <1>2, WriteType, EnvType, ArriveType, StepType DEF Next
  <1>3. QED
    BY <1>1, <1>2

\* The store, the claims cache and the requests keep their types, for every
\* number of tenants, URIs, requests and writers.
THEOREM TypeCorrect == Spec => []TypeOK
  <1>1. Init => TypeOK
    BY InitType
  <1>2. TypeOK /\ [Next]_vars => TypeOK'
    BY NextType
  <1>3. QED
    BY <1>1, <1>2, PTL DEF Spec

-----------------------------------------------------------------------------
(* The shared refresh. *)

Leading == {"lead", "run", "built", "stored"}

\* singleflight's map and the requests agree on who runs which refresh.
FlightsLed ==
    /\ \A p \in Requests : pc[p] \in Leading => flight[Entry(p)] = p
    /\ \A e \in Entries : flight[e] # None => pc[flight[e]] \in Leading /\ Entry(flight[e]) = e

WaitersFlown == \A p \in Requests : pc[p] = "wait" => flight[Entry(p)] # None

FlightInv == TypeOK /\ FlightsLed /\ WaitersFlown

\* A step of a request keeps singleflight's map in agreement with the requests.
LEMMA FlightStep ==
    ASSUME FlightInv, TypeOK', NEW p \in Requests, Step(p) \/ Finish(p)
    PROVE  FlightsLed' /\ WaitersFlown'
  <1> USE DEF FlightInv, FlightsLed, WaitersFlown, Leading
  <1>0. pc[p] # "idle" /\ Entry(p) \in Entries
    BY ReqTyped DEF Step, Lead, Join, Capture, Respond, Store, Land, Finish
  <1>a. \A q \in Requests : pc[q] # "idle" => Entry(q) \in Entries
    BY ReqTyped
  <1>1. CASE Lead(p)
    <2>1. /\ \A q \in Requests : Entry(q)' = Entry(q)
          /\ \A q \in Requests \ {p} : pc'[q] = pc[q]
          /\ pc'[p] = "lead"
      BY <1>1 DEF Lead, Entry, TypeOK
    <2>2. /\ flight[Entry(p)] = None /\ flight'[Entry(p)] = p
          /\ \A e \in Entries \ {Entry(p)} : flight'[e] = flight[e]
      BY <1>0, <1>1 DEF Lead, TypeOK
    <2>3. \A q \in Requests \ {p} : pc[q] \in Leading => Entry(q) # Entry(p)
      BY <2>2, ResponseCacheAssumption
    <2>4. FlightsLed'
      <3>1. ASSUME NEW q \in Requests, pc'[q] \in Leading
            PROVE  flight'[Entry(q)'] = q
        BY <3>1, <1>a, <2>1, <2>2, <2>3
      <3>2. ASSUME NEW e \in Entries, flight'[e] # None
            PROVE  pc'[flight'[e]] \in Leading /\ Entry(flight[e])' = e
        <4>1. CASE e = Entry(p)
          BY <4>1, <2>1, <2>2
        <4>2. CASE e # Entry(p)
          <5>1. flight'[e] = flight[e] /\ flight[e] \in Requests /\ pc[flight[e]] \in Leading /\ Entry(flight[e]) = e
            BY <3>2, <4>2, <2>2 DEF TypeOK
          <5>2. flight[e] # p
            BY <5>1, <4>2
          <5>3. QED
            BY <5>1, <5>2, <2>1
        <4>3. QED
          BY <4>1, <4>2
      <3>3. QED
        BY <3>1, <3>2
    <2>5. WaitersFlown'
      BY <1>a, <2>1, <2>2, ResponseCacheAssumption
    <2>6. QED
      BY <2>4, <2>5
  <1>2. CASE Join(p)
    <2>1. /\ \A q \in Requests : Entry(q)' = Entry(q)
          /\ \A q \in Requests \ {p} : pc'[q] = pc[q]
          /\ pc[p] = "miss" /\ pc'[p] = "wait"
          /\ flight' = flight /\ flight[Entry(p)] # None
      BY <1>2 DEF Join, Entry, TypeOK
    <2>2. \A e \in Entries : flight[e] # None => flight[e] \in Requests /\ flight[e] # p
      BY <2>1 DEF TypeOK
    <2>3. QED
      BY <2>1, <2>2
  <1>3. CASE Capture(p) \/ Respond(p) \/ Store(p)
    <2>1. /\ \A q \in Requests : Entry(q)' = Entry(q)
          /\ \A q \in Requests \ {p} : pc'[q] = pc[q]
          /\ pc[p] \notin {"wait"} /\ pc'[p] \notin {"wait"}
          /\ flight' = flight
          /\ pc[p] \in Leading <=> pc'[p] \in Leading
      BY <1>3 DEF Capture, Respond, Store, Entry, TypeOK
    <2>2. \A e \in Entries : flight[e] # None => flight[e] \in Requests
      BY DEF TypeOK
    <2>3. QED
      BY <2>1, <2>2
  <1>4. CASE Land(p)
    <2>1. /\ \A q \in Requests : Entry(q)' = Entry(q)
          /\ \A q \in Requests : pc'[q] = IF q = p \/ (pc[q] = "wait" /\ Entry(q) = Entry(p)) THEN "done" ELSE pc[q]
          /\ flight'[Entry(p)] = None
          /\ \A e \in Entries \ {Entry(p)} : flight'[e] = flight[e]
      BY <1>0, <1>4 DEF Land, Waiting, Entry, TypeOK
    <2>2. flight[Entry(p)] = p
      BY <1>4 DEF Land
    <2>3. FlightsLed'
      <3>1. ASSUME NEW q \in Requests, pc'[q] \in Leading
            PROVE  flight'[Entry(q)'] = q
        <4>1. q # p /\ pc[q] \in Leading
          BY <3>1, <2>1
        <4>2. Entry(q) # Entry(p) /\ Entry(q) \in Entries
          BY <4>1, <2>2, <1>a
        <4>3. QED
          BY <4>1, <4>2, <2>1
      <3>2. ASSUME NEW e \in Entries, flight'[e] # None
            PROVE  pc'[flight'[e]] \in Leading /\ Entry(flight[e])' = e
        <4>1. e # Entry(p) /\ flight'[e] = flight[e]
          BY <3>2, <2>1
        <4>2. flight[e] \in Requests /\ pc[flight[e]] \in Leading /\ Entry(flight[e]) = e
          BY <3>2, <4>1 DEF TypeOK
        <4>3. QED
          BY <4>1, <4>2, <2>1
      <3>3. QED
        BY <3>1, <3>2
    <2>4. WaitersFlown'
      <3> SUFFICES ASSUME NEW q \in Requests, pc'[q] = "wait"
                   PROVE  flight'[Entry(q)'] # None
        OBVIOUS
      <3>1. pc[q] = "wait" /\ Entry(q) # Entry(p) /\ Entry(q) \in Entries
        BY <2>1, <1>a
      <3>2. QED
        BY <3>1, <2>1
    <2>5. QED
      BY <2>3, <2>4
  <1>5. CASE Finish(p)
    <2>1. /\ \A q \in Requests \ {p} : Entry(q)' = Entry(q) /\ pc'[q] = pc[q]
          /\ pc[p] = "done" /\ pc'[p] = "idle"
          /\ flight' = flight
      BY <1>5 DEF Finish, Entry, TypeOK
    <2>2. \A e \in Entries : flight[e] # None => flight[e] \in Requests /\ flight[e] # p
      BY <2>1 DEF TypeOK
    <2>3. QED
      BY <2>1, <2>2
  <1>6. QED
    BY <1>1, <1>2, <1>3, <1>4, <1>5 DEF Step

\* Every step keeps that agreement.
LEMMA FlightNext == FlightInv /\ [Next]_vars => FlightInv'
  <1> SUFFICES ASSUME FlightInv, [Next]_vars
               PROVE  FlightInv'
    OBVIOUS
  <1>0. TypeOK'
    BY NextType DEF FlightInv
  <1>1. CASE UNCHANGED <<pc, req, flight>>
    BY <1>0, <1>1 DEF FlightInv, FlightsLed, WaitersFlown, Entry
  <1>2. ASSUME NEW p \in Requests, NEW t \in Tenants, NEW k \in Keys, NEW r \in Roles,
               Arrive(p, t, k, r)
        PROVE  FlightInv'
    <2>1. /\ \A q \in Requests \ {p} : Entry(q)' = Entry(q) /\ pc'[q] = pc[q]
          /\ pc[p] = "idle" /\ pc'[p] \in {"done", "miss", "alone"}
          /\ flight' = flight
      BY <1>2 DEF Arrive, Hit, Miss, Alone, Begin, Entry, FlightInv, TypeOK
    <2>2. \A e \in Entries : flight[e] # None => flight[e] \in Requests /\ flight[e] # p
      BY <2>1 DEF FlightInv, TypeOK, FlightsLed, Leading
    <2>3. QED
      BY <1>0, <2>1, <2>2 DEF FlightInv, FlightsLed, WaitersFlown, Leading
  <1>3. ASSUME NEW p \in Requests, Step(p) \/ Finish(p)
        PROVE  FlightInv'
    BY <1>0, <1>3, FlightStep DEF FlightInv
  <1>4. CASE \/ \E w \in Writers, t \in Tenants, kind \in WriteKinds : Write(w, t, kind)
             \/ \E w \in Writers : Invalidate(w)
             \/ \E t \in Tenants : Reload(t)
             \/ \E e \in Entries : Expire(e)
             \/ Purge
             \/ \E g \in SUBSET Roles : SetRoleCacheGate(g)
             \/ \E token \in Tenants \X Roles : Forget(token)
    BY <1>1, <1>4
    DEF Write, Invalidate, Reload, Expire, Purge, SetRoleCacheGate, Forget, reqVars
  <1>5. CASE UNCHANGED vars
    BY <1>1, <1>5 DEF vars, reqVars
  <1>6. QED
    BY <1>2, <1>3, <1>4, <1>5 DEF Next

\* No refresh is in flight at boot.
LEMMA FlightInit == Init => FlightInv
  <1> SUFFICES ASSUME Init PROVE FlightInv
    OBVIOUS
  <1>1. TypeOK
    BY InitType
  <1>2. QED
    BY <1>1 DEF Init, FlightInv, FlightsLed, WaitersFlown, Leading

\* A waiter always has another request that is running the refresh it waits
\* for, whatever arrives, lands or fails in between.
THEOREM WaitersLed == Spec => []WaitersHaveLeader
  <1>1. Init => FlightInv
    BY FlightInit
  <1>2. FlightInv /\ [Next]_vars => FlightInv'
    BY FlightNext
  <1>3. FlightInv => WaitersHaveLeader
    <2> SUFFICES ASSUME FlightInv, NEW p \in Requests, pc[p] = "wait"
                 PROVE  \E q \in Requests \ {p} : /\ flight[Entry(p)] = q
                                                  /\ pc[q] \in {"lead", "run", "built", "stored"}
                                                  /\ Entry(q) = Entry(p)
      BY DEF WaitersHaveLeader
    <2>1. Entry(p) \in Entries
      BY ReqTyped DEF FlightInv
    <2>2. flight[Entry(p)] \in Requests
      BY <2>1 DEF FlightInv, TypeOK, WaitersFlown
    <2>3. pc[flight[Entry(p)]] \in Leading /\ Entry(flight[Entry(p)]) = Entry(p)
      BY <2>1 DEF FlightInv, WaitersFlown, FlightsLed
    <2>4. flight[Entry(p)] # p
      BY <2>3 DEF Leading
    <2>5. QED
      BY <2>2, <2>3, <2>4 DEF Leading
  <1>4. QED
    BY <1>1, <1>2, <1>3, PTL DEF Spec

-----------------------------------------------------------------------------
(* Freshness, when every write path invalidates. *)

\* A tenant's latest write was answered or is about to invalidate.
AckedBehind ==
    /\ \A t \in Tenants :
        /\ acked[t] <= version[t]
        /\ \/ acked[t] = version[t]
           \/ \E w \in Writers : writing[w] = [tenant |-> t, version |-> version[t]]
    /\ \A w \in Writers : writing[w] # None => writing[w].version <= version[writing[w].tenant]

\* No stored body predates an answered write.
EntriesFresh ==
    \A t \in Tenants, k \in Keys :
        cache[<<t, k>>] # None => /\ acked[t] <= cache[<<t, k>>]
                                  /\ cache[<<t, k>>] <= version[t]

\* What the captured epoch says of a body that has yet to be stored.
BodiesFresh ==
    \A p \in Requests :
        /\ pc[p] \in {"run", "alone", "built", "answered"} => asOf[p] <= epoch[req[p].tenant]
        /\ pc[p] \in {"built", "answered"} /\ body[p] # None =>
            /\ body[p] <= version[req[p].tenant]
            /\ asOf[p] = epoch[req[p].tenant] => acked[req[p].tenant] <= body[p]

\* An answer that is not shared is not older than what its request was owed.
FloorsKept ==
    \A p \in Requests :
        /\ pc[p] # "idle" => floor[p] <= acked[req[p].tenant]
        /\ pc[p] \in {"built", "stored", "answered"} /\ body[p] # None => floor[p] <= body[p]
        /\ pc[p] = "done" /\ body[p] # None /\ ~shared[p] => floor[p] <= body[p]

FreshInv == TypeOK /\ AckedBehind /\ EntriesFresh /\ BodiesFresh /\ FloorsKept

\* An empty cache is fresh.
LEMMA FreshInit == Init => FreshInv
  <1> SUFFICES ASSUME Init PROVE FreshInv
    OBVIOUS
  <1>1. TypeOK
    BY InitType
  <1>2. AckedBehind
    BY DEF Init, AckedBehind
  <1>3. EntriesFresh
    BY DEF Init, EntriesFresh, Entries
  <1>4. BodiesFresh /\ FloorsKept
    BY DEF Init, BodiesFresh, FloorsKept
  <1>5. QED
    BY <1>1, <1>2, <1>3, <1>4 DEF FreshInv

\* A committed write, not yet answered, makes nothing stale.
LEMMA FreshWrite ==
    ASSUME FreshInv, TypeOK', WriteKinds \subseteq Invalidating,
           NEW w \in Writers, NEW t \in Tenants, NEW kind \in WriteKinds, Write(w, t, kind)
    PROVE  FreshInv'
  <1> USE DEF FreshInv
  <1>1. /\ writing[w] = None
        /\ version'[t] = version[t] + 1
        /\ \A u \in Tenants \ {t} : version'[u] = version[u]
        /\ writing'[w] = [tenant |-> t, version |-> version[t] + 1]
        /\ \A x \in Writers \ {w} : writing'[x] = writing[x]
        /\ acked' = acked
    BY DEF Write, TypeOK
  <1>2. UNCHANGED <<epoch, cache, pc, req, asOf, body, floor, shared>>
    BY DEF Write, storeVars, reqVars
  <1>3. version \in [Tenants -> Nat] /\ acked \in [Tenants -> Nat]
    BY DEF TypeOK
  <1>4. AckedBehind'
    <2>1. ASSUME NEW u \in Tenants
          PROVE  /\ acked'[u] <= version'[u]
                 /\ \/ acked'[u] = version'[u]
                    \/ \E x \in Writers : writing'[x] = [tenant |-> u, version |-> version'[u]]
      <3>1. CASE u = t
        <4>1. acked[t] \in Nat /\ version[t] \in Nat /\ acked[t] <= version[t]
          BY <1>3 DEF AckedBehind
        <4>2. acked'[t] <= version'[t]
          BY <4>1, <1>1
        <4>3. writing'[w] = [tenant |-> u, version |-> version'[u]]
          BY <3>1, <1>1
        <4>4. QED
          BY <3>1, <4>2, <4>3
      <3>2. CASE u # t
        <4>1. version'[u] = version[u] /\ acked'[u] = acked[u]
          BY <3>2, <1>1
        <4>2. ASSUME NEW x \in Writers, writing[x] = [tenant |-> u, version |-> version[u]]
              PROVE  writing'[x] = [tenant |-> u, version |-> version'[u]]
          <5>1. x # w
            <6>1. [tenant |-> u, version |-> version[u]] \in [tenant : Tenants, version : Nat]
              BY <1>3
            <6>2. QED
              BY <6>1, <4>2, <1>1, ResponseCacheAssumption
          <5>2. QED
            BY <5>1, <4>1, <4>2, <1>1
        <4>3. QED
          BY <4>1, <4>2 DEF AckedBehind
      <3>3. QED
        BY <3>1, <3>2
    <2>2. ASSUME NEW x \in Writers, writing'[x] # None
          PROVE  writing'[x].version <= version'[writing'[x].tenant]
      <3>1. CASE x = w
        BY <3>1, <1>1, <1>3
      <3>2. CASE x # w
        <4>1. writing'[x] = writing[x]
          BY <3>2, <1>1
        <4>2. writing[x].tenant \in Tenants /\ writing[x].version \in Nat
          BY <4>1, <2>2 DEF TypeOK
        <4>3. writing[x].version <= version[writing[x].tenant]
          BY <4>1, <2>2 DEF AckedBehind
        <4>4. QED
          BY <4>1, <4>2, <4>3, <1>1, <1>3
      <3>3. QED
        BY <3>1, <3>2
    <2>3. QED
      BY <2>1, <2>2 DEF AckedBehind
  <1>5. EntriesFresh'
    BY <1>1, <1>2, <1>3 DEF EntriesFresh, TypeOK, Entries
  <1>6. BodiesFresh'
    <2>1. \A p \in Requests : pc[p] # "idle" => req[p].tenant \in Tenants
      BY ReqTyped
    <2>2. \A u \in Tenants, b \in Nat : b <= version[u] => b <= version'[u]
      BY <1>1, <1>3
    <2>3. \A p \in Requests : body[p] # None => body[p] \in Nat
      BY DEF TypeOK
    <2>4. QED
      BY <1>1, <1>2, <2>1, <2>2, <2>3 DEF BodiesFresh
  <1>7. FloorsKept'
    BY <1>1, <1>2 DEF FloorsKept
  <1>8. QED
    BY <1>4, <1>5, <1>6, <1>7

\* Dropping a tenant's bucket keeps the store and the requests fresh, if what
\* was answered grows for that tenant only.
LEMMA FreshDrop ==
    ASSUME FreshInv, TypeOK', NEW t \in Tenants, Drop(t),
           UNCHANGED <<version, pc, req, asOf, body, floor, shared>>,
           acked'[t] >= acked[t], \A u \in Tenants \ {t} : acked'[u] = acked[u]
    PROVE  EntriesFresh' /\ BodiesFresh' /\ FloorsKept'
  <1> USE DEF FreshInv
  <1>1. /\ epoch'[t] = epoch[t] + 1
        /\ \A u \in Tenants \ {t} : epoch'[u] = epoch[u]
        /\ \A k \in Keys : cache'[<<t, k>>] = None
        /\ \A u \in Tenants \ {t}, k \in Keys : cache'[<<u, k>>] = cache[<<u, k>>]
    BY DEF Drop, TypeOK, Entries
  <1>2. EntriesFresh'
    BY <1>1 DEF EntriesFresh
  <1>3. \A p \in Requests : pc[p] # "idle" => req[p].tenant \in Tenants
    BY ReqTyped
  <1>4. BodiesFresh'
    <2> SUFFICES ASSUME NEW p \in Requests
                 PROVE  /\ pc[p] \in {"run", "alone", "built", "answered"} => asOf[p] <= epoch'[req[p].tenant]
                        /\ pc[p] \in {"built", "answered"} /\ body[p] # None =>
                            /\ body[p] <= version[req[p].tenant]
                            /\ asOf[p] = epoch'[req[p].tenant] => acked'[req[p].tenant] <= body[p]
      BY DEF BodiesFresh
    <2>1. asOf[p] \in Nat /\ epoch[t] \in Nat
      BY DEF TypeOK
    <2>2. CASE req[p].tenant = t
      BY <2>1, <2>2, <1>1 DEF BodiesFresh
    <2>3. CASE req[p].tenant # t
      BY <2>3, <1>1, <1>3 DEF BodiesFresh
    <2>4. QED
      BY <2>2, <2>3
  <1>5. FloorsKept'
    <2>1. ASSUME NEW p \in Requests, pc[p] # "idle"
          PROVE  floor[p] <= acked'[req[p].tenant]
      <3>1. floor[p] \in Nat /\ acked[t] \in Nat /\ acked'[t] \in Nat /\ req[p].tenant \in Tenants
        BY <2>1, <1>3 DEF TypeOK
      <3>2. floor[p] <= acked[req[p].tenant]
        BY <2>1 DEF FloorsKept
      <3>3. CASE req[p].tenant = t
        BY <3>1, <3>2, <3>3
      <3>4. CASE req[p].tenant # t
        BY <3>1, <3>2, <3>4
      <3>5. QED
        BY <3>3, <3>4
    <2>2. QED
      BY <2>1 DEF FloorsKept
  <1>6. QED
    BY <1>2, <1>4, <1>5

\* InvalidateTenant drops what the answered write would have made stale and moves the epoch.
LEMMA FreshInvalidate ==
    ASSUME FreshInv, TypeOK', NEW w \in Writers, Invalidate(w)
    PROVE  FreshInv'
  <1> DEFINE t == writing[w].tenant
             v == writing[w].version
  <1> USE DEF FreshInv
  <1>1. t \in Tenants /\ v \in Nat /\ v <= version[t]
    BY DEF Invalidate, TypeOK, AckedBehind
  <1>2. version \in [Tenants -> Nat] /\ acked \in [Tenants -> Nat]
    BY DEF TypeOK
  <1>3. /\ writing'[w] = None
        /\ \A x \in Writers \ {w} : writing'[x] = writing[x]
        /\ acked'[t] = Later(acked[t], v)
        /\ \A u \in Tenants \ {t} : acked'[u] = acked[u]
        /\ version' = version
    BY <1>1 DEF Invalidate, TypeOK
  <1>4. acked'[t] >= acked[t] /\ acked'[t] >= v /\ acked'[t] <= version[t]
    <2>1. acked[t] \in Nat /\ version[t] \in Nat /\ acked[t] <= version[t]
      BY <1>1, <1>2 DEF AckedBehind
    <2> HIDE DEF t, v
    <2>2. QED
      BY <2>1, <1>1, <1>3 DEF Later
  <1>5. AckedBehind'
    <2>1. ASSUME NEW u \in Tenants
          PROVE  /\ acked'[u] <= version[u]
                 /\ \/ acked'[u] = version[u]
                    \/ \E x \in Writers : writing'[x] = [tenant |-> u, version |-> version[u]]
      <3>1. acked'[u] <= version[u]
        BY <1>3, <1>4 DEF AckedBehind
      <3>2. CASE acked[u] = version[u]
        <4>1. acked[u] \in Nat /\ acked'[u] \in Nat
          BY <1>2 DEF TypeOK
        <4>2. acked'[u] >= acked[u]
          BY <4>1, <1>3, <1>4
        <4>3. QED
          BY <4>1, <4>2, <3>1, <3>2
      <3>3. ASSUME NEW x \in Writers, writing[x] = [tenant |-> u, version |-> version[u]]
            PROVE  \/ acked'[u] = version[u]
                   \/ \E y \in Writers : writing'[y] = [tenant |-> u, version |-> version[u]]
        <4>1. CASE x = w
          <5>1. t = u /\ v = version[u]
            BY <3>3, <4>1
          <5>2. acked'[u] \in Nat /\ version[u] \in Nat
            BY <1>2 DEF TypeOK
          <5>3. QED
            BY <5>1, <5>2, <1>4
        <4>2. CASE x # w
          BY <3>3, <4>2, <1>3
        <4>3. QED
          BY <4>1, <4>2
      <3>4. QED
        BY <3>1, <3>2, <3>3 DEF AckedBehind
    <2>2. ASSUME NEW x \in Writers, writing'[x] # None
          PROVE  writing'[x].version <= version[writing'[x].tenant]
      BY <2>2, <1>3 DEF AckedBehind
    <2>3. QED
      BY <2>1, <2>2, <1>3 DEF AckedBehind
  <1>6. EntriesFresh' /\ BodiesFresh' /\ FloorsKept'
    <2>1. Drop(t) /\ UNCHANGED <<version, pc, req, asOf, body, floor, shared>>
      BY DEF Invalidate, reqVars
    <2>2. QED
      BY <2>1, <1>1, <1>3, <1>4, FreshDrop
  <1>7. QED
    BY <1>5, <1>6

\* A reload drops the tenant's entries and moves its epoch.
LEMMA FreshReload ==
    ASSUME FreshInv, TypeOK', NEW t \in Tenants, Reload(t)
    PROVE  FreshInv'
  <1>1. /\ Drop(t) /\ UNCHANGED <<version, pc, req, asOf, body, floor, shared>>
        /\ UNCHANGED <<acked, writing>>
    BY DEF Reload, dataVars, reqVars
  <1>2. acked'[t] >= acked[t]
    BY <1>1 DEF FreshInv, TypeOK
  <1>3. EntriesFresh' /\ BodiesFresh' /\ FloorsKept'
    BY <1>1, <1>2, FreshDrop
  <1>4. AckedBehind'
    BY <1>1 DEF FreshInv, AckedBehind
  <1>5. QED
    BY <1>3, <1>4 DEF FreshInv

\* Time, the gate and the claims cache at most remove entries.
LEMMA FreshEnv ==
    ASSUME FreshInv, TypeOK',
           \/ \E e \in Entries : Expire(e)
           \/ Purge
           \/ \E g \in SUBSET Roles : SetRoleCacheGate(g)
           \/ \E token \in Tenants \X Roles : Forget(token)
           \/ UNCHANGED vars
    PROVE  FreshInv'
  <1>1. UNCHANGED <<version, writing, acked, epoch, pc, req, asOf, body, floor, shared>>
    BY DEF Expire, Purge, SetRoleCacheGate, Forget, vars, dataVars, storeVars, reqVars
  <1>2. \A e \in Entries : cache'[e] \in {None, cache[e]}
    BY DEF Expire, Purge, SetRoleCacheGate, Forget, vars, storeVars
  <1>3. EntriesFresh'
    BY <1>1, <1>2 DEF FreshInv, EntriesFresh, Entries
  <1>4. AckedBehind' /\ BodiesFresh' /\ FloorsKept'
    BY <1>1 DEF FreshInv, AckedBehind, BodiesFresh, FloorsKept
  <1>5. QED
    BY <1>3, <1>4 DEF FreshInv

\* A request is owed the writes answered before it arrived.
LEMMA FreshArrive ==
    ASSUME FreshInv, TypeOK', NEW p \in Requests, NEW t \in Tenants, NEW k \in Keys, NEW r \in Roles,
           Arrive(p, t, k, r)
    PROVE  FreshInv'
  <1> USE DEF FreshInv
  <1>1. UNCHANGED <<version, writing, acked, epoch, cache, shared>>
    BY DEF Arrive, Hit, Miss, Alone, Begin, dataVars, storeVars
  <1>2. /\ req'[p].tenant = t /\ floor'[p] = acked[t]
        /\ \A q \in Requests \ {p} : /\ req'[q] = req[q] /\ floor'[q] = floor[q]
                                     /\ pc'[q] = pc[q] /\ body'[q] = body[q] /\ asOf'[q] = asOf[q]
    BY DEF Arrive, Hit, Miss, Alone, Begin, TypeOK
  <1>3. acked[t] \in Nat /\ epoch[t] \in Nat /\ <<t, k>> \in Entries
    BY DEF TypeOK, Entries
  <1>4. AckedBehind' /\ EntriesFresh'
    BY <1>1 DEF AckedBehind, EntriesFresh
  <1>5. \/ pc'[p] = "miss"
        \/ pc'[p] = "alone" /\ asOf'[p] = epoch[t]
        \/ pc'[p] = "done" /\ body'[p] = cache[<<t, k>>] /\ cache[<<t, k>>] # None
    BY DEF Arrive, Hit, Miss, Alone, TypeOK, Served
  <1>6. BodiesFresh'
    BY <1>1, <1>2, <1>3, <1>5 DEF BodiesFresh
  <1>7. FloorsKept'
    <2>1. cache[<<t, k>>] # None => acked[t] <= cache[<<t, k>>]
      BY DEF EntriesFresh
    <2>2. QED
      BY <1>1, <1>2, <1>3, <1>5, <2>1 DEF FloorsKept
  <1>8. QED
    BY <1>4, <1>6, <1>7

\* A step of a request stores no body older than an answered write.
LEMMA FreshStep ==
    ASSUME FreshInv, TypeOK', NEW p \in Requests, Step(p) \/ Finish(p)
    PROVE  FreshInv'
  <1> USE DEF FreshInv
  <1>a. UNCHANGED <<version, writing, acked, epoch>>
    BY DEF Step, Lead, Join, Capture, Respond, Store, Land, Finish, dataVars, storeVars
  <1>b. AckedBehind'
    BY <1>a DEF AckedBehind
  <1>c. pc[p] # "idle" /\ req[p].tenant \in Tenants /\ req[p].key \in Keys
    BY ReqTyped DEF Step, Lead, Join, Capture, Respond, Store, Land, Finish
  <1>d. /\ version[req[p].tenant] \in Nat /\ acked[req[p].tenant] \in Nat /\ epoch[req[p].tenant] \in Nat
        /\ floor[p] \in Nat
    BY <1>c DEF TypeOK
  <1>1. CASE Lead(p) \/ Join(p)
    <2>1. /\ UNCHANGED <<cache, req, asOf, body, floor, shared>>
          /\ \A q \in Requests \ {p} : pc'[q] = pc[q]
          /\ pc'[p] \in {"lead", "wait"}
      BY <1>1 DEF Lead, Join, storeVars, TypeOK
    <2>2. EntriesFresh'
      BY <1>a, <2>1 DEF EntriesFresh
    <2>3. BodiesFresh' /\ FloorsKept'
      BY <1>a, <1>c, <2>1 DEF BodiesFresh, FloorsKept
    <2>4. QED
      BY <1>b, <2>2, <2>3
  <1>2. CASE Capture(p)
    <2>1. /\ UNCHANGED <<cache, req, body, floor, shared>>
          /\ \A q \in Requests \ {p} : pc'[q] = pc[q] /\ asOf'[q] = asOf[q]
          /\ pc'[p] = "run" /\ asOf'[p] = epoch[req[p].tenant]
      BY <1>2 DEF Capture, storeVars, TypeOK
    <2>2. EntriesFresh'
      BY <1>a, <2>1 DEF EntriesFresh
    <2>3. BodiesFresh' /\ FloorsKept'
      BY <1>a, <1>c, <1>d, <2>1 DEF BodiesFresh, FloorsKept
    <2>4. QED
      BY <1>b, <2>2, <2>3
  <1>3. CASE Respond(p)
    <2>1. /\ UNCHANGED <<cache, req, asOf, floor, shared>>
          /\ \A q \in Requests \ {p} : pc'[q] = pc[q] /\ body'[q] = body[q]
          /\ pc[p] \in {"run", "alone"} /\ pc'[p] \in {"built", "answered"}
          /\ body'[p] = None \/ body'[p] = version[req[p].tenant]
      BY <1>3 DEF Respond, storeVars, TypeOK
    <2>2. acked[req[p].tenant] <= version[req[p].tenant] /\ floor[p] <= acked[req[p].tenant]
      BY <1>c DEF AckedBehind, FloorsKept
    <2>3. EntriesFresh'
      BY <1>a, <2>1 DEF EntriesFresh
    <2>4. asOf[p] <= epoch[req[p].tenant]
      BY <2>1 DEF BodiesFresh
    <2>5. BodiesFresh'
      BY <1>a, <1>d, <2>1, <2>2, <2>4 DEF BodiesFresh
    <2>6. floor[p] <= version[req[p].tenant]
      BY <1>d, <2>2
    <2>7. FloorsKept'
      BY <1>a, <2>1, <2>2, <2>6 DEF FloorsKept
    <2>8. QED
      BY <1>b, <2>3, <2>5, <2>7
  <1>4. CASE Store(p)
    <2>1. /\ UNCHANGED <<req, asOf, body, floor, shared>>
          /\ \A q \in Requests \ {p} : pc'[q] = pc[q]
          /\ pc[p] \in {"built", "answered"} /\ pc'[p] \in {"stored", "done"}
      BY <1>4 DEF Store, TypeOK
    <2>2. \/ cache' = cache
          \/ /\ body[p] # None /\ epoch[req[p].tenant] = asOf[p]
             /\ cache' = [cache EXCEPT ![Entry(p)] = body[p]]
      BY <1>4 DEF Store, Set, Settable, Entry
    <2>3. EntriesFresh'
      <3>1. CASE cache' = cache
        BY <3>1, <1>a DEF EntriesFresh
      <3>2. CASE /\ body[p] # None /\ epoch[req[p].tenant] = asOf[p]
                 /\ cache' = [cache EXCEPT ![Entry(p)] = body[p]]
        <4>1. body[p] <= version[req[p].tenant] /\ acked[req[p].tenant] <= body[p]
          BY <3>2, <2>1 DEF BodiesFresh
        <4> SUFFICES ASSUME NEW t \in Tenants, NEW k \in Keys, cache'[<<t, k>>] # None
                     PROVE  acked[t] <= cache'[<<t, k>>] /\ cache'[<<t, k>>] <= version[t]
          BY <1>a DEF EntriesFresh
        <4>2. <<t, k>> \in Entries /\ cache \in [Entries -> Nat \cup {None}]
          BY DEF Entries, TypeOK
        <4>3. CASE t = req[p].tenant /\ k = req[p].key
          BY <4>1, <4>2, <4>3, <3>2 DEF Entry
        <4>4. CASE ~(t = req[p].tenant /\ k = req[p].key)
          <5>1. <<t, k>> # Entry(p)
            BY <4>4 DEF Entry
          <5>2. cache'[<<t, k>>] = cache[<<t, k>>]
            BY <5>1, <4>2, <3>2
          <5>3. QED
            BY <5>2 DEF EntriesFresh
        <4>5. QED
          BY <4>3, <4>4
      <3>3. QED
        BY <2>2, <3>1, <3>2
    <2>4. BodiesFresh' /\ FloorsKept'
      BY <1>a, <1>c, <2>1 DEF BodiesFresh, FloorsKept
    <2>5. QED
      BY <1>b, <2>3, <2>4
  <1>5. CASE Land(p)
    <2>1. /\ UNCHANGED <<cache, req, asOf, floor>>
          /\ \A q \in Requests \ Waiting(p) :
                /\ body'[q] = body[q] /\ shared'[q] = shared[q]
                /\ q # p => pc'[q] = pc[q]
          /\ \A q \in Waiting(p) : pc'[q] = "done" /\ shared'[q] /\ pc[q] = "wait"
          /\ pc'[p] = "done" /\ pc[p] = "stored" /\ p \notin Waiting(p)
      BY <1>5 DEF Land, storeVars, Waiting, TypeOK
    <2>2. EntriesFresh'
      BY <1>a, <2>1 DEF EntriesFresh
    <2>3. BodiesFresh'
      BY <1>a, <2>1 DEF BodiesFresh
    <2>4. FloorsKept'
      BY <1>a, <2>1 DEF FloorsKept
    <2>5. QED
      BY <1>b, <2>2, <2>3, <2>4
  <1>6. CASE Finish(p)
    <2>1. /\ UNCHANGED cache
          /\ \A q \in Requests \ {p} : /\ pc'[q] = pc[q] /\ req'[q] = req[q] /\ asOf'[q] = asOf[q]
                                       /\ body'[q] = body[q] /\ floor'[q] = floor[q] /\ shared'[q] = shared[q]
          /\ pc'[p] = "idle"
      BY <1>6 DEF Finish, storeVars, TypeOK
    <2>2. EntriesFresh'
      BY <1>a, <2>1 DEF EntriesFresh
    <2>3. BodiesFresh' /\ FloorsKept'
      BY <1>a, <2>1 DEF BodiesFresh, FloorsKept
    <2>4. QED
      BY <1>b, <2>2, <2>3
  <1>7. QED
    BY <1>1, <1>2, <1>3, <1>4, <1>5, <1>6 DEF Step

\* Every step keeps the cache fresh when every write path invalidates.
LEMMA FreshNext ==
    ASSUME WriteKinds \subseteq Invalidating
    PROVE  FreshInv /\ [Next]_vars => FreshInv'
  <1> SUFFICES ASSUME FreshInv, [Next]_vars
               PROVE  FreshInv'
    OBVIOUS
  <1>0. TypeOK'
    BY NextType DEF FreshInv
  <1>1. QED
    BY <1>0, FreshWrite, FreshInvalidate, FreshReload, FreshEnv, FreshArrive, FreshStep DEF Next

\* If every write path invalidates, the store never holds a body older than
\* the tenant's data once no write is between its commit and its Invalidate.
THEOREM StoreIsCurrent ==
    ASSUME WriteKinds \subseteq Invalidating
    PROVE  Spec => []StoredIsCurrent
  <1>1. Init => FreshInv
    BY FreshInit
  <1>2. FreshInv /\ [Next]_vars => FreshInv'
    BY FreshNext
  <1>3. FreshInv => StoredIsCurrent
    <2> SUFFICES ASSUME FreshInv, NEW t \in Tenants, NEW k \in Keys, cache[<<t, k>>] # None,
                        \A w \in Writers : writing[w] # None => writing[w].tenant # t
                 PROVE  cache[<<t, k>>] = version[t]
      BY DEF StoredIsCurrent
    <2>1. acked[t] = version[t]
      <3>1. [tenant |-> t, version |-> version[t]] \in [tenant : Tenants, version : Nat]
        BY DEF FreshInv, TypeOK
      <3>2. \A w \in Writers : writing[w] # [tenant |-> t, version |-> version[t]]
        BY <3>1, ResponseCacheAssumption
      <3>3. QED
        BY <3>2 DEF FreshInv, AckedBehind
    <2>2. acked[t] <= cache[<<t, k>>] /\ cache[<<t, k>>] <= version[t]
      BY DEF FreshInv, EntriesFresh
    <2>3. version[t] \in Nat /\ cache[<<t, k>>] \in Nat
      BY DEF FreshInv, TypeOK, Entries
    <2>4. QED
      BY <2>1, <2>2, <2>3
  <1>4. QED
    BY <1>1, <1>2, <1>3, PTL DEF Spec

\* If every write path invalidates, an answer from the cache or from the
\* request's own backend call shows every write answered before the request.
THEOREM UnsharedIsFresh ==
    ASSUME WriteKinds \subseteq Invalidating
    PROVE  Spec => []FreshUnlessShared
  <1>1. Init => FreshInv
    BY FreshInit
  <1>2. FreshInv /\ [Next]_vars => FreshInv'
    BY FreshNext
  <1>3. FreshInv => FreshUnlessShared
    <2> SUFFICES ASSUME FreshInv, NEW p \in Requests, pc[p] = "done", body[p] # None, ~shared[p]
                 PROVE  body[p] >= floor[p]
      BY DEF FreshUnlessShared
    <2>1. body[p] \in Nat /\ floor[p] \in Nat /\ floor[p] <= body[p]
      BY DEF FreshInv, TypeOK, FloorsKept
    <2>2. QED
      BY <2>1
  <1>4. QED
    BY <1>1, <1>2, <1>3, PTL DEF Spec
=============================================================================
