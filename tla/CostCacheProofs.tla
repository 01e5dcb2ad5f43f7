--------------------------- MODULE CostCacheProofs ---------------------------
(***************************************************************************)
(* What the cost cache holds, for any number of requests, scopes and       *)
(* configurations and every lifetime.  An entry is given its whole         *)
(* lifetime when it is written, so what bounds the age of its data is what *)
(* its request brings along: data no older than the time the request has   *)
(* run, which the platform bounds.                                         *)
(***************************************************************************)
EXTENDS CostCache, TLAPS

Answers == [phase : {"storing"}, config : Configs, data : Data, clock : 0..MaxTime]

Queries == [phase : {"querying"}, config : Configs, data : {Nothing}, clock : 0..MaxTime]

\* An answer on its way to the store is no older than its request, and for
\* the scope it was asked for.
RequestOK(x) ==
  \/ x = Idle
  \/ x \in Queries
  \/ x \in Answers /\ x.data.age <= x.clock /\ x.data.scope = x.config.scope

\* An entry has left what its data has not yet used, and is for its key.
EntryOK(entry, s) ==
  entry # Nothing =>
    /\ entry \in Entries
    /\ entry.data.age + entry.left \in TTL..(TTL + MaxTime)
    /\ entry.data.scope = s

IInv ==
  /\ deployed \subseteq Configs /\ deployed # {}
  /\ cache = [s \in Scopes |-> cache[s]]
  /\ lagging = [s \in Scopes |-> lagging[s]]
  /\ req = [r \in Requests |-> req[r]]
  /\ \A s \in Scopes : EntryOK(cache[s], s) /\ EntryOK(lagging[s], s)
  /\ \A r \in Requests : RequestOK(req[r])

---------------------------------------------------------------------------
(* Records.                                                                *)

\* The phase tells the three shapes of a request apart.
LEMMA PhasesApart ==
  /\ Idle.phase = "idle"
  /\ \A x \in Queries : x.phase = "querying"
  /\ \A x \in Answers : x.phase = "storing"
BY DEF Idle, Queries, Answers

\* What a request gets is as old as the request, and for the scope of its
\* configuration.
LEMMA SummaryFacts ==
  ASSUME NEW config \in Configs, NEW source \in {"aws_cost_explorer", "local_fallback"},
         NEW age \in 0..MaxTime
  PROVE  /\ Summary(config, source, age) \in Data
         /\ Summary(config, source, age).age = age
         /\ Summary(config, source, age).scope = config.scope
         /\ Summary(config, source, age).source = source
         /\ CacheKey(config) \in Scopes
BY LifetimeAssumption DEF Summary, Data, MaxAge, CacheKey

\* Ageing adds one to the age and leaves the rest, within the bound on ages.
LEMMA OlderFacts ==
  ASSUME NEW data \in Data, data.age < MaxAge
  PROVE  /\ Older(data) \in Data
         /\ Older(data).age = data.age + 1
         /\ Older(data).scope = data.scope
         /\ Older(data).source = data.source
BY LifetimeAssumption, NothingAssumption DEF Older, Data, MaxAge

\* While an entry can still be read, each tick moves one unit from what is
\* left to the age.
LEMMA OlderEntryOK ==
  ASSUME NEW entry, NEW s, EntryOK(entry, s)
  PROVE  EntryOK(OlderEntry(entry), s)
<1>. SUFFICES ASSUME entry # Nothing, entry.left # 0
              PROVE  EntryOK([data |-> Older(entry.data), left |-> entry.left - 1], s)
  BY DEF OlderEntry, EntryOK
<1>1. /\ entry.data \in Data /\ entry.left \in 1..TTL
      /\ entry.data.age \in Nat
      /\ entry.data.age + entry.left \in TTL..(TTL + MaxTime)
      /\ entry.data.scope = s
  BY LifetimeAssumption DEF EntryOK, Entries, Data, MaxAge
<1>2. entry.data.age < MaxAge
  BY <1>1, LifetimeAssumption DEF MaxAge
<1>3. /\ Older(entry.data) \in Data
      /\ Older(entry.data).age = entry.data.age + 1
      /\ Older(entry.data).scope = s
  BY <1>1, <1>2, OlderFacts
<1>. DEFINE data == Older(entry.data)
<1>. HIDE DEF data
<1>4. [data |-> data, left |-> entry.left - 1] \in Entries
  BY <1>1, <1>3, LifetimeAssumption DEF Entries, data
<1>5. data.age + (entry.left - 1) \in TTL..(TTL + MaxTime)
  BY <1>1, <1>3, LifetimeAssumption DEF data
<1>. QED  BY <1>3, <1>4, <1>5 DEF EntryOK, data

\* A request that may run on stays well formed a tick later.
LEMMA OlderRequestOK ==
  ASSUME NEW x, RequestOK(x), x.clock < MaxTime, x.phase # "idle"
  PROVE  RequestOK([x EXCEPT !.data = Older(@), !.clock = @ + 1])
<1>. DEFINE older == [x EXCEPT !.data = Older(x.data), !.clock = x.clock + 1]
<1>1. CASE x \in Queries
  <2>1. x.data = Nothing /\ Older(x.data) = Nothing /\ x.clock + 1 \in 0..MaxTime
    BY <1>1, LifetimeAssumption DEF Queries, Older
  <2>2. older \in Queries
    BY <1>1, <2>1 DEF Queries
  <2>. QED  BY <2>2 DEF RequestOK
<1>2. CASE x \in Answers /\ x.data.age <= x.clock /\ x.data.scope = x.config.scope
  <2>1. x.data \in Data /\ x.data.age \in Nat /\ x.clock \in 0..MaxTime
    BY <1>2 DEF Answers, Data
  <2>2. x.data.age < MaxAge
    BY <1>2, <2>1, LifetimeAssumption DEF MaxAge
  <2>3. /\ Older(x.data) \in Data
        /\ Older(x.data).age = x.data.age + 1
        /\ Older(x.data).scope = x.data.scope
    BY <2>1, <2>2, OlderFacts
  <2>4. x.clock + 1 \in 0..MaxTime
    BY <2>1, LifetimeAssumption
  <2>. DEFINE data == Older(x.data)
              clock == x.clock + 1
  <2>. HIDE DEF data, clock
  <2>5. older = [x EXCEPT !.data = data, !.clock = clock]
    BY DEF data, clock
  <2>6. older \in Answers /\ older.data = data /\ older.clock = clock
        /\ older.config = x.config
    BY <1>2, <2>3, <2>4, <2>5 DEF Answers, data, clock
  <2>7. data.age <= clock /\ data.scope = x.config.scope
    BY <1>2, <2>1, <2>3 DEF data, clock
  <2>. QED  BY <2>6, <2>7 DEF RequestOK
<1>. QED  BY <1>1, <1>2, PhasesApart DEF RequestOK

---------------------------------------------------------------------------
(* The induction.                                                          *)

LEMMA InitIInv == Init => IInv
<1>. SUFFICES ASSUME Init PROVE IInv
  OBVIOUS
<1>1. deployed \subseteq Configs /\ deployed # {}
  BY DEF Init
<1>. QED  BY <1>1 DEF Init, IInv, EntryOK, RequestOK

\* A step of one request that leaves the store alone.
LEMMA RequestStep ==
  ASSUME IInv, NEW r \in Requests, NEW x, RequestOK(x), req' = [req EXCEPT ![r] = x],
         UNCHANGED <<deployed, cache, lagging>>
  PROVE  IInv'
<1>1. req' = [t \in Requests |-> IF t = r THEN x ELSE req[t]]
  BY DEF IInv
<1>2. \A t \in Requests : RequestOK(req'[t])
  BY <1>1 DEF IInv
<1>3. req' = [t \in Requests |-> req'[t]]
  BY <1>1
<1>. QED  BY <1>2, <1>3 DEF IInv, EntryOK, RequestOK

LEMMA MissKeeps ==
  ASSUME IInv, NEW r \in Requests, NEW config \in deployed, Miss(r, config)
  PROVE  IInv'
<1>. config \in Configs
  BY DEF IInv
<1>1. CASE config.enabled
  <2>. DEFINE x == [phase |-> "querying", config |-> config, data |-> Nothing, clock |-> 0]
  <2>1. RequestOK(x)
    BY LifetimeAssumption DEF RequestOK, Queries
  <2>. HIDE DEF x
  <2>2. req' = [req EXCEPT ![r] = x] /\ UNCHANGED <<deployed, cache, lagging>>
    BY <1>1 DEF Miss, Begins, x
  <2>. QED  BY <2>1, <2>2, RequestStep
<1>2. CASE ~ config.enabled
  <2>. DEFINE data == Summary(config, "local_fallback", 0)
              x == [phase |-> "storing", config |-> config, data |-> data, clock |-> 0]
  <2>1. data \in Data /\ data.age = 0 /\ data.scope = config.scope
    BY SummaryFacts, LifetimeAssumption
  <2>2. req' = [req EXCEPT ![r] = x] /\ UNCHANGED <<deployed, cache, lagging>>
    BY <1>2 DEF Miss, Begins
  <2>. HIDE DEF data
  <2>3. RequestOK(x)
    BY <2>1, LifetimeAssumption DEF RequestOK, Answers
  <2>. HIDE DEF x
  <2>. QED  BY <2>2, <2>3, RequestStep
<1>. QED  BY <1>1, <1>2

LEMMA QueryAnswersKeeps ==
  ASSUME IInv, NEW r \in Requests, QueryAnswers(r)
  PROVE  IInv'
<1>. DEFINE data == Summary(req[r].config, "aws_cost_explorer", req[r].clock)
            x == [req[r] EXCEPT !.phase = "storing", !.data = data]
<1>1. req[r] \in Queries
  BY PhasesApart DEF QueryAnswers, IInv, RequestOK
<1>2. req[r].config \in Configs /\ req[r].clock \in 0..MaxTime
  BY <1>1 DEF Queries
<1>3. data \in Data /\ data.age = req[r].clock /\ data.scope = req[r].config.scope
  BY <1>2, SummaryFacts
<1>4. req' = [req EXCEPT ![r] = x]
  BY DEF QueryAnswers
<1>. HIDE DEF data
<1>5. x \in Answers /\ x.data = data /\ x.config = req[r].config /\ x.clock = req[r].clock
  BY <1>1, <1>3 DEF Queries, Answers
<1>6. RequestOK(x)
  BY <1>2, <1>3, <1>5 DEF RequestOK
<1>. HIDE DEF x
<1>. QED  BY <1>4, <1>6, RequestStep DEF QueryAnswers

\* The slot is given back.
LEMMA FreesKeeps ==
  ASSUME IInv, NEW r \in Requests, QueryFails(r) \/ Abandon(r)
  PROVE  IInv'
<1>1. RequestOK(Idle)
  BY DEF RequestOK
<1>. QED  BY <1>1, RequestStep DEF QueryFails, Abandon

\* The new entry has the whole lifetime left and data no older than a request.
LEMMA StoreKeeps ==
  ASSUME IInv, NEW r \in Requests, Store(r)
  PROVE  IInv'
<1>. DEFINE x == req[r]
            key == CacheKey(x.config)
            entry == [data |-> x.data, left |-> TTL]
<1>1. x \in Answers /\ x.data.age <= x.clock /\ x.data.scope = x.config.scope
  BY PhasesApart DEF Store, IInv, RequestOK
<1>2. /\ x.data \in Data /\ x.data.age \in 0..MaxTime /\ key \in Scopes
      /\ x.data.scope = key
  <2>1. x.data \in Data /\ x.data.age \in Nat /\ x.clock \in 0..MaxTime /\ x.config \in Configs
    BY <1>1 DEF Answers, Data
  <2>2. x.data.age \in 0..MaxTime
    BY <1>1, <2>1, LifetimeAssumption
  <2>. QED  BY <1>1, <2>1, <2>2, LifetimeAssumption DEF CacheKey
<1>3. /\ cache' = [cache EXCEPT ![key] = entry]
      /\ req' = [req EXCEPT ![r] = Idle]
      /\ UNCHANGED <<deployed, lagging>>
  BY DEF Store
<1>4. EntryOK(entry, key)
  BY <1>2, LifetimeAssumption DEF EntryOK, Entries
<1>. HIDE DEF x, key, entry
<1>5. cache' = [s \in Scopes |-> IF s = key THEN entry ELSE cache[s]]
  BY <1>3 DEF IInv
<1>6. req' = [t \in Requests |-> IF t = r THEN Idle ELSE req[t]]
  BY <1>3 DEF IInv
<1>7. \A s \in Scopes : EntryOK(cache'[s], s)
  BY <1>4, <1>5 DEF IInv
<1>8. \A t \in Requests : RequestOK(req'[t])
  BY <1>6 DEF IInv, RequestOK
<1>9. cache' = [s \in Scopes |-> cache'[s]] /\ req' = [t \in Requests |-> req'[t]]
  BY <1>5, <1>6
<1>. QED  BY <1>3, <1>7, <1>8, <1>9 DEF IInv, EntryOK, RequestOK

LEMMA TickKeeps ==
  ASSUME IInv, Tick
  PROVE  IInv'
<1>1. /\ cache' = [s \in Scopes |-> OlderEntry(cache[s])]
      /\ lagging' = [s \in Scopes |-> OlderEntry(lagging[s])]
      /\ deployed' = deployed
  BY DEF Tick
<1>2. \A s \in Scopes : EntryOK(cache'[s], s) /\ EntryOK(lagging'[s], s)
  BY <1>1, OlderEntryOK DEF IInv
<1>3. req' = [r \in Requests |-> IF req[r].phase = "idle" THEN Idle
                                 ELSE [req[r] EXCEPT !.data = Older(@), !.clock = @ + 1]]
  BY DEF Tick
<1>4. \A r \in Requests : RequestOK(req'[r])
  <2>1. SUFFICES ASSUME NEW r \in Requests PROVE RequestOK(req'[r])
    OBVIOUS
  <2>2. CASE req[r].phase = "idle"
    BY <1>3, <2>2 DEF RequestOK
  <2>3. CASE req[r].phase # "idle"
    <3>1. RequestOK([req[r] EXCEPT !.data = Older(@), !.clock = @ + 1])
      BY <2>3, OlderRequestOK DEF IInv, Tick
    <3>. QED  BY <1>3, <2>3, <3>1
  <2>. QED  BY <2>2, <2>3
<1>5. /\ cache' = [s \in Scopes |-> cache'[s]]
      /\ lagging' = [s \in Scopes |-> lagging'[s]]
      /\ req' = [r \in Requests |-> req'[r]]
  BY <1>1, <1>3
<1>. QED  BY <1>1, <1>2, <1>4, <1>5 DEF IInv, EntryOK, RequestOK

LEMMA ReplicateKeeps ==
  ASSUME IInv, NEW s \in Scopes, Replicate(s)
  PROVE  IInv'
<1>1. lagging' = [t \in Scopes |-> IF t = s THEN cache[s] ELSE lagging[t]]
  BY DEF IInv, Replicate
<1>2. \A t \in Scopes : EntryOK(lagging'[t], t)
  BY <1>1 DEF IInv
<1>3. lagging' = [t \in Scopes |-> lagging'[t]]
  BY <1>1
<1>. QED  BY <1>2, <1>3 DEF IInv, Replicate, EntryOK, RequestOK

LEMMA DeployKeeps ==
  ASSUME IInv, Deploy
  PROVE  IInv'
<1>1. deployed' \subseteq Configs /\ deployed' # {}
  BY DEF IInv, Deploy
<1>. QED  BY <1>1 DEF IInv, Deploy, EntryOK, RequestOK

LEMMA ResetKeeps ==
  ASSUME IInv, Reset
  PROVE  IInv'
<1>1. cache' = [s \in Scopes |-> Nothing]
  BY DEF Reset
<1>2. cache' = [s \in Scopes |-> cache'[s]] /\ \A s \in Scopes : EntryOK(cache'[s], s)
  BY <1>1 DEF EntryOK
<1>. QED  BY <1>2 DEF IInv, Reset, EntryOK, RequestOK

LEMMA NextIInv == IInv /\ [Next]_vars => IInv'
<1>. SUFFICES ASSUME IInv, [Next]_vars PROVE IInv'
  OBVIOUS
<1>1. CASE UNCHANGED vars
  BY <1>1 DEF vars, IInv, EntryOK, RequestOK
<1>2. ASSUME NEW r \in Requests, Serve(r)
      PROVE  IInv'
  <2>1. ASSUME NEW config \in deployed, Hit(r, config)
        PROVE  IInv'
    BY <2>1 DEF Hit, vars, IInv, EntryOK, RequestOK
  <2>. QED  BY <1>2, <2>1, MissKeeps, QueryAnswersKeeps, FreesKeeps, StoreKeeps DEF Serve
<1>. QED  BY <1>1, <1>2, TickKeeps, ReplicateKeeps, DeployKeeps, ResetKeeps DEF Next

---------------------------------------------------------------------------
(* The results.                                                            *)

\* Ages, remaining lifetimes and scopes fit together, in the table, in every
\* lagging copy and in every answer on its way (cost_explorer.py, set_cache
\* and get_cache of store.py).
THEOREM CacheInvariant == Spec => []IInv
BY InitIInv, NextIInv, PTL DEF Spec

\* Nothing in the store or on its way is older than the bound.
THEOREM TypeCorrect == Spec => []TypeOK
<1>1. IInv => TypeOK
  <2>. SUFFICES ASSUME IInv PROVE TypeOK
    OBVIOUS
  <2>1. /\ cache \in [Scopes -> Entries \cup {Nothing}]
        /\ lagging \in [Scopes -> Entries \cup {Nothing}]
    BY DEF IInv, EntryOK
  <2>2. ASSUME NEW r \in Requests, req[r] # Idle
        PROVE  req[r] \in [phase : {"querying", "storing"}, config : Configs,
                           data : Data \cup {Nothing}, clock : 0..MaxTime]
    BY <2>2 DEF IInv, RequestOK, Queries, Answers
  <2>. QED  BY <2>1, <2>2 DEF IInv, TypeOK
<1>. QED  BY <1>1, CacheInvariant, PTL

\* What may still be read is never older than its lifetime and the time of one
\* request, although a request that missed stores over a newer entry, and a
\* read lags (set_cache's expiry, get_cache's check).
THEOREM LifetimesAddUp == Spec => []LifetimeIsSpentOnce
<1>1. IInv => LifetimeIsSpentOnce
  BY DEF IInv, EntryOK, LifetimeIsSpentOnce
<1>. QED  BY <1>1, CacheInvariant, PTL

\* Every entry that may be read is for the scope of its key, so a request is
\* answered for the scope its instance is configured to report on, whatever
\* instances of other configurations store (_cache_key).
EntriesAreForTheirScope ==
  \A s \in Scopes : \A entry \in {cache[s], lagging[s]} \ {Nothing} : entry.data.scope = s

THEOREM ScopesAreKeptApart == Spec => []EntriesAreForTheirScope
<1>1. IInv => EntriesAreForTheirScope
  BY DEF IInv, EntryOK, EntriesAreForTheirScope
<1>. QED  BY <1>1, CacheInvariant, PTL

\* Cost Explorer is enabled everywhere, and no summary made up before is in
\* the store, in a lagging copy or on its way there.
AllReal ==
  /\ \A config \in deployed : config.enabled
  /\ \A s \in Scopes : ~ MadeUp(cache[s]) /\ ~ MadeUp(lagging[s])
  /\ \A r \in Requests : req[r].phase = "storing" => req[r].data.source # "local_fallback"

\* Once the made-up summaries are gone they stay away until an instance with
\* Cost Explorer disabled is deployed again: no lagging copy, late request or
\* read brings one back (the part of FallbackFades that no fairness is needed
\* for; get_cost_summary).
RealStaysReal ==
  [][AllReal /\ (\A config \in deployed' : config.enabled) => AllReal']_vars

\* A step that writes the store from what was there, or leaves it alone, and
\* the requests as they were or idle.
LEMMA NothingNewStored ==
  ASSUME AllReal, \A config \in deployed' : config.enabled,
         \A s \in Scopes : /\ MadeUp(cache'[s]) => MadeUp(cache[s]) \/ MadeUp(lagging[s])
                           /\ MadeUp(lagging'[s]) => MadeUp(cache[s]) \/ MadeUp(lagging[s]),
         \A r \in Requests : req'[r] = Idle \/ req'[r] = req[r]
  PROVE  AllReal'
BY PhasesApart DEF AllReal, MadeUp

LEMMA OlderEntryMadeUp ==
  ASSUME NEW entry, NEW s, EntryOK(entry, s), MadeUp(OlderEntry(entry))
  PROVE  MadeUp(entry)
<1>1. entry # Nothing /\ entry.left # 0
      /\ OlderEntry(entry) = [data |-> Older(entry.data), left |-> entry.left - 1]
  BY DEF MadeUp, OlderEntry
<1>2. /\ entry.data \in Data /\ entry.data.age \in Nat /\ entry.left \in 1..TTL
      /\ entry.data.age + entry.left \in TTL..(TTL + MaxTime)
  BY <1>1, LifetimeAssumption DEF EntryOK, Entries, Data, MaxAge
<1>3. entry.data.age < MaxAge
  BY <1>2, LifetimeAssumption DEF MaxAge
<1>4. Older(entry.data).source = entry.data.source
  BY <1>2, <1>3, OlderFacts
<1>. QED  BY <1>1, <1>4 DEF MadeUp

THEOREM MadeUpStaysAway == Spec => RealStaysReal
<1>1. ASSUME IInv, [Next]_vars, AllReal, \A config \in deployed' : config.enabled
      PROVE  AllReal'
  <2>1. CASE UNCHANGED vars
    BY <1>1, <2>1 DEF vars, AllReal, MadeUp
  <2>2. ASSUME NEW r \in Requests, NEW config \in deployed, Hit(r, config) \/ Miss(r, config)
        PROVE  AllReal'
    <3>1. CASE Hit(r, config)
      BY <1>1, <3>1 DEF Hit, vars, AllReal, MadeUp
    <3>2. CASE Miss(r, config)
      <4>1. config.enabled
        BY <1>1 DEF AllReal
      <4>2. /\ req' = [req EXCEPT ![r] = [phase |-> "querying", config |-> config,
                                          data |-> Nothing, clock |-> 0]]
            /\ UNCHANGED <<deployed, cache, lagging>>
        BY <3>2, <4>1 DEF Miss, Begins
      <4>3. \A t \in Requests : req'[t] = req[t] \/ req'[t].phase = "querying"
        BY <1>1, <4>2 DEF IInv
      <4>. QED  BY <1>1, <4>2, <4>3 DEF AllReal, MadeUp
    <3>. QED  BY <2>2, <3>1, <3>2
  <2>3. ASSUME NEW r \in Requests, QueryAnswers(r)
        PROVE  AllReal'
    <3>. DEFINE data == Summary(req[r].config, "aws_cost_explorer", req[r].clock)
    <3>1. data.source = "aws_cost_explorer"
      BY DEF Summary
    <3>2. req[r] \in Queries
      BY <1>1, <2>3, PhasesApart DEF QueryAnswers, IInv, RequestOK
    <3>3. req' = [req EXCEPT ![r] = [req[r] EXCEPT !.phase = "storing", !.data = data]]
      BY <2>3 DEF QueryAnswers
    <3>. HIDE DEF data
    <3>4. \A t \in Requests : IF t = r THEN req'[t].data = data ELSE req'[t] = req[t]
      BY <1>1, <3>2, <3>3 DEF IInv, Queries
    <3>. QED  BY <1>1, <2>3, <3>1, <3>4 DEF QueryAnswers, AllReal, MadeUp
  <2>4. ASSUME NEW r \in Requests, QueryFails(r) \/ Abandon(r)
        PROVE  AllReal'
    <3>1. \A t \in Requests : req'[t] = Idle \/ req'[t] = req[t]
      BY <1>1, <2>4 DEF QueryFails, Abandon, IInv
    <3>. QED  BY <1>1, <2>4, <3>1, NothingNewStored DEF QueryFails, Abandon
  <2>5. ASSUME NEW r \in Requests, Store(r)
        PROVE  AllReal'
    <3>1. \A t \in Requests : req'[t] = Idle \/ req'[t] = req[t]
      BY <1>1, <2>5 DEF Store, IInv
    <3>2. \A s \in Scopes : ~ MadeUp(cache'[s])
      <4>1. ~ MadeUp([data |-> req[r].data, left |-> TTL])
        BY <1>1, <2>5 DEF Store, AllReal, MadeUp
      <4>2. \A s \in Scopes : cache'[s] = [data |-> req[r].data, left |-> TTL]
                               \/ cache'[s] = cache[s]
        BY <1>1, <2>5 DEF Store, IInv
      <4>. QED  BY <1>1, <4>1, <4>2 DEF AllReal, MadeUp
    <3>. QED  BY <1>1, <2>5, <3>1, <3>2, NothingNewStored DEF Store
  <2>6. CASE \E s \in Scopes : Replicate(s)
    <3>1. PICK s \in Scopes : Replicate(s)
      BY <2>6
    <3>2. \A t \in Scopes : lagging'[t] = cache[t] \/ lagging'[t] = lagging[t]
      BY <1>1, <3>1 DEF Replicate, IInv
    <3>. QED  BY <1>1, <3>1, <3>2, NothingNewStored DEF Replicate, MadeUp
  <2>7. CASE Tick
    <3>1. \A s \in Scopes : ~ MadeUp(cache'[s]) /\ ~ MadeUp(lagging'[s])
      <4>1. \A s \in Scopes : /\ cache'[s] = OlderEntry(cache[s])
                              /\ lagging'[s] = OlderEntry(lagging[s])
        BY <2>7 DEF Tick
      <4>2. \A s \in Scopes : /\ ~ MadeUp(OlderEntry(cache[s]))
                              /\ ~ MadeUp(OlderEntry(lagging[s]))
        BY <1>1, OlderEntryMadeUp DEF IInv, AllReal
      <4>. QED  BY <4>1, <4>2 DEF MadeUp
    <3>2. ASSUME NEW r \in Requests, req'[r].phase = "storing"
          PROVE  req'[r].data.source # "local_fallback"
      <4>1. req[r].phase # "idle" /\ req'[r] = [req[r] EXCEPT !.data = Older(@), !.clock = @ + 1]
        BY <2>7, <3>2, PhasesApart DEF Tick
      <4>2. CASE req[r] \in Queries
        BY <3>2, <4>1, <4>2 DEF Queries
      <4>3. CASE req[r] \in Answers /\ req[r].data.age <= req[r].clock
        <5>1. req[r].data \in Data /\ req[r].data.age < MaxAge
          <6>1. req[r].data \in Data /\ req[r].data.age \in Nat
            BY <4>3 DEF Answers, Data
          <6>2. req[r].clock < MaxTime
            BY <2>7 DEF Tick
          <6>3. req[r].clock \in Nat
            BY <4>3, LifetimeAssumption DEF Answers
          <6>. QED  BY <4>3, <6>1, <6>2, <6>3, LifetimeAssumption DEF MaxAge
        <5>2. Older(req[r].data).source = req[r].data.source
          BY <5>1, OlderFacts
        <5>. DEFINE data == Older(req[r].data)
                    clock == req[r].clock + 1
        <5>. HIDE DEF data, clock
        <5>3. req'[r] = [req[r] EXCEPT !.data = data, !.clock = clock]
          BY <4>1 DEF data, clock
        <5>4. req'[r].data = data
          BY <4>3, <5>3 DEF Answers
        <5>. QED  BY <1>1, <4>3, <5>2, <5>4, PhasesApart DEF AllReal, data
      <4>. QED  BY <1>1, <4>1, <4>2, <4>3, PhasesApart DEF IInv, RequestOK
    <3>. QED  BY <1>1, <3>1, <3>2 DEF AllReal, MadeUp
  <2>8. CASE Deploy
    BY <1>1, <2>8, NothingNewStored DEF Deploy
  <2>9. CASE Reset
    <3>1. \A s \in Scopes : ~ MadeUp(cache'[s])
      BY <2>9 DEF Reset, MadeUp
    <3>. QED  BY <1>1, <2>9, <3>1, NothingNewStored DEF Reset
  <2>. QED  BY <1>1, <2>1, <2>2, <2>3, <2>4, <2>5, <2>6, <2>7, <2>8, <2>9 DEF Next, Serve
<1>. QED  BY <1>1, CacheInvariant, PTL DEF Spec, RealStaysReal

===========================================================================
