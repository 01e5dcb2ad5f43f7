----------------------------- MODULE CostCache -----------------------------
(***************************************************************************)
(* The cached cost summary of services/api/app/cost_explorer.py.           *)
(*                                                                         *)
(* get_cost_summary reads the cache, on a miss asks Cost Explorer or, with *)
(* Cost Explorer disabled, makes a summary up, and writes what it got over *)
(* whatever is cached by then, for the whole lifetime.  All instances      *)
(* share the cache.  The key names the scope that was asked for but not    *)
(* whether Cost Explorer was enabled, so instances of an old and a new     *)
(* configuration, side by side during a deployment, use the same entry.    *)
(*                                                                         *)
(* Time is counted in steps of the longest time a request may take: Tick.  *)
(* Data is as old as the time since it was asked for, an entry has left    *)
(* what remains of its lifetime.  An expired entry is never read again and *)
(* is shown as absent.  Amounts are left out; a scope stands for scope,    *)
(* tag key, tag value and period.                                          *)
(***************************************************************************)
EXTENDS Naturals, FiniteSets

CONSTANTS
  Scopes,     \* what the instances may be configured to report on
  Configs,    \* configurations instances are ever deployed with
  Requests,   \* how many cost requests are in flight at once
  TTL,        \* AEGISDESK_COST_CACHE_TTL_SECONDS, in ticks
  MaxTime,    \* ticks after which the platform ends a request
  Nothing     \* no entry, no data

ASSUME LifetimeAssumption ==
  /\ Configs \subseteq [enabled : BOOLEAN, scope : Scopes]
  /\ TTL \in Nat
  /\ MaxTime \in Nat \ {0}

VARIABLES
  deployed,  \* configurations of the running instances
  cache,     \* per key, the entry in the store
  lagging,   \* what an eventually consistent read may still return
  req        \* per slot, the request it runs

vars == <<deployed, cache, lagging, req>>

MaxAge == TTL + MaxTime

Data    == [source : {"aws_cost_explorer", "local_fallback"}, scope : Scopes, age : 0..MaxAge]
Entries == [data : Data, left : 0..TTL]

ASSUME NothingAssumption == Nothing \notin Data

\* The idle record keeps no configuration.
Idle == [phase |-> "idle", config |-> Nothing, data |-> Nothing, clock |-> 0]

Init ==
  /\ \E config \in Configs : deployed = {config}
  /\ cache = [s \in Scopes |-> Nothing]
  /\ lagging = [s \in Scopes |-> Nothing]
  /\ req = [r \in Requests |-> Idle]

---------------------------------------------------------------------------

CacheKey(config) == config.scope

Readable(config) == {cache[CacheKey(config)], lagging[CacheKey(config)]}

Summary(config, source, age) == [source |-> source, scope |-> config.scope, age |-> age]

Begins(r, config, phase, data) ==
  /\ req' = [req EXCEPT ![r] = [phase |-> phase, config |-> config, data |-> data, clock |-> 0]]
  /\ UNCHANGED <<deployed, cache, lagging>>

\* Fault for the checks: a hit renews the lifetime.
HitRenewing(r, config) ==
  /\ req[r].phase = "idle"
  /\ \E entry \in Readable(config) \ {Nothing} :
       cache' = [cache EXCEPT ![CacheKey(config)] = [entry EXCEPT !.left = TTL]]
  /\ UNCHANGED <<deployed, lagging, req>>

\* An entry is found that has not expired: it is returned whatever made it.
Hit(r, config) ==
  /\ req[r].phase = "idle"
  /\ Readable(config) # {Nothing}
  /\ UNCHANGED vars

Miss(r, config) ==
  /\ req[r].phase = "idle"
  /\ Nothing \in Readable(config)
  /\ IF config.enabled
     THEN Begins(r, config, "querying", Nothing)
     ELSE Begins(r, config, "storing", Summary(config, "local_fallback", 0))

\* _query_cost_explorer returns, with what was spent when it asked.
QueryAnswers(r) ==
  /\ req[r].phase = "querying"
  /\ req' = [req EXCEPT ![r].phase = "storing",
                        ![r].data = Summary(req[r].config, "aws_cost_explorer", req[r].clock)]
  /\ UNCHANGED <<deployed, cache, lagging>>

\* CostExplorerUnavailable: nothing is cached, the tool call is blocked.
QueryFails(r) ==
  /\ req[r].phase = "querying"
  /\ req' = [req EXCEPT ![r] = Idle]
  /\ UNCHANGED <<deployed, cache, lagging>>

\* Fault for the checks: the lifetime is one unit too long.
StoreTooLong(r) ==
  /\ req[r].phase = "storing"
  /\ cache' = [cache EXCEPT ![CacheKey(req[r].config)] =
                 [data |-> req[r].data, left |-> TTL + 1]]
  /\ req' = [req EXCEPT ![r] = Idle]
  /\ UNCHANGED <<deployed, lagging>>

\* set_cache has no condition: an older answer may replace a newer one.
Store(r) ==
  /\ req[r].phase = "storing"
  /\ cache' = [cache EXCEPT ![CacheKey(req[r].config)] =
                 [data |-> req[r].data, left |-> TTL]]
  /\ req' = [req EXCEPT ![r] = Idle]
  /\ UNCHANGED <<deployed, lagging>>

\* The process dies, or the store raises.
Abandon(r) ==
  /\ req[r].phase # "idle"
  /\ req' = [req EXCEPT ![r] = Idle]
  /\ UNCHANGED <<deployed, cache, lagging>>

---------------------------------------------------------------------------

\* The platform ends a request that has run for MaxTime.
TimeOut(r) == req[r].clock = MaxTime /\ Abandon(r)

Older(data) == IF data = Nothing THEN Nothing ELSE [data EXCEPT !.age = @ + 1]

MadeUp(entry) == entry # Nothing /\ entry.data.source = "local_fallback"

\* Fault for the checks: the cache_ttl_seconds of 0 that a made-up summary
\* carries is taken for an unlimited lifetime.
OlderUnlessMadeUp(entry) ==
  IF MadeUp(entry) THEN entry
  ELSE IF entry = Nothing \/ entry.left = 0 THEN Nothing
  ELSE [data |-> Older(entry.data), left |-> entry.left - 1]

\* get_cache still returns an entry in the second in which it expires.
OlderEntry(entry) ==
  IF entry = Nothing \/ entry.left = 0 THEN Nothing
  ELSE [data |-> Older(entry.data), left |-> entry.left - 1]

Tick ==
  /\ \A r \in Requests : req[r].clock < MaxTime
  /\ cache' = [s \in Scopes |-> OlderEntry(cache[s])]
  /\ lagging' = [s \in Scopes |-> OlderEntry(lagging[s])]
  /\ req' = [r \in Requests |->
               IF req[r].phase = "idle" THEN Idle
               ELSE [req[r] EXCEPT !.data = Older(@), !.clock = @ + 1]]
  /\ UNCHANGED deployed

Replicate(s) ==
  /\ lagging[s] # cache[s]
  /\ lagging' = [lagging EXCEPT ![s] = cache[s]]
  /\ UNCHANGED <<deployed, cache, req>>

\* A deployment starts instances of a new configuration, and then stops
\* routing requests to those of the old one.
Deploy ==
  /\ \/ /\ Cardinality(deployed) = 1
        /\ \E config \in Configs : deployed' = deployed \cup {config}
     \/ \E config \in deployed : deployed' = {config}
  /\ deployed' # deployed
  /\ UNCHANGED <<cache, lagging, req>>

\* An administrator's reset.
Reset ==
  /\ cache' = [s \in Scopes |-> Nothing]
  /\ cache' # cache
  /\ UNCHANGED <<deployed, lagging, req>>

Serve(r) ==
  \/ \E config \in deployed : Hit(r, config) \/ Miss(r, config)
  \/ QueryAnswers(r) \/ QueryFails(r) \/ Store(r) \/ Abandon(r)

Next ==
  \/ \E r \in Requests : Serve(r)
  \/ \E s \in Scopes : Replicate(s)
  \/ Tick \/ Deploy \/ Reset

\* Time passes, the platform ends what has run too long, and DynamoDB's reads
\* catch up.  Nothing makes a client ask or Cost Explorer answer.
Fairness ==
  /\ WF_vars(Tick)
  /\ \A r \in Requests : WF_vars(TimeOut(r))
  /\ \A s \in Scopes : WF_vars(Replicate(s))

Spec == Init /\ [][Next]_vars /\ Fairness

---------------------------------------------------------------------------
(* Properties.                                                             *)

\* Every variable keeps its shape; in particular nothing in the store or on
\* its way there is older than the bound on what is served.
TypeOK ==
  /\ deployed \subseteq Configs /\ deployed # {}
  /\ cache \in [Scopes -> Entries \cup {Nothing}]
  /\ lagging \in [Scopes -> Entries \cup {Nothing}]
  /\ \A r \in Requests :
       \/ req[r] = Idle
       \/ req[r] \in [phase : {"querying", "storing"}, config : Configs,
                      data : Data \cup {Nothing}, clock : 0..MaxTime]

\* What may still be read is never older than its lifetime and the time of one
\* request, and the two add up, in the table and in every lagging copy,
\* although requests that missed together overwrite each other's entries and
\* clients keep reading them (set_cache's expiry, get_cache's check).
LifetimeIsSpentOnce ==
  \A s \in Scopes : \A entry \in {cache[s], lagging[s]} \ {Nothing} :
    entry.data.age + entry.left \in TTL..(TTL + MaxTime)

\* Once every instance has Cost Explorer enabled for good, the summary made
\* up by an earlier configuration disappears from the cache for good, even if
\* clients keep reading it (get_cost_summary caches it like a real one).
FallbackFades ==
  <>[](\A config \in deployed : config.enabled)
    => <>[](\A s \in Scopes : ~ MadeUp(cache[s]) /\ ~ MadeUp(lagging[s]))

===========================================================================
