------------------------------- MODULE Quota -------------------------------
(***************************************************************************)
(* The daily request quota of one role in one team.  process_chat reads    *)
(* the counter, asks the policy whether it is below the limit, and then    *)
(* increments it; nothing holds the counter in between, and each of the    *)
(* two calls computes the day anew for its key.                            *)
(*                                                                         *)
(* SQLite reads the last value written.  DynamoDB's get_item is eventually *)
(* consistent: a read may miss the last increments, MaxLag of them.  Its   *)
(* ADD is not idempotent: when a response is lost the SDK sends it again.  *)
(***************************************************************************)
EXTENDS Integers, FiniteSets

CONSTANTS
  Limit,     \* QUOTA_LIMITS_BY_ROLE of the role: 25, 50 or 100
  Requests,  \* how many requests run at once
  MaxLag,    \* increments a read may miss: 0 for SQLite
  Resends,   \* whether an increment may be sent again: FALSE for SQLite
  LastDay,   \* bound: the days 0..LastDay are explored
  MaxCount   \* bound: increments per day that are explored

ASSUME QuotaAssumption ==
  /\ Limit \in Nat \ {0}
  /\ Resends \in BOOLEAN
  /\ MaxLag \in Nat /\ LastDay \in Nat /\ MaxCount \in Nat
  /\ IsFiniteSet(Requests) /\ Requests # {}

VARIABLES
  today,
  count,    \* per day, the counter in the store
  phase,    \* per request: idle, or allowed by the policy
  served    \* history: per day since the last reset, requests let through

vars == <<today, count, phase, served>>

Days == 0 .. LastDay

Init ==
  /\ today = 0
  /\ count = [d \in Days |-> 0]
  /\ phase = [r \in Requests |-> "idle"]
  /\ served = [d \in Days |-> 0]

\* What quota_count can return.  After a reset it may also return more than
\* the counter holds, which only denies.
Readable == { n \in 0 .. count[today] : count[today] <= n + MaxLag }

\* Fault for the checks: the limit itself still counts as below the limit.
AllowedAtLimit(n) == n <= Limit

\* evaluate_quota_policy, and the Rego rule alike.
Allowed(n) == n < Limit

\* quota_count and the policy's answer "allow"; a denial changes nothing.
Check(r) ==
  /\ phase[r] = "idle"
  /\ \E n \in Readable : Allowed(n)
  /\ phase' = [phase EXCEPT ![r] = "allowed"]
  /\ UNCHANGED <<today, count, served>>

\* increment_quota, applied once, or twice by the SDK's retry; then the
\* request goes on to redaction, model and tools.
Increment(r) ==
  /\ phase[r] = "allowed"
  /\ \E n \in IF Resends THEN {1, 2} ELSE {1} :
       /\ count[today] + n <= MaxCount
       /\ count' = [count EXCEPT ![today] = @ + n]
  /\ served' = [served EXCEPT ![today] = @ + 1]
  /\ phase' = [phase EXCEPT ![r] = "idle"]
  /\ UNCHANGED today

\* The increment is applied and the request dies before it goes on.
IncrementInVain(r) ==
  /\ phase[r] = "allowed"
  /\ count[today] < MaxCount
  /\ count' = [count EXCEPT ![today] = @ + 1]
  /\ phase' = [phase EXCEPT ![r] = "idle"]
  /\ UNCHANGED <<today, served>>

Abandon(r) ==
  /\ phase[r] = "allowed"
  /\ phase' = [phase EXCEPT ![r] = "idle"]
  /\ UNCHANGED <<today, count, served>>

\* Midnight, UTC: _quota_key names another counter, even for a request that
\* was allowed by yesterday's.
NewDay ==
  /\ today < LastDay
  /\ today' = today + 1
  /\ UNCHANGED <<count, phase, served>>

\* POST /admin/reset deletes the counters.
Reset ==
  /\ count' = [d \in Days |-> 0]
  /\ served' = [d \in Days |-> 0]
  /\ UNCHANGED <<today, phase>>

Next ==
  \/ NewDay \/ Reset
  \/ \E r \in Requests : Check(r) \/ Increment(r) \/ IncrementInVain(r) \/ Abandon(r)

Spec == Init /\ [][Next]_vars

---------------------------------------------------------------------------
(* Properties.                                                             *)

\* The variables keep their shape.
TypeOK ==
  /\ today \in Days
  /\ count \in [Days -> Nat]
  /\ phase \in [Requests -> {"idle", "allowed"}]
  /\ served \in [Days -> Nat]

Excess == MaxLag + Cardinality(Requests) - 1

\* A day's limit is exceeded by at most the increments a read misses and the
\* requests that run at the same time but one, across midnight, resets, lost
\* and repeated increments (the separate read, decision and increment of
\* process_chat).  It is weaker than docs/architecture/system-architecture.md:162,
\* "Per-role/team quota counters are enforced before model or tool execution".
AdmissionBounded == \A d \in Days : served[d] <= Limit + Excess

===========================================================================
