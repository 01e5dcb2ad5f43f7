-------------------------- MODULE EvidenceRefresh --------------------------
(***************************************************************************)
(* POST /incidents/{id}/evidence with its query to CloudWatch Logs         *)
(* Insights: refresh_evidence of services/api/app/incidents.py around      *)
(* CloudWatchIncidentAdapter of services/api/app/adapters.py.              *)
(*                                                                         *)
(* The handler loads the case, starts a query, polls it a bounded number   *)
(* of times with a pause in between, and only then decides on the copy it  *)
(* loaded and hands it to the conditional write.  Seconds pass from the    *)
(* load to the write.  The query runs at CloudWatch at its own pace, shows *)
(* rows before it is complete, and is never stopped: it goes on when the   *)
(* handler has given up or died.                                           *)
(*                                                                         *)
(* IncidentCase takes loading and deciding in one step.  Here they are     *)
(* apart, and RefreshTakesEffectAtOnce says why that is the same thing.    *)
(***************************************************************************)
EXTENDS CaseRecord

CONSTANTS
  Requests,    \* how many refreshes run at once
  Attempts,    \* AEGISDESK_CLOUDWATCH_QUERY_POLL_ATTEMPTS
  MaxQueries   \* bound: how many queries CloudWatch accepts in all

ASSUME PollingAssumption ==
  /\ Attempts \in Nat
  /\ MaxQueries \in Nat

VARIABLES
  case,     \* the stored item
  origin,   \* history: the query the stored evidence is from, 0 if none
  latest,   \* history: how the last refresh that was stored ended, None if none was
  req,      \* per slot, the refresh it runs
  queries,  \* queries at CloudWatch, numbered as they were started
  rows      \* queries with matching events among the rows they show so far

vars == <<case, origin, latest, req, queries, rows>>

QueryIds == 1..MaxQueries

Idle == [phase |-> "idle", seen |-> NewCase, query |-> 0, polls |-> 0, outcome |-> None]

RequestRecords == [phase : {"idle", "starting", "polling", "saving"},
                   seen : Cases, query : QueryIds \cup {0}, polls : Nat,
                   outcome : AllQueryOutcomes \cup {None}]

Init ==
  /\ case = Create
  /\ origin = 0
  /\ latest = None
  /\ req = [r \in Requests |-> Idle]
  /\ queries = [q \in QueryIds |-> "unused"]
  /\ rows = {}

---------------------------------------------------------------------------
(* The handler.                                                            *)

Load(r) ==
  /\ req[r].phase = "idle"
  /\ req' = [req EXCEPT ![r].phase = "starting", ![r].seen = case]
  /\ UNCHANGED <<case, origin, latest, queries, rows>>

\* lookup_context returns: the handler will want Draft(r) stored.
Decided(r, outcome) ==
  /\ req' = [req EXCEPT ![r].phase = "saving", ![r].polls = 0, ![r].outcome = outcome]
  /\ UNCHANGED <<case, origin, latest, queries, rows>>

Draft(r) == RefreshEvidence(req[r].seen, req[r].outcome)

\* start_query is accepted.
StartQuery(r) ==
  /\ req[r].phase = "starting"
  /\ \E q \in QueryIds :
       /\ queries[q] = "unused"
       /\ \A p \in 1..(q - 1) : queries[p] # "unused"
       /\ queries' = [queries EXCEPT ![q] = "Running"]
       /\ req' = [req EXCEPT ![r].phase = "polling", ![r].query = q]
  /\ UNCHANGED <<case, origin, latest, rows>>

\* This instance has no CloudWatch adapter or log group, or start_query raises.
StartFails(r) == req[r].phase = "starting" /\ Decided(r, "unavailable")

Result(q) == IF q \in rows THEN "events" ELSE "noEvents"

\* Fault for the checks: any rows at all are taken for the result.
PollTakingPartialRows(r) ==
  /\ req[r].phase = "polling"
  /\ queries[req[r].query] = "Complete" \/ req[r].query \in rows
  /\ Decided(r, Result(req[r].query))

PollComplete(r) ==
  /\ req[r].phase = "polling"
  /\ queries[req[r].query] = "Complete"
  /\ Decided(r, Result(req[r].query))

\* Fault for the checks: attempts are not counted.
PollAgainForever(r) ==
  /\ req[r].phase = "polling"
  /\ queries[req[r].query] = "Running"
  /\ UNCHANGED vars

\* Fault for the checks: one attempt too many.
PollOnceMore(r) ==
  /\ req[r].phase = "polling"
  /\ queries[req[r].query] = "Running"
  /\ req[r].polls < Attempts
  /\ req' = [req EXCEPT ![r].polls = @ + 1]
  /\ UNCHANGED <<case, origin, latest, queries, rows>>

\* Scheduled or running, and attempts are left: sleep.
PollAgain(r) ==
  /\ req[r].phase = "polling"
  /\ queries[req[r].query] = "Running"
  /\ req[r].polls + 1 < Attempts
  /\ req' = [req EXCEPT ![r].polls = @ + 1]
  /\ UNCHANGED <<case, origin, latest, queries, rows>>

\* Failed, cancelled or timed out at CloudWatch, or still running at the last
\* attempt.
PollGivesUp(r) ==
  /\ req[r].phase = "polling"
  /\ \/ queries[req[r].query] = "Failed"
     \/ queries[req[r].query] = "Running" /\ req[r].polls + 1 >= Attempts
  /\ Decided(r, "unavailable")

\* get_query_results raises, or the answer of start_query is lost.
CallRaises(r) == req[r].phase = "polling" /\ Decided(r, "unavailable")

\* Fault for the checks: a write that is not older than the loaded case.
VersionNotRegressed(r) == req[r].seen.version <= case.version

VersionUnchanged(r) == req[r].seen.version = case.version

Fits(r) == Draft(r).version <= Capacity

\* save_case succeeds; its answer may still be lost, which the client sees.
Save(r) ==
  /\ req[r].phase = "saving"
  /\ Fits(r) /\ VersionUnchanged(r)
  /\ case' = Draft(r)
  /\ origin' = IF req[r].outcome = "unavailable" THEN origin ELSE req[r].query
  /\ latest' = req[r].outcome
  /\ req' = [req EXCEPT ![r] = Idle]
  /\ UNCHANGED <<queries, rows>>

SaveRefused(r) ==
  /\ req[r].phase = "saving"
  /\ ~ (Fits(r) /\ VersionUnchanged(r))
  /\ req' = [req EXCEPT ![r] = Idle]
  /\ UNCHANGED <<case, origin, latest, queries, rows>>

\* The process dies or the Lambda times out.
Abandon(r) ==
  /\ req[r].phase # "idle"
  /\ req' = [req EXCEPT ![r] = Idle]
  /\ UNCHANGED <<case, origin, latest, queries, rows>>

---------------------------------------------------------------------------
(* CloudWatch, and the other handlers.                                     *)

RowsAppear(q) ==
  /\ queries[q] = "Running" /\ q \notin rows
  /\ rows' = rows \cup {q}
  /\ UNCHANGED <<case, origin, latest, req, queries>>

QueryEnds(q) ==
  /\ queries[q] = "Running"
  /\ \E status \in {"Complete", "Failed"} : queries' = [queries EXCEPT ![q] = status]
  /\ UNCHANGED <<case, origin, latest, req, rows>>

\* Any other handler's write; what it changes besides the version does not
\* matter to the evidence.
OtherWrite ==
  /\ case.version < Capacity
  /\ case' = AddNote(case)
  /\ UNCHANGED <<origin, latest, req, queries, rows>>

Continue(r) ==
  \/ StartQuery(r) \/ StartFails(r)
  \/ PollComplete(r) \/ PollAgain(r) \/ PollGivesUp(r)
  \/ Save(r) \/ SaveRefused(r)

Next ==
  \/ \E r \in Requests : Load(r) \/ Continue(r) \/ CallRaises(r) \/ Abandon(r)
  \/ \E q \in QueryIds : RowsAppear(q) \/ QueryEnds(q)
  \/ OtherWrite

\* A thread that is not killed goes on.  CloudWatch need not.
Fairness == \A r \in Requests : WF_vars(Continue(r))

Spec == Init /\ [][Next]_vars /\ Fairness

---------------------------------------------------------------------------
(* Properties.                                                             *)

\* Every variable keeps its shape; a query is polled no more often than
\* configured, and at least once.
TypeOK ==
  /\ case \in Cases
  /\ origin \in QueryIds \cup {0}
  /\ latest \in AllQueryOutcomes \cup {None}
  /\ req \in [Requests -> RequestRecords]
  /\ \A r \in Requests : req[r].polls < Attempts \/ req[r].polls = 0
  /\ queries \in [QueryIds -> {"unused", "Running", "Complete", "Failed"}]
  /\ rows \subseteq QueryIds

\* The state shown with the evidence says how the last refresh went and what
\* all of them have left behind: stale only if an earlier query delivered,
\* unavailable only if none ever did, empty only if the last query completed
\* without a match.  The exception is a new case, which create_case stores as
\* empty though nothing was asked yet; the workflow document knows no such
\* case (refresh_evidence, create_case).
EvidenceStateMatchesEvidence ==
  CASE case.evidenceState = "success"     -> latest = "events" /\ origin \in rows
    [] case.evidenceState = "stale"       -> latest = "unavailable" /\ origin # 0
    [] case.evidenceState = "unavailable" -> latest = "unavailable" /\ origin = 0
    [] case.evidenceState = "empty"       ->
         \/ latest = "noEvents" /\ origin \in QueryIds \ rows /\ queries[origin] = "Complete"
         \/ latest = None /\ origin = 0

\* Stored evidence is the whole result of a query that completed, never the
\* rows a running or failed one had shown, and "no events" is only said when
\* the query found none (the status checks of _poll_results).
StoredEvidenceIsComplete ==
  case.evidence # "none" =>
    /\ origin # 0
    /\ queries[origin] = "Complete"
    /\ case.evidence = Result(origin)

\* Evidence moves forward: what an earlier query found never replaces what
\* a later one found, though both refreshes ran at once and the later may
\* have ended first (the version the copy was loaded with).
EvidenceMovesForward == [][origin' >= origin]_origin

\* A refresh takes effect at once: each write is a refresh, or another
\* handler's step, of the case as it is then and not as it was when the
\* query started.  This is the atomic step IncidentCase and its proofs take.
RefreshTakesEffectAtOnce ==
  [][ \/ \E outcome \in AllQueryOutcomes : case' = RefreshEvidence(case, outcome)
      \/ case' = AddNote(case)
    ]_case

\* Every refresh ends, even if CloudWatch never finishes a query: no thread
\* polls for ever (the attempt limit of _poll_results).
RefreshEnds == \A r \in Requests : (req[r].phase # "idle") ~> (req[r].phase = "idle")

===========================================================================
