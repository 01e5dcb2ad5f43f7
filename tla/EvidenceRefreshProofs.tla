----------------------- MODULE EvidenceRefreshProofs -----------------------
(***************************************************************************)
(* A slow refresh and the case it ends up in, for any number of refreshes, *)
(* polls and queries.  What is written was decided on a copy that may be   *)
(* seconds old; the invariant says what the version still proves about it: *)
(* a copy with the stored version is the stored case, and the query was    *)
(* started later than any whose result is stored.                          *)
(***************************************************************************)
EXTENDS EvidenceRefresh, TLAPS

\* What is kept of a request x that runs or waits in a slot.
CopyCurrentOrStale(x) ==
  x.phase # "idle" =>
    /\ x.seen.version <= case.version
    /\ x.seen.version = case.version => x.seen = case

QueryIsNewer(x) ==
  /\ x.phase \in {"idle", "starting"} => x.query = 0
  /\ x.phase = "polling" => x.query # 0
  /\ x.query # 0 =>
       /\ queries[x.query] # "unused"
       /\ x.seen.version = case.version => origin < x.query

OutcomeIsResult(x) ==
  x.phase = "saving" =>
    /\ x.outcome \in AllQueryOutcomes
    /\ x.outcome # "unavailable" =>
         /\ x.query # 0
         /\ queries[x.query] = "Complete"
         /\ x.outcome = Result(x.query)

PollsLeft(x) == x.polls < Attempts \/ x.polls = 0

RequestOK(x) ==
  /\ x \in RequestRecords
  /\ PollsLeft(x)
  /\ CopyCurrentOrStale(x)
  /\ QueryIsNewer(x)
  /\ OutcomeIsResult(x)

\* Queries are started in the order of their numbers.
StartedInOrder ==
  \A q \in QueryIds : queries[q] # "unused" => \A p \in 1..(q - 1) : queries[p] # "unused"

OriginCompleted ==
  /\ origin # 0 => queries[origin] = "Complete"
  /\ origin = 0 <=> case.evidence = "none"

\* The store and CloudWatch.
StoreInv ==
  /\ case \in Cases
  /\ origin \in QueryIds \cup {0}
  /\ latest \in AllQueryOutcomes \cup {None}
  /\ queries \in [QueryIds -> {"unused", "Running", "Complete", "Failed"}]
  /\ rows \subseteq QueryIds
  /\ StartedInOrder
  /\ OriginCompleted
  /\ EvidenceStateMatchesEvidence
  /\ StoredEvidenceIsComplete

RequestsInv ==
  /\ req \in [Requests -> RequestRecords]
  /\ \A r \in Requests : RequestOK(req[r])

IInv == StoreInv /\ RequestsInv

---------------------------------------------------------------------------
(* Lemmas.                                                                 *)

\* What create_case stores is well formed and carries no evidence.
LEMMA CreateFacts ==
  /\ NewCase \in Cases
  /\ Create \in Cases
  /\ Create.version = 1
  /\ Create.evidence = "none"
  /\ Create.evidenceState = "empty"
<1>1. NoAction \in Actions
  BY DEF NoAction, Actions, States
<1>2. NewCase \in Cases
  BY <1>1 DEF NewCase, Cases, Statuses
<1> QED  BY <1>1, <1>2 DEF Create, Stamped, NewCase, Cases, Statuses

\* persist changes the version and nothing else.
LEMMA StampedFacts ==
  ASSUME NEW c \in Cases
  PROVE  /\ Stamped(c) \in Cases
         /\ Stamped(c).version = c.version + 1
         /\ Stamped(c).evidence = c.evidence
         /\ Stamped(c).evidenceState = c.evidenceState
BY DEF Stamped, Cases

\* refresh_evidence field by field, for every outcome of a query.
LEMMA RefreshedFacts ==
  ASSUME NEW c \in Cases, NEW outcome \in AllQueryOutcomes
  PROVE  /\ RefreshEvidence(c, outcome) \in Cases
         /\ RefreshEvidence(c, outcome).version = c.version + 1
         /\ outcome = "unavailable" =>
              /\ RefreshEvidence(c, outcome).evidence = c.evidence
              /\ RefreshEvidence(c, outcome).evidenceState =
                   IF c.evidence = "none" THEN "unavailable" ELSE "stale"
         /\ outcome # "unavailable" =>
              /\ RefreshEvidence(c, outcome).evidence = outcome
              /\ RefreshEvidence(c, outcome).evidenceState =
                   IF outcome = "events" THEN "success" ELSE "empty"
<1> DEFINE lost  == [c EXCEPT !.evidenceState = IF c.evidence = "none" THEN "unavailable" ELSE "stale"]
           found == [c EXCEPT !.evidence = outcome,
                              !.evidenceState = IF outcome = "events" THEN "success" ELSE "empty"]
<1>1. /\ lost \in Cases /\ lost.version = c.version /\ lost.evidence = c.evidence
      /\ lost.evidenceState = IF c.evidence = "none" THEN "unavailable" ELSE "stale"
  BY DEF Cases
<1>2. ASSUME outcome # "unavailable"
      PROVE  /\ found \in Cases /\ found.version = c.version /\ found.evidence = outcome
             /\ found.evidenceState = IF outcome = "events" THEN "success" ELSE "empty"
  BY <1>2 DEF Cases, AllQueryOutcomes
<1>3. RefreshEvidence(c, outcome) = Stamped(IF outcome = "unavailable" THEN lost ELSE found)
  BY DEF RefreshEvidence
<1> HIDE DEF lost, found
<1>4. CASE outcome = "unavailable"
  BY <1>1, <1>3, <1>4, StampedFacts
<1>5. CASE outcome # "unavailable"
  BY <1>2, <1>3, <1>5, StampedFacts
<1> QED  BY <1>4, <1>5

\* A step of one request that leaves store and queries alone.
LEMMA OneRequestKeeps ==
  ASSUME IInv, NEW r \in Requests, NEW x, RequestOK(x), req' = [req EXCEPT ![r] = x],
         UNCHANGED <<case, origin, latest, queries, rows>>
  PROVE  IInv'
<1>1. StoreInv'
  BY DEF IInv, StoreInv, StartedInOrder, OriginCompleted, EvidenceStateMatchesEvidence,
         StoredEvidenceIsComplete, Result
<1>2. \A s \in Requests : req'[s] = IF s = r THEN x ELSE req[s]
  BY DEF IInv, RequestsInv
<1>3. \A s \in Requests : RequestOK(req'[s])
  BY <1>2 DEF IInv, RequestsInv
<1>4. \A s \in Requests : RequestOK(req[s])'
  BY <1>3 DEF RequestOK, PollsLeft, CopyCurrentOrStale, QueryIsNewer, OutcomeIsResult, Result
<1>5. req' \in [Requests -> RequestRecords]
  BY DEF IInv, RequestsInv, RequestOK
<1> QED  BY <1>1, <1>4, <1>5 DEF IInv, RequestsInv

\* A slot that is given back.
LEMMA IdleIsOK == RequestOK(Idle) /\ NewCase \in Cases
<1>1. NewCase \in Cases
  BY CreateFacts
<1>2. Idle \in RequestRecords
  BY <1>1 DEF Idle, RequestRecords
<1> QED  BY <1>1, <1>2 DEF RequestOK, Idle, PollsLeft, CopyCurrentOrStale, QueryIsNewer, OutcomeIsResult

\* A request that ends without a write.
LEMMA EndsKeeps ==
  ASSUME IInv, NEW r \in Requests, req' = [req EXCEPT ![r] = Idle],
         UNCHANGED <<case, origin, latest, queries, rows>>
  PROVE  IInv'
BY IdleIsOK, OneRequestKeeps

\* A lookup that is over, and has failed or found what its query did.
LEMMA DecidedKeeps ==
  ASSUME IInv, NEW r \in Requests, req[r].phase # "idle", NEW outcome \in AllQueryOutcomes,
         \/ outcome = "unavailable"
         \/ /\ req[r].query # 0
            /\ queries[req[r].query] = "Complete"
            /\ outcome = Result(req[r].query),
         Decided(r, outcome)
  PROVE  IInv'
<1> DEFINE x == [req[r] EXCEPT !.phase = "saving", !.polls = 0, !.outcome = outcome]
<1>1. req[r] \in RequestRecords /\ RequestOK(req[r])
  BY DEF IInv, RequestsInv
<1>2. /\ x \in RequestRecords
      /\ x.phase = "saving" /\ x.polls = 0 /\ x.outcome = outcome
      /\ x.seen = req[r].seen /\ x.query = req[r].query
  BY <1>1 DEF RequestRecords
<1>3. req' = [req EXCEPT ![r] = x] /\ UNCHANGED <<case, origin, latest, queries, rows>>
  BY DEF Decided
<1> HIDE DEF x
<1>4. RequestOK(x)
  BY <1>1, <1>2 DEF RequestOK, PollsLeft, CopyCurrentOrStale, QueryIsNewer, OutcomeIsResult
<1> QED  BY <1>3, <1>4, OneRequestKeeps

---------------------------------------------------------------------------
(* The induction.                                                          *)

LEMMA InitIInv == Init => IInv
<1> SUFFICES ASSUME Init PROVE IInv
  OBVIOUS
<1>1. Create \in Cases /\ Create.evidence = "none" /\ Create.evidenceState = "empty"
  BY CreateFacts
<1>2. StoreInv
  BY <1>1, PollingAssumption
     DEF Init, StoreInv, StartedInOrder, OriginCompleted, EvidenceStateMatchesEvidence,
         StoredEvidenceIsComplete, QueryIds
<1>3. RequestsInv
  BY IdleIsOK DEF Init, RequestsInv, RequestOK
<1> QED  BY <1>2, <1>3 DEF IInv

LEMMA LoadKeeps ==
  ASSUME IInv, NEW r \in Requests, Load(r)
  PROVE  IInv'
<1> DEFINE x == [req[r] EXCEPT !.phase = "starting", !.seen = case]
<1>1. req[r] \in RequestRecords /\ RequestOK(req[r]) /\ case \in Cases
  BY DEF IInv, RequestsInv, StoreInv
<1>2. /\ x \in RequestRecords
      /\ x.phase = "starting" /\ x.seen = case
      /\ x.polls = req[r].polls /\ x.query = req[r].query /\ x.outcome = req[r].outcome
  BY <1>1 DEF RequestRecords
<1>3. req[r].query = 0 /\ PollsLeft(req[r])
  BY <1>1 DEF Load, RequestOK, QueryIsNewer
<1>4. req' = [req EXCEPT ![r] = x] /\ UNCHANGED <<case, origin, latest, queries, rows>>
  BY DEF Load
<1> HIDE DEF x
<1>5. RequestOK(x)
  BY <1>1, <1>2, <1>3 DEF RequestOK, PollsLeft, CopyCurrentOrStale, QueryIsNewer, OutcomeIsResult, Cases
<1> QED  BY <1>4, <1>5, OneRequestKeeps

\* The new query has a higher number than every one that was started, and so
\* than the one whose result is stored.
LEMMA StartQueryKeeps ==
  ASSUME IInv, NEW r \in Requests, StartQuery(r)
  PROVE  IInv'
<1>1. PICK q \in QueryIds :
        /\ queries[q] = "unused"
        /\ \A p \in 1..(q - 1) : queries[p] # "unused"
        /\ queries' = [queries EXCEPT ![q] = "Running"]
        /\ req' = [req EXCEPT ![r].phase = "polling", ![r].query = q]
  BY DEF StartQuery
<1> DEFINE x == [req[r] EXCEPT !.phase = "polling", !.query = q]
<1>2. /\ req[r] \in RequestRecords /\ RequestOK(req[r])
      /\ req[r].phase = "starting"
      /\ QueryIds \subseteq Nat \ {0} /\ origin \in QueryIds \cup {0}
  BY PollingAssumption DEF IInv, RequestsInv, StartQuery, QueryIds, StoreInv
<1>3. /\ x \in RequestRecords
      /\ x.phase = "polling" /\ x.query = q /\ x.seen = req[r].seen
      /\ x.polls = req[r].polls
  BY <1>2 DEF RequestRecords
<1>4. req' = [req EXCEPT ![r] = x]
  BY <1>1
<1>5. /\ queries' \in [QueryIds -> {"unused", "Running", "Complete", "Failed"}]
      /\ queries'[q] = "Running"
      /\ \A p \in QueryIds \ {q} : queries'[p] = queries[p]
  BY <1>1 DEF IInv, StoreInv
<1>6. origin < q
  <2>1. CASE origin = 0
    BY <1>2, <2>1
  <2>2. CASE origin # 0
    <3>1. origin \in QueryIds /\ queries[origin] = "Complete"
      BY <1>2, <2>2 DEF IInv, StoreInv, OriginCompleted
    <3>2. origin # q /\ q \notin 1..(origin - 1)
      BY <1>1, <3>1 DEF IInv, StoreInv, StartedInOrder
    <3> QED  BY <1>2, <3>1, <3>2
  <2> QED  BY <2>1, <2>2
<1> HIDE DEF x
<1>7. UNCHANGED <<case, origin, latest, rows>>
  BY DEF StartQuery
<1>8. StoreInv'
  <2>1. StartedInOrder'
    <3>1. \A p \in QueryIds : \A s \in 1..(p - 1) : s \in QueryIds
      BY PollingAssumption DEF QueryIds
    <3>2. ASSUME NEW p \in QueryIds, queries'[p] # "unused", NEW s \in 1..(p - 1)
          PROVE  queries'[s] # "unused"
      <4>1. s \in QueryIds
        BY <3>1, <3>2
      <4>2. CASE s = q
        BY <1>5, <4>2
      <4>3. CASE s # q /\ p = q
        BY <1>1, <1>5, <3>2, <4>1, <4>3
      <4>4. CASE s # q /\ p # q
        BY <1>5, <3>2, <4>1, <4>4 DEF IInv, StoreInv, StartedInOrder
      <4> QED  BY <4>2, <4>3, <4>4
    <3> QED  BY <3>2 DEF StartedInOrder
  <2>2. OriginCompleted' /\ EvidenceStateMatchesEvidence' /\ StoredEvidenceIsComplete'
    <3>1. origin # 0 => queries'[origin] = "Complete"
      BY <1>2, <1>5, <1>6 DEF IInv, StoreInv, OriginCompleted
    <3>2. 0 \notin QueryIds
      BY PollingAssumption DEF QueryIds
    <3>3. EvidenceStateMatchesEvidence'
      <4>1. /\ case' = case /\ origin' = origin /\ latest' = latest /\ rows' = rows
            /\ origin \in QueryIds => queries'[origin] = "Complete"
        BY <1>7, <3>1, <3>2
      <4>2. /\ EvidenceStateMatchesEvidence
            /\ case.evidenceState \in {"empty", "unavailable", "stale", "success"}
        BY DEF IInv, StoreInv, Cases
      <4> QED  BY <4>1, <4>2 DEF EvidenceStateMatchesEvidence
    <3> QED  BY <1>7, <3>1, <3>3 DEF IInv, StoreInv, OriginCompleted,
                             StoredEvidenceIsComplete, Result
  <2> QED  BY <1>5, <1>7, <2>1, <2>2 DEF IInv, StoreInv
<1>9. RequestsInv'
  <2>1. \A s \in Requests : req'[s] = IF s = r THEN x ELSE req[s]
    BY <1>4 DEF IInv, RequestsInv
  <2>2. RequestOK(req[r])'
    <3>1. req'[r] = x
      BY <2>1
    <3> QED  BY <1>2, <1>3, <1>5, <1>6, <1>7, <3>1
             DEF RequestOK, PollsLeft, CopyCurrentOrStale, QueryIsNewer, OutcomeIsResult
  <2>3. ASSUME NEW s \in Requests \ {r}
        PROVE  RequestOK(req[s])'
    <3>1. RequestOK(req[s]) /\ req'[s] = req[s] /\ req[s].query \in QueryIds \cup {0}
      BY <2>1 DEF IInv, RequestsInv, RequestRecords
    <3>2. req[s].query # 0 => req[s].query # q
      BY <1>1, <3>1 DEF RequestOK, QueryIsNewer
    <3> QED  BY <1>5, <1>7, <3>1, <3>2
             DEF RequestOK, PollsLeft, CopyCurrentOrStale, QueryIsNewer, OutcomeIsResult, Result
  <2>4. req' \in [Requests -> RequestRecords]
    BY <1>3, <1>4 DEF IInv, RequestsInv
  <2> QED  BY <2>2, <2>3, <2>4 DEF RequestsInv
<1> QED  BY <1>8, <1>9 DEF IInv

\* A lookup ends in failure or with the result of a query that completed.
LEMMA LookupEndsKeeps ==
  ASSUME IInv, NEW r \in Requests,
         StartFails(r) \/ PollComplete(r) \/ PollGivesUp(r) \/ CallRaises(r)
  PROVE  IInv'
<1>1. "unavailable" \in AllQueryOutcomes /\ \A q : Result(q) \in AllQueryOutcomes
  BY DEF AllQueryOutcomes, Result
<1>2. CASE StartFails(r)
  BY <1>1, <1>2, DecidedKeeps DEF StartFails
<1>3. CASE PollComplete(r)
  <2>1. req[r].query # 0
    BY <1>3 DEF PollComplete, IInv, RequestsInv, RequestOK, QueryIsNewer
  <2> QED  BY <1>1, <1>3, <2>1, DecidedKeeps DEF PollComplete
<1>4. CASE PollGivesUp(r)
  BY <1>1, <1>4, DecidedKeeps DEF PollGivesUp
<1>5. CASE CallRaises(r)
  BY <1>1, <1>5, DecidedKeeps DEF CallRaises
<1> QED  BY <1>2, <1>3, <1>4, <1>5

LEMMA PollAgainKeeps ==
  ASSUME IInv, NEW r \in Requests, PollAgain(r)
  PROVE  IInv'
<1> DEFINE x == [req[r] EXCEPT !.polls = @ + 1]
<1>1. req[r] \in RequestRecords /\ RequestOK(req[r]) /\ req[r].polls \in Nat
  BY DEF IInv, RequestsInv, RequestRecords
<1>2. /\ x \in RequestRecords
      /\ x.phase = req[r].phase /\ x.seen = req[r].seen /\ x.query = req[r].query
      /\ x.outcome = req[r].outcome /\ x.polls = req[r].polls + 1
  BY <1>1 DEF RequestRecords
<1>3. /\ req' = [req EXCEPT ![r] = x] /\ UNCHANGED <<case, origin, latest, queries, rows>>
      /\ x.polls < Attempts
  BY <1>2 DEF PollAgain
<1> HIDE DEF x
<1>4. RequestOK(x)
  BY <1>1, <1>2, <1>3 DEF RequestOK, PollsLeft, CopyCurrentOrStale, QueryIsNewer, OutcomeIsResult
<1> QED  BY <1>3, <1>4, OneRequestKeeps

\* A write moves the version past every copy that was loaded before it, and
\* the requests that did not make it know nothing of the stored case any more.
LEMMA OthersAfterWrite ==
  ASSUME IInv, case' \in Cases, case'.version = case.version + 1, queries' = queries, rows' = rows,
         req' \in [Requests -> RequestRecords],
         \A s \in Requests : req'[s] = req[s] \/ req'[s] = Idle
  PROVE  RequestsInv'
<1>1. SUFFICES ASSUME NEW s \in Requests
               PROVE  RequestOK(req[s])'
  BY DEF RequestsInv
<1>2. CASE req'[s] = Idle
  BY <1>1, <1>2, IdleIsOK
     DEF RequestOK, Idle, PollsLeft, CopyCurrentOrStale, QueryIsNewer, OutcomeIsResult
<1>3. CASE req'[s] = req[s]
  <2>1. RequestOK(req[s]) /\ req[s].seen.version \in Nat /\ case.version \in Nat
    BY DEF IInv, RequestsInv, RequestRecords, StoreInv, Cases
  <2>2. req[s].phase # "idle" =>
          req[s].seen.version <= case'.version /\ req[s].seen.version # case'.version
    BY <2>1 DEF RequestOK, CopyCurrentOrStale
  <2>3. req[s].query # 0 => req[s].phase # "idle"
    BY <2>1 DEF RequestOK, QueryIsNewer
  <2> QED  BY <1>3, <2>1, <2>2, <2>3
           DEF RequestOK, PollsLeft, CopyCurrentOrStale, QueryIsNewer, OutcomeIsResult, Result
<1> QED  BY <1>1, <1>2, <1>3 DEF IInv, RequestsInv

\* What a refresh that is stored does: it is one of the stored case, and its
\* query is newer than the one whose result it replaces.
LEMMA SaveIsAtomic ==
  ASSUME IInv, NEW r \in Requests, Save(r)
  PROVE  /\ req[r].outcome \in AllQueryOutcomes
         /\ case' = RefreshEvidence(case, req[r].outcome)
         /\ IF req[r].outcome = "unavailable" THEN origin' = origin
            ELSE /\ origin' = req[r].query
                 /\ origin' \in QueryIds
                 /\ origin < origin'
                 /\ queries[origin'] = "Complete"
                 /\ req[r].outcome = Result(origin')
<1>1. RequestOK(req[r]) /\ req[r].phase = "saving"
  BY DEF IInv, RequestsInv, Save
<1>2. req[r].seen = case
  BY <1>1 DEF Save, VersionUnchanged, RequestOK, CopyCurrentOrStale
<1>3. /\ req[r].outcome \in AllQueryOutcomes
      /\ req[r].outcome # "unavailable" =>
           /\ req[r].query \in QueryIds
           /\ queries[req[r].query] = "Complete"
           /\ req[r].outcome = Result(req[r].query)
           /\ origin < req[r].query
  BY <1>1, <1>2 DEF RequestOK, OutcomeIsResult, QueryIsNewer, RequestRecords
<1> QED  BY <1>2, <1>3 DEF Save, Draft

LEMMA SaveKeeps ==
  ASSUME IInv, NEW r \in Requests, Save(r)
  PROVE  IInv'
<1> DEFINE outcome == req[r].outcome
<1>1. case \in Cases /\ outcome \in AllQueryOutcomes /\ case' = RefreshEvidence(case, outcome)
  BY SaveIsAtomic DEF IInv, StoreInv
<1>2. /\ case' \in Cases /\ case'.version = case.version + 1
      /\ outcome = "unavailable" =>
           /\ case'.evidence = case.evidence
           /\ case'.evidenceState = IF case.evidence = "none" THEN "unavailable" ELSE "stale"
      /\ outcome # "unavailable" =>
           /\ case'.evidence = outcome
           /\ case'.evidenceState = IF outcome = "events" THEN "success" ELSE "empty"
  BY <1>1, RefreshedFacts
<1>3. /\ queries' = queries /\ rows' = rows /\ req' = [req EXCEPT ![r] = Idle]
      /\ latest' = outcome /\ latest' \in AllQueryOutcomes \cup {None}
  BY <1>1 DEF Save
<1>4. StoreInv'
  <2>1. CASE outcome = "unavailable"
    <3>1. origin' = origin
      BY <2>1, SaveIsAtomic
    <3>2. EvidenceStateMatchesEvidence'
      BY <1>2, <1>3, <2>1, <3>1
         DEF EvidenceStateMatchesEvidence, IInv, StoreInv, OriginCompleted
    <3> QED  BY <1>2, <1>3, <2>1, <3>1, <3>2
             DEF IInv, StoreInv, StartedInOrder, OriginCompleted, StoredEvidenceIsComplete, Result
  <2>2. CASE outcome # "unavailable"
    <3>1. /\ origin' \in QueryIds /\ origin' # 0 /\ queries[origin'] = "Complete"
          /\ outcome = Result(origin')
      BY <2>2, SaveIsAtomic, PollingAssumption DEF QueryIds
    <3>2. EvidenceStateMatchesEvidence'
      BY <1>1, <1>2, <1>3, <2>2, <3>1
         DEF EvidenceStateMatchesEvidence, AllQueryOutcomes, Result
    <3>3. StoredEvidenceIsComplete'
      BY <1>2, <1>3, <2>2, <3>1 DEF StoredEvidenceIsComplete, Result
    <3>4. outcome # "none"
      BY <1>1 DEF AllQueryOutcomes
    <3> QED  BY <1>2, <1>3, <2>2, <3>1, <3>2, <3>3, <3>4
             DEF IInv, StoreInv, StartedInOrder, OriginCompleted
  <2> QED  BY <2>1, <2>2
<1>5. RequestsInv'
  <2>1. /\ req' \in [Requests -> RequestRecords]
        /\ \A s \in Requests : req'[s] = req[s] \/ req'[s] = Idle
    BY <1>3, IdleIsOK DEF IInv, RequestsInv, RequestOK
  <2> QED  BY <1>2, <1>3, <2>1, OthersAfterWrite
<1> QED  BY <1>4, <1>5 DEF IInv

LEMMA OtherWriteKeeps ==
  ASSUME IInv, OtherWrite
  PROVE  IInv'
<1>1. /\ case' \in Cases /\ case'.version = case.version + 1
      /\ case'.evidence = case.evidence /\ case'.evidenceState = case.evidenceState
  BY StampedFacts DEF OtherWrite, AddNote, IInv, StoreInv
<1>2. StoreInv'
  BY <1>1 DEF OtherWrite, IInv, StoreInv, StartedInOrder, OriginCompleted,
              EvidenceStateMatchesEvidence, StoredEvidenceIsComplete, Result
<1>3. RequestsInv'
  BY <1>1, OthersAfterWrite DEF OtherWrite, IInv, RequestsInv
<1> QED  BY <1>2, <1>3 DEF IInv

\* What a completed query found does not change any more.
LEMMA CloudWatchKeeps ==
  ASSUME IInv, NEW q \in QueryIds, RowsAppear(q) \/ QueryEnds(q)
  PROVE  IInv'
<1>1. /\ UNCHANGED <<case, origin, latest, req>>
      /\ queries[q] = "Running"
      /\ queries' \in [QueryIds -> {"unused", "Running", "Complete", "Failed"}]
      /\ queries'[q] # "unused"
      /\ \A p \in QueryIds \ {q} : queries'[p] = queries[p]
      /\ rows' \subseteq QueryIds
      /\ \A p \in QueryIds \ {q} : p \in rows' <=> p \in rows
  BY DEF RowsAppear, QueryEnds, IInv, StoreInv
<1>2. StartedInOrder'
  <2>1. \A p \in QueryIds : queries'[p] # "unused" <=> queries[p] # "unused"
    BY <1>1
  <2>2. \A p \in QueryIds : \A s \in 1..(p - 1) : s \in QueryIds
    BY PollingAssumption DEF QueryIds
  <2> QED  BY <2>1, <2>2 DEF IInv, StoreInv, StartedInOrder
<1>3. StoreInv'
  <2>1. origin # q
    BY <1>1, PollingAssumption DEF IInv, StoreInv, OriginCompleted, QueryIds
  <2>2. origin # 0 => origin \in QueryIds \ {q}
    BY <2>1 DEF IInv, StoreInv
  <2>3. OriginCompleted' /\ StoredEvidenceIsComplete'
    BY <1>1, <2>2 DEF IInv, StoreInv, OriginCompleted, StoredEvidenceIsComplete, Result
  <2>4. EvidenceStateMatchesEvidence'
    <3>1. 0 \notin rows /\ 0 \notin rows'
      BY <1>1, PollingAssumption DEF IInv, StoreInv, QueryIds
    <3>2. (origin \in rows' <=> origin \in rows) /\ (origin # 0 => queries'[origin] = queries[origin])
      BY <1>1, <2>2, <3>1
    <3>3. 0 \notin QueryIds
      BY PollingAssumption DEF QueryIds
    <3> QED  BY <1>1, <3>2, <3>3 DEF IInv, StoreInv, EvidenceStateMatchesEvidence
  <2> QED  BY <1>1, <1>2, <2>3, <2>4 DEF IInv, StoreInv
<1>4. ASSUME NEW s \in Requests
      PROVE  RequestOK(req[s])'
  <2>1. RequestOK(req[s]) /\ req[s].query \in QueryIds \cup {0}
    BY DEF IInv, RequestsInv, RequestRecords
  <2>2. CASE req[s].query = q
    BY <1>1, <2>1, <2>2
       DEF RequestOK, PollsLeft, CopyCurrentOrStale, QueryIsNewer, OutcomeIsResult, Result
  <2>3. CASE req[s].query # q
    BY <1>1, <2>1, <2>3
       DEF RequestOK, PollsLeft, CopyCurrentOrStale, QueryIsNewer, OutcomeIsResult, Result
  <2> QED  BY <2>2, <2>3
<1> QED  BY <1>1, <1>3, <1>4 DEF IInv, RequestsInv

LEMMA StutterKeeps ==
  ASSUME IInv, UNCHANGED vars
  PROVE  IInv'
BY DEF vars, IInv, StoreInv, RequestsInv, StartedInOrder, OriginCompleted,
       EvidenceStateMatchesEvidence, StoredEvidenceIsComplete, Result,
       RequestOK, PollsLeft, CopyCurrentOrStale, QueryIsNewer, OutcomeIsResult

LEMMA NextIInv == IInv /\ [Next]_vars => IInv'
<1> SUFFICES ASSUME IInv, [Next]_vars PROVE IInv'
  OBVIOUS
<1>1. ASSUME NEW r \in Requests, Load(r) PROVE IInv'
  BY <1>1, LoadKeeps
<1>2. ASSUME NEW r \in Requests, Continue(r) PROVE IInv'
  <2>1. CASE SaveRefused(r)
    BY <2>1, EndsKeeps DEF SaveRefused
  <2> QED  BY <1>2, <2>1, StartQueryKeeps, LookupEndsKeeps, PollAgainKeeps, SaveKeeps DEF Continue
<1>3. ASSUME NEW r \in Requests, CallRaises(r) PROVE IInv'
  BY <1>3, LookupEndsKeeps
<1>4. ASSUME NEW r \in Requests, Abandon(r) PROVE IInv'
  BY <1>4, EndsKeeps DEF Abandon
<1>5. ASSUME NEW q \in QueryIds, RowsAppear(q) \/ QueryEnds(q) PROVE IInv'
  BY <1>5, CloudWatchKeeps
<1>6. CASE OtherWrite
  BY <1>6, OtherWriteKeeps
<1>7. CASE UNCHANGED vars
  BY <1>7, StutterKeeps
<1> QED  BY <1>1, <1>2, <1>3, <1>4, <1>5, <1>6, <1>7 DEF Next

---------------------------------------------------------------------------

\* The inductive invariant of refreshes in flight, the queries they started
\* and the evidence that is stored.
THEOREM RefreshInvariant == Spec => []IInv
BY InitIInv, NextIInv, PTL DEF Spec

\* Case, requests and queries keep their shape, and no request has polled
\* more often than it may (refresh_evidence, _poll_results).
THEOREM TypeCorrect == Spec => []TypeOK
<1>1. IInv => TypeOK
  BY DEF IInv, StoreInv, RequestsInv, RequestOK, PollsLeft, TypeOK
<1> QED  BY <1>1, RefreshInvariant, PTL

\* The evidence state says how the last stored refresh went and whether an
\* earlier query delivered, after any number of successful, empty and failed
\* refreshes that overlap; only a case never refreshed is empty without a
\* completed query (refresh_evidence, create_case).
THEOREM EvidenceStateIsRight == Spec => []EvidenceStateMatchesEvidence
<1>1. IInv => EvidenceStateMatchesEvidence
  BY DEF IInv, StoreInv
<1> QED  BY <1>1, RefreshInvariant, PTL

\* Stored evidence is the whole result of a query that completed, however
\* many attempts a request has (_poll_results).
THEOREM EvidenceIsComplete == Spec => []StoredEvidenceIsComplete
<1>1. IInv => StoredEvidenceIsComplete
  BY DEF IInv, StoreInv
<1> QED  BY <1>1, RefreshInvariant, PTL

\* What one step does to the case and to where its evidence is from.
LEMMA StepOnStore ==
  ASSUME IInv, [Next]_vars
  PROVE  /\ origin' >= origin
         /\ \/ \E outcome \in AllQueryOutcomes : case' = RefreshEvidence(case, outcome)
            \/ case' = AddNote(case)
            \/ case' = case
<1>1. origin \in Nat
  BY PollingAssumption DEF IInv, StoreInv, QueryIds
<1>2. ASSUME NEW r \in Requests, Save(r)
      PROVE  /\ origin' >= origin
             /\ \E outcome \in AllQueryOutcomes : case' = RefreshEvidence(case, outcome)
  <2>1. origin' = origin \/ (origin' \in Nat /\ origin < origin')
    BY <1>2, SaveIsAtomic, PollingAssumption DEF QueryIds
  <2>2. \E outcome \in AllQueryOutcomes : case' = RefreshEvidence(case, outcome)
    BY <1>2, SaveIsAtomic
  <2> QED  BY <1>1, <2>1, <2>2
<1>3. CASE OtherWrite
  BY <1>1, <1>3 DEF OtherWrite
<1>4. ASSUME ~ OtherWrite, \A r \in Requests : ~ Save(r)
      PROVE  case' = case /\ origin' = origin
  BY <1>4 DEF Next, vars, Load, Continue, StartQuery, StartFails, PollComplete, PollAgain,
              PollGivesUp, CallRaises, Decided, SaveRefused, Abandon, RowsAppear, QueryEnds
<1> QED  BY <1>1, <1>2, <1>3, <1>4

\* Of refreshes that overlap, the one whose query was started later has the
\* last word (save_case's condition on the version).
THEOREM EvidenceIsNeverOlder == Spec => EvidenceMovesForward
<1>1. IInv /\ [Next]_vars => [origin' >= origin]_origin
  BY StepOnStore
<1> QED  BY <1>1, RefreshInvariant, PTL DEF Spec, EvidenceMovesForward

\* The seconds between load and save do not show: each write is a refresh of
\* the case as it is at that moment (save_case's condition on the version).
THEOREM RefreshIsAtomic == Spec => RefreshTakesEffectAtOnce
<1>1. IInv /\ [Next]_vars =>
        [ \/ \E outcome \in AllQueryOutcomes : case' = RefreshEvidence(case, outcome)
          \/ case' = AddNote(case) ]_case
  BY StepOnStore
<1> QED  BY <1>1, RefreshInvariant, PTL DEF Spec, RefreshTakesEffectAtOnce

---------------------------------------------------------------------------

\* How many steps a refresh may still take before its slot is free.
StepsLeft(r) ==
  CASE req[r].phase = "idle"     -> 0
    [] req[r].phase = "saving"   -> 1
    [] req[r].phase = "polling"  -> 2 + Attempts - req[r].polls
    [] req[r].phase = "starting" -> 3 + Attempts

\* A refresh never goes back to an earlier step and nothing that happens
\* meanwhile, at CloudWatch or to the case, makes it wait longer: whatever
\* changes it brings it nearer to its end, of which it is Attempts + 3 steps
\* away at most (the part of RefreshEnds that no fairness is needed for;
\* refresh_evidence, the attempt limit of _poll_results).
RefreshShrinks ==
  [][\A r \in Requests : req[r].phase # "idle" =>
       /\ StepsLeft(r) \in 1..(Attempts + 3)
       /\ StepsLeft(r)' \in 0..(Attempts + 3)
       /\ req'[r] # req[r] => StepsLeft(r)' < StepsLeft(r)
       /\ StepsLeft(r)' = 0 => req'[r] = Idle]_vars

LEMMA StepsLeftFacts ==
  ASSUME RequestsInv, NEW r \in Requests
  PROVE  /\ StepsLeft(r) \in 0..(Attempts + 3)
         /\ req[r].phase = "idle" <=> StepsLeft(r) = 0
<1>1. /\ req[r].phase \in {"idle", "starting", "polling", "saving"}
      /\ req[r].polls \in Nat /\ req[r].polls <= Attempts
  BY PollingAssumption DEF RequestsInv, RequestOK, RequestRecords, PollsLeft
<1>. QED  BY <1>1, PollingAssumption DEF StepsLeft

\* A step of r that does not begin a refresh.
LEMMA OneStepNearer ==
  ASSUME IInv, NEW r \in Requests, Continue(r) \/ CallRaises(r) \/ Abandon(r)
  PROVE  /\ StepsLeft(r)' < StepsLeft(r)
         /\ StepsLeft(r)' = 0 => req'[r] = Idle
         /\ \A q \in Requests \ {r} : req'[q] = req[q]
<1>1. req \in [Requests -> RequestRecords] /\ PollsLeft(req[r])
  BY DEF IInv, RequestsInv, RequestOK
<1>2. req[r] \in RequestRecords /\ req[r].polls \in Nat /\ req[r].polls <= Attempts
  BY <1>1, PollingAssumption DEF PollsLeft, RequestRecords
<1>3. CASE StartQuery(r)
  <2>1. PICK q \in QueryIds : req' = [req EXCEPT ![r].phase = "polling", ![r].query = q]
    BY <1>3 DEF StartQuery
  <2>2. /\ req'[r].phase = "polling" /\ req'[r].polls = req[r].polls
        /\ \A p \in Requests \ {r} : req'[p] = req[p]
    BY <1>1, <1>2, <2>1 DEF RequestRecords
  <2>3. StepsLeft(r) = 3 + Attempts
    BY <1>3 DEF StartQuery, StepsLeft
  <2>4. StepsLeft(r)' = 2 + Attempts - req[r].polls
    BY <2>2 DEF StepsLeft
  <2>. QED  BY <1>2, <2>2, <2>3, <2>4, PollingAssumption
<1>4. CASE StartFails(r) \/ PollComplete(r) \/ PollGivesUp(r) \/ CallRaises(r)
  <2>1. PICK outcome : req' = [req EXCEPT ![r].phase = "saving", ![r].polls = 0,
                                          ![r].outcome = outcome]
    BY <1>4 DEF StartFails, PollComplete, PollGivesUp, CallRaises, Decided
  <2>2. /\ req'[r].phase = "saving"
        /\ \A p \in Requests \ {r} : req'[p] = req[p]
    BY <1>1, <1>2, <2>1 DEF RequestRecords
  <2>3. req[r].phase \in {"starting", "polling"}
    BY <1>4 DEF StartFails, PollComplete, PollGivesUp, CallRaises
  <2>. QED  BY <1>2, <2>2, <2>3, PollingAssumption DEF StepsLeft
<1>5. CASE PollAgain(r)
  <2>1. /\ req'[r].phase = "polling" /\ req'[r].polls = req[r].polls + 1
        /\ \A p \in Requests \ {r} : req'[p] = req[p]
    BY <1>1, <1>2, <1>5 DEF PollAgain, RequestRecords
  <2>2. req[r].polls + 1 < Attempts
    BY <1>5 DEF PollAgain
  <2>. QED  BY <1>2, <1>5, <2>1, <2>2, PollingAssumption DEF PollAgain, StepsLeft
<1>6. CASE Save(r) \/ SaveRefused(r) \/ Abandon(r)
  <2>1. req'[r] = Idle /\ \A p \in Requests \ {r} : req'[p] = req[p]
    BY <1>1, <1>6 DEF Save, SaveRefused, Abandon
  <2>2. StepsLeft(r)' = 0
    BY <2>1 DEF StepsLeft, Idle
  <2>3. StepsLeft(r) \in Nat \ {0}
    <3>1. req[r].phase # "idle"
      BY <1>6 DEF Save, SaveRefused, Abandon
    <3>. QED  BY <3>1, StepsLeftFacts, PollingAssumption DEF IInv
  <2>. QED  BY <2>1, <2>2, <2>3
<1>. QED  BY <1>3, <1>4, <1>5, <1>6 DEF Continue

\* No refresh polls for ever: each can take Attempts + 3 more steps, fewer
\* with each that it takes (_poll_results).
THEOREM RefreshesComeToAnEnd == Spec => RefreshShrinks
<1>1. ASSUME IInv, IInv', [Next]_vars, NEW r \in Requests, req[r].phase # "idle"
      PROVE  /\ StepsLeft(r) \in 1..(Attempts + 3)
             /\ StepsLeft(r)' \in 0..(Attempts + 3)
             /\ req'[r] # req[r] => StepsLeft(r)' < StepsLeft(r)
             /\ StepsLeft(r)' = 0 => req'[r] = Idle
  <2>1. /\ StepsLeft(r) \in 1..(Attempts + 3)
        /\ StepsLeft(r)' \in 0..(Attempts + 3)
    <3>1. StepsLeft(r) \in 0..(Attempts + 3) /\ StepsLeft(r) # 0
      BY <1>1, StepsLeftFacts DEF IInv
    <3>2. RequestsInv'
      BY <1>1 DEF IInv
    <3>3. StepsLeft(r)' \in 0..(Attempts + 3)
      <4>1. /\ req'[r].phase \in {"idle", "starting", "polling", "saving"}
            /\ req'[r].polls \in Nat /\ req'[r].polls <= Attempts
        BY <3>2, PollingAssumption DEF RequestsInv, RequestOK, RequestRecords, PollsLeft
      <4>. QED  BY <4>1, PollingAssumption DEF StepsLeft
    <3>. QED  BY <3>1, <3>3, PollingAssumption
  <2>2. CASE Continue(r) \/ CallRaises(r) \/ Abandon(r)
    BY <1>1, <2>1, <2>2, OneStepNearer
  <2>3. CASE req'[r] = req[r]
    <3>1. StepsLeft(r)' = StepsLeft(r)
      BY <2>3 DEF StepsLeft
    <3>. QED  BY <2>1, <2>3, <3>1
  <2>4. ASSUME NEW q \in Requests, q # r, Continue(q) \/ CallRaises(q) \/ Abandon(q)
        PROVE  req'[r] = req[r]
    BY <1>1, <2>4, OneStepNearer
  <2>5. ASSUME NEW q \in Requests, Load(q)
        PROVE  req'[r] = req[r]
    <3>1. q # r
      BY <1>1, <2>5 DEF Load
    <3>. QED  BY <1>1, <2>5, <3>1 DEF Load, IInv, RequestsInv
  <2>6. CASE UNCHANGED req
    BY <2>3, <2>6
  <2>7. \/ UNCHANGED req
        \/ \E q \in Requests : Load(q) \/ Continue(q) \/ CallRaises(q) \/ Abandon(q)
    BY <1>1 DEF Next, vars, RowsAppear, QueryEnds, OtherWrite
  <2>. QED  BY <2>2, <2>3, <2>4, <2>5, <2>6, <2>7
<1>2. IInv /\ IInv' /\ [Next]_vars =>
        [\A r \in Requests : req[r].phase # "idle" =>
           /\ StepsLeft(r) \in 1..(Attempts + 3)
           /\ StepsLeft(r)' \in 0..(Attempts + 3)
           /\ req'[r] # req[r] => StepsLeft(r)' < StepsLeft(r)
           /\ StepsLeft(r)' = 0 => req'[r] = Idle]_vars
  BY <1>1
<1>. QED  BY <1>2, RefreshInvariant, PTL DEF Spec, RefreshShrinks

===========================================================================
