-------------------------- MODULE ApprovalsProofs --------------------------
(***************************************************************************)
(* What holds of a decided approval for any number of deciders and of      *)
(* requests in flight.  A decision is written without a second look, so    *)
(* the request that carries it must already be entitled to it.             *)
(***************************************************************************)
EXTENDS Approvals, TLAPS

Entitled == Admins \cup TeamMembers

CarriedByEntitled ==
  \A r \in Requests : req[r].phase # "idle" => req[r].decider \in Entitled

IInv == TypeOK /\ CarriedByEntitled /\ DecidedByEntitled /\ DecisionsAreAudited

---------------------------------------------------------------------------

LEMMA InitIInv == Init => IInv
<1>. SUFFICES ASSUME Init PROVE IInv
  OBVIOUS
<1>1. Undecided("unopened") \in Approvals /\ Undecided("unopened").status \notin Verdicts
  BY DEF Approvals, Undecided, Verdicts
<1>2. Idle \in [phase : {"idle", "saving", "auditing"},
                decider : Deciders \cup {None}, verdict : Verdicts] /\ Idle.phase = "idle"
  BY DEF Idle, Verdicts
<1>3. TypeOK /\ CarriedByEntitled
  BY <1>1, <1>2 DEF Init, TypeOK, CarriedByEntitled
<1>4. DecidedByEntitled /\ DecisionsAreAudited
  BY <1>1 DEF Init, DecidedByEntitled, DecisionsAreAudited
<1>. QED  BY <1>3, <1>4 DEF IInv

\* A step that leaves the decision in the store, and its event, the request
\* that is to write it or its excuse in place, or gives it another of these.
LEMMA StillAudited ==
  ASSUME DecisionsAreAudited, stored' = stored, excuse' = excuse \/ excuse' # "none",
         Standing \in events => Standing \in events' \/ excuse' # "none",
         \A r \in Requests : req[r].phase = "auditing" /\ Decision(req[r]) = Standing =>
           req'[r] = req[r] \/ Standing \in events' \/ excuse' # "none"
  PROVE  DecisionsAreAudited'
<1>1. Standing' = Standing
  BY DEF Standing
<1>2. ASSUME NEW r \in Requests, req[r].phase = "auditing", Decision(req[r]) = Standing,
             ~(Standing \in events' \/ excuse' # "none")
      PROVE  req'[r].phase = "auditing" /\ Decision(req'[r]) = Standing
  <2>1. req'[r] = req[r]
    BY <1>2
  <2>. QED  BY <1>2, <2>1
<1>3. DecisionsAreAudited' <=>
        (stored.status \in Verdicts =>
           \/ Standing \in events'
           \/ \E r \in Requests : req'[r].phase = "auditing" /\ Decision(req'[r]) = Standing
           \/ excuse' # "none")
  BY <1>1 DEF DecisionsAreAudited, Decision
<1>. QED  BY <1>2, <1>3 DEF DecisionsAreAudited

\* The request that carries a decision of d, in any phase.
LEMMA Carries ==
  ASSUME TypeOK, CarriedByEntitled, NEW r \in Requests,
         NEW carried \in [phase : {"idle", "saving", "auditing"},
                          decider : Deciders \cup {None}, verdict : Verdicts],
         carried.phase # "idle" => carried.decider \in Entitled,
         req' = [req EXCEPT ![r] = carried]
  PROVE  /\ req' \in [Requests -> [phase : {"idle", "saving", "auditing"},
                                   decider : Deciders \cup {None}, verdict : Verdicts]]
         /\ CarriedByEntitled'
<1>1. \A s \in Requests : req'[s] = IF s = r THEN carried ELSE req[s]
  BY DEF TypeOK
<1>. QED  BY <1>1 DEF TypeOK, CarriedByEntitled, Entitled

LEMMA OpenKeeps ==
  ASSUME IInv, Open
  PROVE  IInv'
BY DEF IInv, Open, TypeOK, Approvals, Undecided, Verdicts, CarriedByEntitled,
       DecidedByEntitled, DecisionsAreAudited

LEMMA ReplicateKeeps ==
  ASSUME IInv, Replicate
  PROVE  IInv'
<1>1. DecisionsAreAudited'
  BY StillAudited DEF IInv, Replicate
<1>. QED  BY <1>1 DEF IInv, Replicate, TypeOK, CarriedByEntitled, DecidedByEntitled

\* No approval, no decision.
LEMMA DeletesKeep ==
  ASSUME IInv, ResetAtOnce \/ ResetApproval
  PROVE  IInv'
<1>1. /\ stored' = Undecided("deleted") /\ excuse' = "none"
      /\ events' \subseteq events /\ resetting' \in BOOLEAN
      /\ backend' = backend /\ lagging' = lagging /\ req' = req
  BY DEF ResetAtOnce, ResetApproval, IInv, TypeOK
<1>2. Undecided("deleted") \in Approvals /\ Undecided("deleted").status \notin Verdicts
  BY DEF Approvals, Undecided, Verdicts
<1>3. TypeOK'
  BY <1>1, <1>2 DEF IInv, TypeOK
<1>4. CarriedByEntitled'
  BY <1>1 DEF IInv, CarriedByEntitled
<1>5. DecidedByEntitled' /\ DecisionsAreAudited'
  BY <1>1, <1>2 DEF IInv, DecidedByEntitled, DecisionsAreAudited
<1>. QED  BY <1>3, <1>4, <1>5 DEF IInv

LEMMA ResetEventsKeeps ==
  ASSUME IInv, ResetEvents
  PROVE  IInv'
<1>1. PICK gone \in SUBSET events :
        events' = events \ gone /\ excuse' = IF Standing \in gone THEN "reset" ELSE excuse
  BY DEF ResetEvents
<1>2. DecisionsAreAudited'
  BY <1>1, StillAudited DEF IInv, ResetEvents
<1>3. TypeOK' /\ DecidedByEntitled'
  BY <1>1 DEF IInv, ResetEvents, TypeOK, DecidedByEntitled
<1>. QED  BY <1>2, <1>3 DEF IInv, ResetEvents, CarriedByEntitled

LEMMA ResetPassesKeeps ==
  ASSUME IInv, ResetPasses
  PROVE  IInv'
<1>1. DecisionsAreAudited'
  BY StillAudited DEF IInv, ResetPasses
<1>. QED  BY <1>1 DEF IInv, ResetPasses, TypeOK, CarriedByEntitled, DecidedByEntitled

LEMMA LoadKeeps ==
  ASSUME IInv, NEW r \in Requests, NEW d \in Deciders, NEW verdict \in Verdicts,
         Load(r, d, verdict)
  PROVE  IInv'
<1>. DEFINE carried == [phase |-> "saving", decider |-> d, verdict |-> verdict]
<1>1. carried.decider \in Entitled
  BY DEF Load, MayDecide, Entitled
<1>2. req' = [req EXCEPT ![r] = carried]
  BY DEF Load
<1>3. /\ carried \in [phase : {"idle", "saving", "auditing"},
                      decider : Deciders \cup {None}, verdict : Verdicts]
  OBVIOUS
<1>. HIDE DEF carried
<1>4. TypeOK' /\ CarriedByEntitled'
  BY <1>1, <1>2, <1>3, Carries DEF IInv, Load, TypeOK
<1>5. \A s \in Requests : req[s].phase = "auditing" => req'[s] = req[s]
  BY <1>2 DEF IInv, TypeOK, Load
<1>6. DecisionsAreAudited'
  BY <1>5, StillAudited DEF IInv, Load
<1>. QED  BY <1>4, <1>6 DEF IInv, Load, DecidedByEntitled

\* req with the phase of r moved on to `phase'.
LEMMA Moves ==
  ASSUME IInv, NEW r \in Requests, req[r].phase # "idle",
         NEW phase \in {"saving", "auditing"},
         req' = [req EXCEPT ![r].phase = phase]
  PROVE  /\ req' \in [Requests -> [phase : {"idle", "saving", "auditing"},
                                   decider : Deciders \cup {None}, verdict : Verdicts]]
         /\ CarriedByEntitled'
<1>. DEFINE carried == [req[r] EXCEPT !.phase = phase]
<1>1. req[r] \in [phase : {"idle", "saving", "auditing"},
                  decider : Deciders \cup {None}, verdict : Verdicts]
  BY DEF IInv, TypeOK
<1>2. carried \in [phase : {"idle", "saving", "auditing"},
                   decider : Deciders \cup {None}, verdict : Verdicts]
      /\ carried.decider = req[r].decider
  BY <1>1
<1>3. req' = [req EXCEPT ![r] = carried]
  OBVIOUS
<1>. HIDE DEF carried
<1>4. carried.phase # "idle" => carried.decider \in Entitled
  BY <1>2 DEF IInv, CarriedByEntitled
<1>. QED  BY <1>2, <1>3, <1>4, Carries DEF IInv

LEMMA SaveKeeps ==
  ASSUME IInv, NEW r \in Requests, Save(r)
  PROVE  IInv'
<1>1. req' = [req EXCEPT ![r].phase = "auditing"] /\ req[r].phase # "idle"
  BY DEF Save
<1>2. CarriedByEntitled' /\ req' \in [Requests -> [phase : {"idle", "saving", "auditing"},
                                   decider : Deciders \cup {None}, verdict : Verdicts]]
  BY <1>1, Moves
<1>3. req[r].decider \in Entitled /\ req[r].decider \in Deciders \cup {None}
      /\ req[r].verdict \in Verdicts
  BY <1>1 DEF IInv, CarriedByEntitled, TypeOK
<1>4. stored' \in Approvals /\ stored'.decidedBy \in Entitled
  BY <1>3 DEF Save, Approvals
<1>5. TypeOK'
  BY <1>2, <1>4 DEF IInv, Save, TypeOK
<1>6. DecidedByEntitled'
  BY <1>4 DEF IInv, Save, DecidedByEntitled, Entitled
<1>7. req'[r].phase = "auditing" /\ Decision(req'[r]) = Standing'
  <2>1. req'[r] = [req[r] EXCEPT !.phase = "auditing"]
        /\ req[r] \in [phase : {"idle", "saving", "auditing"},
                       decider : Deciders \cup {None}, verdict : Verdicts]
    BY <1>1 DEF IInv, TypeOK
  <2>2. req'[r].phase = "auditing" /\ req'[r].verdict = req[r].verdict
        /\ req'[r].decider = req[r].decider
    BY <2>1
  <2>. QED  BY <2>2 DEF Save, Decision, Standing
<1>8. DecisionsAreAudited'
  BY <1>7 DEF DecisionsAreAudited, Decision
<1>. QED  BY <1>2, <1>5, <1>6, <1>8 DEF IInv

\* The slot is free again.
LEMMA Frees ==
  ASSUME IInv, NEW r \in Requests, req' = [req EXCEPT ![r] = Idle]
  PROVE  /\ req' \in [Requests -> [phase : {"idle", "saving", "auditing"},
                                   decider : Deciders \cup {None}, verdict : Verdicts]]
         /\ CarriedByEntitled'
<1>1. Idle \in [phase : {"idle", "saving", "auditing"},
                decider : Deciders \cup {None}, verdict : Verdicts] /\ Idle.phase = "idle"
  BY DEF Idle, Verdicts
<1>. QED  BY <1>1, Carries DEF IInv

\* ... and the others are as they were.
LEMMA OthersStay ==
  ASSUME TypeOK, NEW r \in Requests, req' = [req EXCEPT ![r] = Idle]
  PROVE  \A s \in Requests \ {r} : req'[s] = req[s]
BY DEF TypeOK

LEMMA AuditKeeps ==
  ASSUME IInv, NEW r \in Requests, Audit(r)
  PROVE  IInv'
<1>1. CarriedByEntitled' /\ req' \in [Requests -> [phase : {"idle", "saving", "auditing"},
                                   decider : Deciders \cup {None}, verdict : Verdicts]]
  BY Frees DEF Audit
<1>2. req[r].decider \in Entitled /\ req[r].verdict \in Verdicts
  BY DEF Audit, IInv, CarriedByEntitled, TypeOK
<1>3. Decision(req[r]) \in Verdicts \X Deciders /\ Decision(req[r])[2] \in Entitled
  BY <1>2, DecidersAssumption DEF Entitled, Decision
<1>4. TypeOK'
  BY <1>1, <1>3 DEF IInv, Audit, TypeOK
<1>5. DecidedByEntitled'
  BY <1>3 DEF IInv, Audit, DecidedByEntitled, Entitled
<1>6. DecisionsAreAudited'
  BY StillAudited, OthersStay DEF IInv, Audit
<1>. QED  BY <1>1, <1>4, <1>5, <1>6 DEF IInv

LEMMA AbandonKeeps ==
  ASSUME IInv, NEW r \in Requests, Abandon(r)
  PROVE  IInv'
<1>1. CarriedByEntitled' /\ req' \in [Requests -> [phase : {"idle", "saving", "auditing"},
                                   decider : Deciders \cup {None}, verdict : Verdicts]]
  BY Frees DEF Abandon
<1>2. req[r].phase = "auditing" => Decision(req[r]) \in Verdicts \X Deciders
  BY DecidersAssumption DEF IInv, CarriedByEntitled, TypeOK, Entitled, Decision
<1>3. TypeOK'
  BY <1>1, <1>2 DEF IInv, Abandon, TypeOK
<1>4. DecisionsAreAudited'
  BY StillAudited, OthersStay DEF IInv, Abandon
<1>. QED  BY <1>1, <1>3, <1>4 DEF IInv, Abandon, DecidedByEntitled

LEMMA NextIInv == IInv /\ [Next]_vars => IInv'
<1>. SUFFICES ASSUME IInv, [Next]_vars PROVE IInv'
  OBVIOUS
<1>1. CASE UNCHANGED vars
  BY <1>1 DEF vars, IInv, TypeOK, CarriedByEntitled, DecidedByEntitled, DecisionsAreAudited,
       Standing
<1>2. CASE Next
  BY <1>2, OpenKeeps, ReplicateKeeps, DeletesKeep, ResetEventsKeeps, ResetPassesKeeps, LoadKeeps, SaveKeeps, AuditKeeps,
     AbandonKeeps DEF Next
<1>. QED  BY <1>1, <1>2

LEMMA Invariant == Spec => []IInv
BY InitIInv, NextIInv, PTL DEF Spec

---------------------------------------------------------------------------

\* Every stored and every audited decision is that of a manager of the
\* requester's team or of an admin, whatever races (approve and deny).
THEOREM DecisionsAreEntitled == Spec => []DecidedByEntitled
<1>1. IInv => DecidedByEntitled
  BY DEF IInv
<1>. QED  BY <1>1, Invariant, PTL

\* The decision in the store has an event or a request that is about to write
\* it, whoever overwrote whom, unless that request died or a reset has deleted
\* the event and not the approval (approve, deny, DynamoStore.reset).
THEOREM DecisionsAreAccountedFor == Spec => []DecisionsAreAudited
<1>1. IInv => DecisionsAreAudited
  BY DEF IInv
<1>. QED  BY <1>1, Invariant, PTL

\* The variables keep their shape.
THEOREM TypeCorrect == Spec => []TypeOK
<1>1. IInv => TypeOK
  BY DEF IInv
<1>. QED  BY <1>1, Invariant, PTL

\* A settled decision is never changed but by a reset, and what was decided
\* cannot become unsettled (the pending check of decide_approval).
THEOREM SettledDecisionsStay == Spec => SettledUntilReset
<1>1. ASSUME IInv, Settled, [Next]_vars
      PROVE  (Settled' /\ stored' = stored) \/ stored'.status = "deleted"
  <2>1. CASE UNCHANGED vars
    BY <1>1, <2>1 DEF vars, Settled
  <2>2. CASE Open \/ Replicate
    BY <1>1, <2>2 DEF Open, Replicate, Settled, Verdicts
  <2>3. CASE ResetAtOnce \/ ResetApproval
    BY <2>3 DEF ResetAtOnce, ResetApproval, Undecided
  <2>7. CASE ResetEvents \/ ResetPasses
    BY <1>1, <2>7 DEF ResetEvents, ResetPasses, Settled
  <2>4. ASSUME NEW r \in Requests, NEW d \in Deciders, NEW verdict \in Verdicts,
               Load(r, d, verdict)
        PROVE  FALSE
    <3>1. PICK read \in Readable : read.status = "pending"
      BY <2>4 DEF Load
    <3>2. read = stored
      BY <1>1, <3>1 DEF Readable, Settled
    <3>. QED  BY <1>1, <3>1, <3>2 DEF Settled, Verdicts
  <2>5. ASSUME NEW r \in Requests, Save(r)
        PROVE  FALSE
    BY <1>1, <2>5 DEF Save, Settled
  <2>6. ASSUME NEW r \in Requests, Audit(r) \/ Abandon(r)
        PROVE  Settled' /\ stored' = stored
    <3>1. stored' = stored /\ lagging' = lagging /\ backend' = backend
      BY <2>6 DEF Audit, Abandon
    <3>2. \A s \in Requests : req'[s] = IF s = r THEN Idle ELSE req[s]
      BY <1>1, <2>6 DEF Audit, Abandon, IInv, TypeOK
    <3>3. \A s \in Requests : req'[s].phase # "saving"
      BY <1>1, <3>2 DEF Settled, Idle
    <3>. QED  BY <1>1, <3>1, <3>3 DEF Settled
  <2>. QED  BY <1>1, <2>1, <2>2, <2>3, <2>4, <2>5, <2>6, <2>7 DEF Next
<1>. QED  BY <1>1, Invariant, PTL DEF Spec, SettledUntilReset

===========================================================================
