---------------------------- MODULE QuotaProofs ----------------------------
(***************************************************************************)
(* How far concurrent requests can exceed the quota, for every limit, lag  *)
(* and number of requests.  A request that was allowed will be served      *)
(* whatever the counter says by then; so the bound is kept for the served  *)
(* requests and the allowed ones together.                                 *)
(***************************************************************************)
EXTENDS Quota, FiniteSetTheorems, TLAPS

InFlight == { r \in Requests : phase[r] = "allowed" }

\* Every served request was counted, and no day is ahead of its time.
Counted ==
  /\ \A d \in Days : served[d] <= count[d]
  /\ \A d \in Days : d > today => served[d] = 0

PromisedBounded == served[today] + Cardinality(InFlight) <= Limit + Excess

IInv == TypeOK /\ Counted /\ PromisedBounded /\ AdmissionBounded

---------------------------------------------------------------------------
(* The requests in flight.                                                 *)

\* They are some of the finitely many requests.
LEMMA InFlightCounted ==
  /\ IsFiniteSet(InFlight)
  /\ Cardinality(InFlight) \in Nat
  /\ Cardinality(InFlight) <= Cardinality(Requests)
<1>1. InFlight \subseteq Requests
  BY DEF InFlight
<1>. QED  BY <1>1, QuotaAssumption, FS_Subset, FS_CardinalityType

\* There is at least one request, so the excess is a natural number.
LEMMA ExcessType ==
  Cardinality(Requests) \in Nat /\ Cardinality(Requests) >= 1 /\ Excess \in Nat
<1>1. Cardinality(Requests) \in Nat /\ Cardinality(Requests) # 0
  BY QuotaAssumption, FS_CardinalityType, FS_EmptySet
<1>. QED  BY <1>1, QuotaAssumption DEF Excess

\* So are those in flight once another is allowed.
LEMMA OneMore ==
  ASSUME TypeOK, NEW r \in Requests, phase' = [phase EXCEPT ![r] = "allowed"]
  PROVE  /\ Cardinality(InFlight') \in Nat
         /\ Cardinality(InFlight') <= Cardinality(Requests)
<1>1. InFlight' \subseteq Requests
  BY DEF InFlight
<1>. QED  BY <1>1, QuotaAssumption, FS_Subset, FS_CardinalityType

\* A request that is served or gives up is one less.
LEMMA OneLess ==
  ASSUME TypeOK, NEW r \in Requests, phase[r] = "allowed",
         phase' = [phase EXCEPT ![r] = "idle"]
  PROVE  /\ Cardinality(InFlight') \in Nat
         /\ Cardinality(InFlight') = Cardinality(InFlight) - 1
<1>1. InFlight' = InFlight \ {r} /\ r \in InFlight
  BY DEF InFlight, TypeOK
<1>2. IsFiniteSet(InFlight \ {r}) /\ Cardinality(InFlight \ {r}) = Cardinality(InFlight) - 1
  BY <1>1, InFlightCounted, FS_RemoveElement
<1>. QED  BY <1>1, <1>2, FS_CardinalityType

---------------------------------------------------------------------------
(* The induction.                                                          *)

LEMMA InitIInv == Init => IInv
<1>. SUFFICES ASSUME Init PROVE IInv
  OBVIOUS
<1>1. today \in Days /\ TypeOK
  BY QuotaAssumption DEF Init, TypeOK, Days
<1>2. InFlight = {}
  BY DEF Init, InFlight
<1>3. Cardinality(InFlight) = 0
  BY <1>2, FS_EmptySet
<1>. QED  BY <1>1, <1>3, ExcessType, QuotaAssumption
          DEF IInv, Init, Counted, PromisedBounded, AdmissionBounded

\* An allowed request read a counter below the limit, so less than Limit +
\* MaxLag had been counted, and with it every request served; the others in
\* flight are one less than all requests.
LEMMA CheckKeeps ==
  ASSUME IInv, NEW r \in Requests, Check(r)
  PROVE  IInv'
<1>. USE QuotaAssumption, ExcessType, InFlightCounted DEF IInv
<1>1. TypeOK'
  BY DEF Check, TypeOK
<1>2. Cardinality(InFlight') \in Nat /\ Cardinality(InFlight') <= Cardinality(Requests)
  <2>1. phase' = [phase EXCEPT ![r] = "allowed"]
    BY DEF Check
  <2>. QED  BY <2>1, OneMore
<1>3. PICK n \in Readable : n < Limit
  BY DEF Check, Allowed
<1>4. count[today] <= Limit - 1 + MaxLag
  BY <1>3 DEF Readable, TypeOK
<1>5. served[today] <= Limit - 1 + MaxLag
  BY <1>4 DEF Counted, TypeOK
<1>6. PromisedBounded'
  BY <1>2, <1>5 DEF PromisedBounded, Excess, Check, TypeOK
<1>. QED  BY <1>1, <1>6 DEF Check, Counted, AdmissionBounded, Excess

\* Served, and no longer in flight: the sum stays.
LEMMA IncrementKeeps ==
  ASSUME IInv, NEW r \in Requests, Increment(r)
  PROVE  IInv'
<1>. USE QuotaAssumption, ExcessType, InFlightCounted DEF IInv
<1>1. PICK n \in {1, 2} : count' = [count EXCEPT ![today] = @ + n]
  BY DEF Increment
<1>2. TypeOK'
  BY <1>1 DEF Increment, TypeOK
<1>3. /\ Cardinality(InFlight') \in Nat
      /\ Cardinality(InFlight') = Cardinality(InFlight) - 1
  BY OneLess DEF Increment
<1>4. served'[today'] = served[today] + 1
  BY DEF Increment, TypeOK
<1>5. PromisedBounded'
  BY <1>3, <1>4 DEF PromisedBounded, TypeOK, Excess
<1>6. Counted'
  <2>1. today \in Int /\ today' = today /\ Days \subseteq Int
    BY DEF Increment, TypeOK, Days
  <2>2. ASSUME NEW d \in Days
        PROVE  served'[d] <= count'[d] /\ (d > today => served'[d] = 0)
    <3>1. CASE d = today
      BY <1>1, <2>1, <3>1 DEF Increment, Counted, TypeOK
    <3>2. CASE d # today
      BY <1>1, <3>2 DEF Increment, Counted, TypeOK
    <3>. QED  BY <3>1, <3>2
  <2>. QED  BY <2>1, <2>2 DEF Counted
<1>7. AdmissionBounded'
  <2>1. served[today] + 1 <= Limit + Excess
    BY <1>3, <1>5, <1>4 DEF PromisedBounded, TypeOK
  <2>. QED  BY <2>1 DEF Increment, AdmissionBounded, TypeOK, Excess
<1>. QED  BY <1>2, <1>5, <1>6, <1>7

LEMMA IncrementInVainKeeps ==
  ASSUME IInv, NEW r \in Requests, IncrementInVain(r)
  PROVE  IInv'
<1>. USE QuotaAssumption, ExcessType, InFlightCounted DEF IInv
<1>1. TypeOK'
  BY DEF IncrementInVain, TypeOK
<1>2. /\ Cardinality(InFlight') \in Nat
      /\ Cardinality(InFlight') = Cardinality(InFlight) - 1
  BY OneLess DEF IncrementInVain
<1>3. PromisedBounded'
  BY <1>2 DEF IncrementInVain, PromisedBounded, TypeOK, Excess
<1>. QED  BY <1>1, <1>3 DEF IncrementInVain, Counted, AdmissionBounded, TypeOK, Excess

LEMMA AbandonKeeps ==
  ASSUME IInv, NEW r \in Requests, Abandon(r)
  PROVE  IInv'
<1>. USE QuotaAssumption, ExcessType, InFlightCounted DEF IInv
<1>1. TypeOK'
  BY DEF Abandon, TypeOK
<1>2. /\ Cardinality(InFlight') \in Nat
      /\ Cardinality(InFlight') = Cardinality(InFlight) - 1
  BY OneLess DEF Abandon
<1>3. PromisedBounded'
  BY <1>2 DEF Abandon, PromisedBounded, TypeOK, Excess
<1>. QED  BY <1>1, <1>3 DEF Abandon, Counted, AdmissionBounded, Excess

\* The requests in flight carry over; nothing else was served on the new day.
LEMMA NewDayKeeps ==
  ASSUME IInv, NewDay
  PROVE  IInv'
<1>. USE QuotaAssumption, ExcessType, InFlightCounted DEF IInv
<1>1. TypeOK' /\ Counted'
  BY DEF NewDay, TypeOK, Counted, Days
<1>2. InFlight' = InFlight
  BY DEF NewDay, InFlight
<1>3. served'[today'] = 0
  BY DEF NewDay, TypeOK, Counted, Days
<1>4. PromisedBounded'
  BY <1>2, <1>3 DEF PromisedBounded, Excess
<1>. QED  BY <1>1, <1>4 DEF NewDay, AdmissionBounded, Excess

LEMMA ResetKeeps ==
  ASSUME IInv, Reset
  PROVE  IInv'
<1>. USE QuotaAssumption, ExcessType, InFlightCounted DEF IInv
<1>1. TypeOK' /\ Counted'
  BY DEF Reset, TypeOK, Counted
<1>2. InFlight' = InFlight
  BY DEF Reset, InFlight
<1>3. served'[today'] = 0
  BY DEF Reset, TypeOK
<1>4. PromisedBounded'
  BY <1>2, <1>3 DEF PromisedBounded, Excess
<1>. QED  BY <1>1, <1>4 DEF Reset, AdmissionBounded, Excess

LEMMA StutterKeeps ==
  ASSUME IInv, UNCHANGED vars
  PROVE  IInv'
<1>1. InFlight' = InFlight
  BY DEF vars, InFlight
<1>. QED  BY <1>1 DEF IInv, vars, TypeOK, Counted, PromisedBounded, AdmissionBounded, Excess

LEMMA NextIInv == IInv /\ [Next]_vars => IInv'
BY CheckKeeps, IncrementKeeps, IncrementInVainKeeps, AbandonKeeps, NewDayKeeps, ResetKeeps,
   StutterKeeps DEF Next

---------------------------------------------------------------------------

\* A role's limit is exceeded by at most the lag of the reads and the number
\* of requests that run at once, less one (process_chat's quota check).
THEOREM ExcessIsBounded == Spec => []AdmissionBounded
<1>1. IInv => AdmissionBounded
  BY DEF IInv
<1>. QED  BY <1>1, InitIInv, NextIInv, PTL DEF Spec

===========================================================================
