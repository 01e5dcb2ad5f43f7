------------------------ MODULE WorkspaceClientProofs ------------------------
(***************************************************************************)
(* What a page may rely on, for any number of cases, calls, pages and      *)
(* other people.  The invariant follows the calls: what each carries is    *)
(* related to the store it was sent to, or will be applied to, and to the  *)
(* page it will return to.                                                 *)
(***************************************************************************)
EXTENDS WorkspaceClient, TLAPS

---------------------------------------------------------------------------
(* The invariant.                                                          *)

\* A list asks for no case, the others for one; only changes are loaded.
Shaped(c) ==
  c # Free =>
    /\ c \in Sent \cup Answers \cup Errors
    /\ IF c.kind = "list" THEN c.id = None ELSE c.id \in Ids
    /\ c.phase = "loaded" => c.kind \in Changes
    /\ c.phase = "claimed" => c.kind = "execute"

\* What the call in slot s will do, or did, to the store.  A change carries the
\* version that was displayed, an execution after its claim the one it wrote.
Founded(c, s) ==
  c # Free =>
    /\ c.kind = "create" /\ c.phase = "sent" => version[c.id] = 0
    /\ c.kind \in Changes /\ c.phase \in {"sent", "loaded"} =>
         /\ c.version = displayed[s]
         /\ c.version \in 1..version[c.id]
    /\ c.phase = "claimed" =>
         /\ c.version = displayed[s] + 1
         /\ c.version \in 1..version[c.id]
    /\ c.phase = "ok" =>
         /\ \A id \in Ids : c.list[id] <= version[id]
         /\ c.kind # "list" => c.version \in 1..version[c.id]

\* What a call of the present page finds there when it returns.  A list that
\* was read has all that the page shows and was told, except what it was told
\* since.
Expected(c) ==
  c # Free /\ c.current =>
    /\ c.kind = "list" => loading
    /\ c.kind = "list" /\ c.phase = "ok" =>
         \A id \in Ids \ raced : c.list[id] >= shown[id] /\ c.list[id] >= acked[id]
    /\ c.kind \in Changes /\ c.phase # "error" /\ c.id \notin outdated => shown[c.id] > 0

CallsOK == \A s \in Calls : Shaped(call[s]) /\ Founded(call[s], s) /\ Expected(call[s])

PendingList(c) == c # Free /\ c.kind = "list" /\ c.current

OneList == \A s, t \in Calls : PendingList(call[s]) /\ PendingList(call[t]) => s = t

\* Nothing else is about a case that is being created.
CreatesApart ==
  \A s, t \in Calls :
    /\ call[s] # Free /\ call[s].kind = "create" /\ call[s].phase = "sent"
    /\ call[t] # Free
    /\ s # t
    => call[t].id # call[s].id

\* The page is behind the store; what was raced, or is outdated, was told.
VersionsOK ==
  /\ \A id \in Ids : shown[id] <= version[id] /\ acked[id] <= version[id]
  /\ \A id \in raced \cup outdated : acked[id] > 0

IInv == TypeOK /\ CallsOK /\ OneList /\ CreatesApart /\ VersionsOK /\ OwnChangeStaysShown

---------------------------------------------------------------------------
(* Calls and bounds.                                                       *)

AnyCall == Sent \cup Answers \cup Errors

LEMMA Bounds ==
  /\ MaxOthers \in Nat /\ MaxMine \in Nat /\ MaxLost \in Nat /\ MaxMounts \in Nat
  /\ Capacity \in Nat /\ Capacity > 0
  /\ First \in Ids /\ None \notin Ids
BY WorkspaceAssumption

\* The phase tells what a call has.
LEMMA CallFacts ==
  /\ Free.phase = "free"
  /\ \A c \in AnyCall :
       /\ c # Free
       /\ c.phase \in {"sent", "loaded", "claimed", "ok", "error"}
       /\ c.kind \in Kinds /\ c.current \in BOOLEAN /\ c.id \in Ids \cup {None}
       /\ c.version \in Versions
       /\ c.phase \in {"sent", "loaded", "claimed"} => c \in Sent
       /\ c.phase = "ok" => c \in Answers /\ c.list \in Lists
       /\ c.phase = "error" => c \in Errors
BY DEF AnyCall, Free, Sent, Answers, Errors

\* A slot holds nothing or a call, and a step on one slot leaves the others.
LEMMA SlotFacts ==
  ASSUME TypeOK, NEW s \in Calls
  PROVE  call[s] = Free \/ call[s] \in AnyCall
BY DEF TypeOK, AnyCall

LEMMA OneSlot ==
  ASSUME TypeOK, NEW s \in Calls, NEW c \in {Free} \cup AnyCall, call' = [call EXCEPT ![s] = c]
  PROVE  /\ call' \in [Calls -> {Free} \cup Sent \cup Answers \cup Errors]
         /\ \A t \in Calls : call'[t] = IF t = s THEN c ELSE call[t]
BY DEF TypeOK, AnyCall

\* A call that stays as it is, while versions only grow.
LEMMA StaysFounded ==
  ASSUME IInv, TypeOK', NEW t \in Calls, call'[t] = call[t], displayed'[t] = displayed[t],
         \A id \in Ids : version'[id] >= version[id],
         call[t] # Free /\ call[t].kind = "create" /\ call[t].phase = "sent" =>
           version'[call[t].id] = 0
  PROVE  Shaped(call[t])' /\ Founded(call[t], t)'
<1>. DEFINE c == call[t]
<1>1. Shaped(c) /\ Founded(c, t)
  BY DEF IInv, CallsOK
<1>2. Shaped(call[t])'
  BY <1>1 DEF Shaped
<1>3. CASE c = Free
  BY <1>2, <1>3 DEF Founded
<1>4. CASE c \in AnyCall
  <2>1. /\ c.version \in Nat
        /\ version \in [Ids -> Nat] /\ version' \in [Ids -> Nat]
        /\ c.phase = "ok" => c.list \in [Ids -> Nat]
    BY <1>4, Bounds, CallFacts DEF IInv, TypeOK, Lists, Versions
  <2>2. c.kind # "list" => c.id \in Ids
    BY <1>1, <1>4, CallFacts DEF Shaped
  <2>3. c.phase = "ok" => \A id \in Ids : c.list[id] <= version'[id]
    BY <1>1, <1>4, <2>1, CallFacts DEF Founded
  <2>4. c.kind # "list" /\ c.version \in 1..version[c.id] => c.version \in 1..version'[c.id]
    BY <2>1, <2>2
  <2>5. c.kind \in Changes => c.kind # "list"
    BY DEF Changes
  <2>6. c.phase = "claimed" => c.kind # "list"
    BY <1>1, <1>4, CallFacts DEF Shaped
  <2>. QED  BY <1>1, <1>2, <1>4, <2>3, <2>4, <2>5, <2>6, CallFacts DEF Founded
<1>5. IInv => TypeOK
  BY DEF IInv
<1>. QED  BY <1>3, <1>4, <1>5, SlotFacts

---------------------------------------------------------------------------
(* The API.                                                                *)

\* A step of the API on the call in s, which becomes c.
LEMMA ApiStep ==
  ASSUME IInv, NEW s \in Calls, call[s] # Free, call[s].phase # "error",
         NEW c \in AnyCall, call' = [call EXCEPT ![s] = c],
         c.kind = call[s].kind, c.current = call[s].current, c.id = call[s].id,
         c.phase # "sent",
         c.phase = "loaded" => /\ c.kind \in Changes
                               /\ c.version = displayed[s]
                               /\ c.version \in 1..version[c.id],
         c.phase = "claimed" => /\ c.kind = "execute"
                                /\ c.version = displayed[s] + 1
                                /\ c.version \in 1..version'[c.id],
         c.phase = "ok" => /\ \A id \in Ids : c.list[id] <= version[id]
                           /\ c.kind = "list" => c.list = version
                           /\ c.kind # "list" => c.version \in 1..version'[c.id],
         UNCHANGED <<page, lost, mounts, others, acked, raced, outdated, displayed>>,
         mine' \in Nat,
         version' \in Lists, \A id \in Ids : version'[id] >= version[id],
         \A t \in Calls \ {s} : call[t] # Free /\ call[t].kind = "create" /\ call[t].phase = "sent"
                                  => version'[call[t].id] = version[call[t].id]
  PROVE  IInv'
<1>1. /\ call' \in [Calls -> {Free} \cup Sent \cup Answers \cup Errors]
      /\ \A t \in Calls : call'[t] = IF t = s THEN c ELSE call[t]
  BY OneSlot DEF IInv
<1>2. TypeOK'
  BY <1>1 DEF IInv, TypeOK, page
<1>3. /\ version \in [Ids -> Nat] /\ version' \in [Ids -> Nat] /\ shown \in [Ids -> Nat]
      /\ acked \in [Ids -> Nat] /\ raced \subseteq Ids
      /\ \A id \in Ids : shown[id] <= version[id] /\ acked[id] <= version[id]
  BY Bounds DEF IInv, TypeOK, Lists, Versions, VersionsOK
<1>4. VersionsOK'
  BY <1>3 DEF IInv, VersionsOK, page
<1>5. OwnChangeStaysShown'
  BY DEF IInv, OwnChangeStaysShown, page
<1>6. ASSUME NEW t \in Calls, t # s
      PROVE  Shaped(call[t])' /\ Founded(call[t], t)' /\ Expected(call[t])'
  <2>1. call'[t] = call[t] /\ displayed'[t] = displayed[t] /\ shown' = shown /\ loading' = loading
        /\ raced' = raced /\ acked' = acked /\ outdated' = outdated
    BY <1>1, <1>6 DEF page
  <2>2. Founded(call[t], t) /\ Expected(call[t])
    BY DEF IInv, CallsOK
  <2>3. call[t] # Free /\ call[t].kind = "create" /\ call[t].phase = "sent" =>
          version'[call[t].id] = 0
    BY <1>6, <2>2 DEF Founded
  <2>4. Shaped(call[t])' /\ Founded(call[t], t)'
    BY <1>2, <2>1, <2>3, StaysFounded
  <2>5. Expected(call[t])'
    BY <2>1, <2>2 DEF Expected
  <2>. QED  BY <2>4, <2>5
<1>7. c # Free /\ c.phase \in {"loaded", "claimed", "ok", "error"} /\ call'[s] = c
  BY <1>1, CallFacts
<1>8. Shaped(call[s])'
  BY <1>7 DEF IInv, CallsOK, Shaped, AnyCall
<1>9. /\ c.kind # "list" => c.id \in Ids
      /\ c.kind \in Changes => c.kind # "list"
  BY DEF IInv, CallsOK, Shaped, Changes
<1>10. Founded(call[s], s)'
  <2>1. c.version \in Nat /\ (c.phase = "ok" => c.list \in [Ids -> Nat])
    BY CallFacts, Bounds DEF Lists, Versions
  <2>2. c.phase = "ok" => \A id \in Ids : c.list[id] <= version'[id]
    BY <1>3, <2>1
  <2>3. c.phase = "loaded" => c.version \in 1..version'[c.id]
    BY <1>3, <1>9, <2>1
  <2>. QED  BY <1>7, <2>2, <2>3 DEF Founded
<1>11. Expected(call[s])'
  <2>1. Expected(call[s])
    BY DEF IInv, CallsOK
  <2>2. c.phase = "ok" /\ c.kind = "list" =>
          \A id \in Ids : c.list[id] >= shown[id] /\ c.list[id] >= acked[id]
    BY <1>3
  <2>. QED  BY <1>7, <2>1, <2>2 DEF Expected, page
<1>12. CallsOK'
  BY <1>6, <1>8, <1>10, <1>11 DEF CallsOK
<1>13. \A t \in Calls : PendingList(call'[t]) <=> PendingList(call[t])
  BY <1>1, <1>7 DEF PendingList
<1>14. OneList'
  BY <1>13 DEF IInv, OneList, PendingList
<1>15. CreatesApart'
  BY <1>1, <1>7 DEF IInv, CreatesApart
<1>. QED  BY <1>2, <1>4, <1>5, <1>12, <1>14, <1>15 DEF IInv

\* One that leaves the store alone.
LEMMA ApiReads ==
  ASSUME IInv, NEW s \in Calls, call[s] # Free, call[s].phase # "error",
         NEW c \in AnyCall, call' = [call EXCEPT ![s] = c],
         c.kind = call[s].kind, c.current = call[s].current, c.id = call[s].id,
         \/ /\ c.phase = "loaded" /\ call[s].phase = "sent" /\ c.kind \in Changes
            /\ c.version = call[s].version
         \/ c.phase = "ok" /\ c.kind = "list" /\ c.list = version
         \/ c.phase = "error",
         UNCHANGED <<version, page, lost, mounts, others, mine, acked, raced, outdated, displayed>>
  PROVE  IInv'
<1>1. /\ version' \in Lists /\ mine' \in Nat
      /\ \A id \in Ids : version'[id] >= version[id] /\ version[id] <= version[id]
  <2>1. \A id \in Ids : version[id] \in Nat
    BY Bounds DEF IInv, TypeOK, Lists, Versions
  <2>. QED  BY <2>1 DEF IInv, TypeOK
<1>2. c.phase # "sent" /\ c.phase # "claimed"
  OBVIOUS
<1>3. c.phase = "loaded" => /\ c.kind \in Changes
                            /\ c.version = displayed[s]
                            /\ c.version \in 1..version[c.id]
  BY DEF IInv, CallsOK, Founded
<1>4. c.phase = "ok" => /\ \A id \in Ids : c.list[id] <= version[id]
                        /\ c.kind = "list" => c.list = version
                        /\ c.kind # "list" => c.version \in 1..version'[c.id]
  BY <1>1
<1>5. \A t \in Calls \ {s} : call[t] # Free /\ call[t].kind = "create" /\ call[t].phase = "sent"
                               => version'[call[t].id] = version[call[t].id]
  OBVIOUS
<1>. QED  BY <1>1, <1>2, <1>3, <1>4, <1>5, ApiStep

\* The answer the API gives, of whatever kind.
LEMMA AnswerFacts ==
  ASSUME IInv, NEW s \in Calls, call[s] # Free, NEW v \in Versions, Returns(s, v)
  PROVE  \E c \in AnyCall :
           /\ call' = [call EXCEPT ![s] = c]
           /\ c.kind = call[s].kind /\ c.current = call[s].current /\ c.id = call[s].id
           /\ c.phase = "ok" /\ c.version = v
           /\ c.kind = "list" => c.list = version
           /\ \A id \in Ids : c.list[id] <= version[id]
<1>. DEFINE l == IF call[s].kind = "list" THEN version ELSE NoCase
            c == [phase |-> "ok", kind |-> call[s].kind, current |-> call[s].current,
                  id |-> call[s].id, version |-> v, list |-> l]
<1>1. call[s] \in AnyCall /\ version \in Lists /\ version \in [Ids -> Nat]
  BY SlotFacts, Bounds DEF IInv, TypeOK, Lists, Versions
<1>2. l \in Lists /\ \A id \in Ids : l[id] <= version[id]
  BY <1>1, Bounds DEF NoCase, Lists, Versions
<1>3. call[s].kind = "list" => l = version
  OBVIOUS
<1>4. call' = [call EXCEPT ![s] = c]
  BY DEF Returns
<1>. HIDE DEF l
<1>5. c \in AnyCall
  BY <1>1, <1>2, CallFacts DEF AnyCall, Answers
<1>. QED  BY <1>2, <1>3, <1>4, <1>5

LEMMA ServeListKeeps ==
  ASSUME IInv, NEW s \in Calls, ServeList(s)
  PROVE  IInv'
<1>1. call[s].phase = "sent" /\ call[s].kind = "list" /\ call[s] # Free
  BY CallFacts DEF ServeList, At
<1>2. 0 \in Versions
  BY Bounds DEF Versions
<1>3. PICK c \in AnyCall :
           /\ call' = [call EXCEPT ![s] = c]
           /\ c.kind = call[s].kind /\ c.current = call[s].current /\ c.id = call[s].id
           /\ c.phase = "ok" /\ c.version = 0
           /\ c.kind = "list" => c.list = version
           /\ \A id \in Ids : c.list[id] <= version[id]
  BY <1>1, <1>2, AnswerFacts DEF ServeList
<1>4. UNCHANGED <<version, page, lost, mounts, others, mine, acked, raced, outdated, displayed>>
  BY DEF ServeList, history
<1>. QED  BY <1>1, <1>3, <1>4, ApiReads

\* The one step that takes a version from 0: of the case nobody else has.
LEMMA ServeCreateKeeps ==
  ASSUME IInv, NEW s \in Calls, ServeCreate(s)
  PROVE  IInv'
<1>1. call[s].phase = "sent" /\ call[s].kind = "create" /\ call[s] # Free
  BY CallFacts DEF ServeCreate, At
<1>2. 1 \in Versions
  BY Bounds DEF Versions
<1>3. PICK c \in AnyCall :
           /\ call' = [call EXCEPT ![s] = c]
           /\ c.kind = call[s].kind /\ c.current = call[s].current /\ c.id = call[s].id
           /\ c.phase = "ok" /\ c.version = 1
           /\ c.kind = "list" => c.list = version
           /\ \A id \in Ids : c.list[id] <= version[id]
  BY <1>1, <1>2, AnswerFacts DEF ServeCreate
<1>4. /\ version' = [version EXCEPT ![call[s].id] = 1]
      /\ UNCHANGED <<page, lost, mounts, others, mine, acked, raced, outdated, displayed>>
  BY DEF ServeCreate, history
<1>5. call[s].id \in Ids /\ version[call[s].id] = 0
  BY <1>1 DEF IInv, CallsOK, Shaped, Founded
<1>6. version \in [Ids -> Nat] /\ mine' \in Nat
  BY <1>4, Bounds DEF IInv, TypeOK, Lists, Versions
<1>7. \A id \in Ids : version'[id] = IF id = call[s].id THEN 1 ELSE version[id]
  BY <1>4, <1>6
<1>8. \A id \in Ids : version'[id] >= version[id]
  BY <1>5, <1>6, <1>7
<1>9. version' \in Lists
  BY <1>2, <1>4 DEF IInv, TypeOK, Lists
<1>10. \A t \in Calls \ {s} : call[t] # Free => call[t].id # call[s].id
  BY <1>1 DEF IInv, CreatesApart
<1>11. \A t \in Calls \ {s} : call[t] # Free /\ call[t].kind = "create" /\ call[t].phase = "sent"
                                => version'[call[t].id] = version[call[t].id]
  BY <1>7, <1>10 DEF IInv, CallsOK, Shaped
<1>12. c.version \in 1..version'[c.id] /\ c.kind # "list"
  BY <1>1, <1>3, <1>5, <1>7
<1>. QED  BY <1>1, <1>3, <1>4, <1>6, <1>8, <1>9, <1>11, <1>12, ApiStep

\* The call in s in another phase, with the version it was sent with.
LEMMA PhaseOnly ==
  ASSUME IInv, NEW s \in Calls, call[s].phase \in {"sent", "loaded", "claimed"},
         NEW phase \in {"loaded", "error"}, call' = [call EXCEPT ![s].phase = phase]
  PROVE  \E c \in AnyCall :
           /\ call' = [call EXCEPT ![s] = c]
           /\ c.kind = call[s].kind /\ c.current = call[s].current /\ c.id = call[s].id
           /\ c.phase = phase /\ c.version = call[s].version
<1>. DEFINE c == [call[s] EXCEPT !.phase = phase]
<1>1. call[s] \in Sent
  BY SlotFacts, CallFacts DEF IInv
<1>2. /\ c \in AnyCall
      /\ c.kind = call[s].kind /\ c.current = call[s].current /\ c.id = call[s].id
      /\ c.phase = phase /\ c.version = call[s].version
  BY <1>1 DEF AnyCall, Sent, Errors
<1>. QED  BY <1>2

LEMMA LoadKeeps ==
  ASSUME IInv, NEW s \in Calls, Load(s)
  PROVE  IInv'
<1>1. call[s].phase = "sent" /\ call[s].kind \in Changes /\ call[s] # Free
  BY CallFacts DEF Load
<1>2. PICK phase \in {"loaded", "error"} : call' = [call EXCEPT ![s].phase = phase]
  BY DEF Load
<1>3. PICK c \in AnyCall :
           /\ call' = [call EXCEPT ![s] = c]
           /\ c.kind = call[s].kind /\ c.current = call[s].current /\ c.id = call[s].id
           /\ c.phase = phase /\ c.version = call[s].version
  BY <1>1, <1>2, PhaseOnly
<1>4. UNCHANGED <<version, page, lost, mounts, others, mine, acked, raced, outdated, displayed>>
  BY DEF Load, history
<1>. QED  BY <1>1, <1>3, <1>4, ApiReads

\* A write that fits, of a call that is c from then on.
LEMMA WriteKeeps ==
  ASSUME IInv, NEW s \in Calls, call[s] # Free, call[s].kind \in Changes,
         call[s].phase \in {"loaded", "claimed"}, Fits(s), Writes(s), mine' \in Nat,
         UNCHANGED <<page, lost, mounts, others, acked, raced, outdated, displayed>>,
         NEW c \in AnyCall, call' = [call EXCEPT ![s] = c],
         c.kind = call[s].kind, c.current = call[s].current, c.id = call[s].id,
         c.version = call[s].version + 1,
         \/ c.phase = "claimed" /\ c.kind = "execute" /\ call[s].phase = "loaded"
         \/ c.phase = "ok" /\ \A id \in Ids : c.list[id] <= version[id]
  PROVE  IInv'
<1>1. /\ version \in [Ids -> Nat] /\ call[s].id \in Ids /\ Capacity \in Nat
      /\ c.kind # "list"
  BY Bounds DEF IInv, TypeOK, Lists, Versions, CallsOK, Shaped, Changes
<1>2. /\ version[call[s].id] = call[s].version /\ call[s].version < Capacity
      /\ version' = [version EXCEPT ![call[s].id] = @ + 1]
  BY DEF Fits, Writes
<1>3. call[s].version \in Nat /\ call[s].version + 1 \in Versions
  BY <1>1, <1>2 DEF Versions
<1>4. \A id \in Ids : version'[id] = IF id = call[s].id THEN call[s].version + 1 ELSE version[id]
  BY <1>1, <1>2
<1>5. \A id \in Ids : version'[id] >= version[id]
  BY <1>1, <1>2, <1>4
<1>6. version' \in Lists
  BY <1>2, <1>3 DEF IInv, TypeOK, Lists
<1>7. \A t \in Calls \ {s} : call[t] # Free /\ call[t].kind = "create" /\ call[t].phase = "sent"
                              => version'[call[t].id] = version[call[t].id]
  BY <1>4 DEF IInv, CallsOK, Shaped, CreatesApart
<1>8. c.version \in 1..version'[c.id]
  BY <1>1, <1>3, <1>4
<1>9. call[s].phase = "loaded" => c.version = displayed[s] + 1
  BY DEF IInv, CallsOK, Founded
<1>. QED  BY <1>1, <1>5, <1>6, <1>7, <1>8, <1>9, ApiStep

LEMMA RefusalKeeps ==
  ASSUME IInv, NEW s \in Calls, call[s].phase \in {"loaded", "claimed"}, Refused(s),
         UNCHANGED <<page, lost, mounts, others, acked, raced, outdated, displayed>>
  PROVE  IInv'
<1>1. call[s] # Free
  BY CallFacts
<1>2. call' = [call EXCEPT ![s].phase = "error"] /\ UNCHANGED <<version, mine>>
  BY DEF Refused
<1>3. PICK c \in AnyCall :
           /\ call' = [call EXCEPT ![s] = c]
           /\ c.kind = call[s].kind /\ c.current = call[s].current /\ c.id = call[s].id
           /\ c.phase = "error" /\ c.version = call[s].version
  BY <1>2, PhaseOnly
<1>. QED  BY <1>1, <1>2, <1>3, ApiReads

\* The version a call would write is one.
LEMMA NextVersion ==
  ASSUME IInv, NEW s \in Calls, call[s] # Free, Fits(s)
  PROVE  call[s].version + 1 \in Versions
BY SlotFacts, CallFacts, Bounds DEF IInv, Fits, Versions

\* A write that is answered, the only one of a change or the last of an
\* execution.
LEMMA AnswerKeeps ==
  ASSUME IInv, NEW s \in Calls, call[s] # Free, call[s].kind \in Changes,
         call[s].phase \in {"loaded", "claimed"}, Fits(s), Writes(s), mine' \in Nat,
         Returns(s, call[s].version + 1),
         UNCHANGED <<page, lost, mounts, others, acked, raced, outdated, displayed>>
  PROVE  IInv'
<1>1. PICK c \in AnyCall :
           /\ call' = [call EXCEPT ![s] = c]
           /\ c.kind = call[s].kind /\ c.current = call[s].current /\ c.id = call[s].id
           /\ c.phase = "ok" /\ c.version = call[s].version + 1
           /\ c.kind = "list" => c.list = version
           /\ \A id \in Ids : c.list[id] <= version[id]
  BY NextVersion, AnswerFacts
<1>. QED  BY <1>1, WriteKeeps

LEMMA SaveKeeps ==
  ASSUME IInv, NEW s \in Calls, Save(s)
  PROVE  IInv'
<1>1. /\ call[s].phase = "loaded" /\ call[s].kind \in Changes /\ call[s] # Free
      /\ UNCHANGED <<page, lost, mounts, others, acked, raced, outdated, displayed>>
  BY CallFacts DEF Save, At, Changes
<1>2. mine \in Nat
  BY DEF IInv, TypeOK
<1>3. \/ Fits(s) /\ Writes(s) /\ Returns(s, call[s].version + 1) /\ mine' = mine + 1
      \/ Refused(s)
  BY DEF Save
<1>. QED  BY <1>1, <1>2, <1>3, AnswerKeeps, RefusalKeeps

LEMMA ClaimKeeps ==
  ASSUME IInv, NEW s \in Calls, Claim(s)
  PROVE  IInv'
<1>1. /\ call[s].phase = "loaded" /\ call[s].kind = "execute" /\ call[s] # Free
      /\ UNCHANGED <<page, lost, mounts, others, acked, raced, outdated, displayed>>
  BY CallFacts DEF Claim, At
<1>2. call[s].kind \in Changes
  BY <1>1 DEF Changes
<1>3. CASE Refused(s)
  BY <1>1, <1>3, RefusalKeeps
<1>4. CASE /\ Fits(s) /\ Writes(s) /\ mine' = mine + 1
           /\ call' = [call EXCEPT ![s].phase = "claimed", ![s].version = @ + 1]
  <2>. DEFINE c == [call[s] EXCEPT !.phase = "claimed", !.version = @ + 1]
  <2>1. call[s] \in Sent /\ call[s].version + 1 \in Versions
    BY <1>1, <1>4, NextVersion, SlotFacts, CallFacts DEF IInv
  <2>2. /\ c \in AnyCall
        /\ c.kind = call[s].kind /\ c.current = call[s].current /\ c.id = call[s].id
        /\ c.phase = "claimed" /\ c.version = call[s].version + 1
    BY <2>1 DEF AnyCall, Sent
  <2>3. call' = [call EXCEPT ![s] = c]
    BY <1>4
  <2>4. mine' \in Nat
    BY <1>4 DEF IInv, TypeOK
  <2>. HIDE DEF c
  <2>. QED  BY <1>1, <1>2, <1>4, <2>2, <2>3, <2>4, WriteKeeps
<1>. QED  BY <1>3, <1>4 DEF Claim

LEMMA SettleKeeps ==
  ASSUME IInv, NEW s \in Calls, Settle(s)
  PROVE  IInv'
<1>1. /\ call[s].phase = "claimed" /\ call[s].kind \in Changes /\ call[s] # Free
      /\ UNCHANGED <<page, lost, mounts, others, acked, raced, outdated, displayed>>
  BY CallFacts DEF Settle, At, Changes
<1>2. mine \in Nat
  BY DEF IInv, TypeOK
<1>3. \/ Fits(s) /\ Writes(s) /\ Returns(s, call[s].version + 1) /\ mine' = mine
      \/ Refused(s)
  BY DEF Settle
<1>. QED  BY <1>1, <1>2, <1>3, AnswerKeeps, RefusalKeeps

\* Others write where there is a case, and room.
LEMMA OtherWriteKeeps ==
  ASSUME IInv, OtherWrite
  PROVE  IInv'
<1>1. PICK id \in Ids : /\ version[id] \in 1..(Capacity - 1)
                        /\ version' = [version EXCEPT ![id] = @ + 1]
  BY DEF OtherWrite
<1>2. /\ others' = others + 1 /\ others < MaxOthers
      /\ UNCHANGED <<page, call, lost, mounts, mine, acked, raced, outdated, displayed>>
  BY DEF OtherWrite
<1>3. /\ version \in [Ids -> Nat] /\ shown \in [Ids -> Nat] /\ acked \in [Ids -> Nat]
      /\ others' \in 0..MaxOthers /\ Capacity \in Nat
  BY <1>2, Bounds DEF IInv, TypeOK, Lists, Versions
<1>4. \A i \in Ids : version'[i] = IF i = id THEN version[i] + 1 ELSE version[i]
  BY <1>1, <1>3
<1>5. VersionsOK'
  BY <1>2, <1>3, <1>4 DEF IInv, VersionsOK, page
<1>6. version' \in Lists
  <2>1. version[id] + 1 \in Versions
    BY <1>1, <1>3 DEF Versions
  <2>. QED  BY <1>1, <2>1 DEF IInv, TypeOK, Lists
<1>7. TypeOK'
  BY <1>2, <1>3, <1>6 DEF IInv, TypeOK, page
<1>8. CallsOK'
  <2>1. SUFFICES ASSUME NEW t \in Calls
                 PROVE  Shaped(call[t])' /\ Founded(call[t], t)' /\ Expected(call[t])'
    BY DEF CallsOK
  <2>2. call[t] # Free /\ call[t].kind = "create" /\ call[t].phase = "sent" =>
          version'[call[t].id] = 0
    BY <1>1, <1>4 DEF IInv, CallsOK, Shaped, Founded
  <2>3. Shaped(call[t])' /\ Founded(call[t], t)'
    BY <1>2, <1>3, <1>4, <1>7, <2>2, StaysFounded
  <2>4. Expected(call[t])'
    BY <1>2 DEF page, IInv, CallsOK, Expected
  <2>. QED  BY <2>3, <2>4
<1>9. OneList' /\ CreatesApart' /\ OwnChangeStaysShown'
  BY <1>2 DEF IInv, OneList, PendingList, CreatesApart, OwnChangeStaysShown, page
<1>. QED  BY <1>5, <1>7, <1>8, <1>9 DEF IInv

---------------------------------------------------------------------------
(* The person.                                                             *)

\* A call c is sent from slot s; what the page shows stays.
LEMMA SendKeeps ==
  ASSUME IInv, NEW s \in Calls, call[s] = Free, NEW c \in Sent, call' = [call EXCEPT ![s] = c],
         c.phase = "sent", Shaped(c),
         UNCHANGED <<version, shown, selected, lost, mounts, others, mine, acked, raced, outdated>>,
         loading' \in BOOLEAN, busy' \in BOOLEAN, error' \in BOOLEAN, loading => loading',
         NEW d \in Versions, displayed' = [displayed EXCEPT ![s] = d],
         c.kind = "list" => ~ loading /\ loading',
         c.kind = "create" => /\ version[c.id] = 0
                              /\ \A t \in Calls : call[t] # Free => call[t].id # c.id,
         c.kind \in Changes => /\ c.version = d
                               /\ c.version \in 1..version[c.id]
                               /\ shown[c.id] > 0
  PROVE  IInv'
<1>1. c \in AnyCall
  BY DEF AnyCall
<1>2. /\ call' \in [Calls -> {Free} \cup Sent \cup Answers \cup Errors]
      /\ \A t \in Calls : call'[t] = IF t = s THEN c ELSE call[t]
  BY <1>1, OneSlot DEF IInv
<1>3. TypeOK'
  BY <1>2 DEF IInv, TypeOK
<1>4. /\ displayed'[s] = d
      /\ \A t \in Calls \ {s} : displayed'[t] = displayed[t]
  BY DEF IInv, TypeOK
<1>5. \A id \in Ids : version[id] \in Nat
  BY Bounds DEF IInv, TypeOK, Lists, Versions
<1>6. CallsOK'
  <2>1. ASSUME NEW t \in Calls, t # s
        PROVE  Shaped(call[t])' /\ Founded(call[t], t)' /\ Expected(call[t])'
    <3>1. call'[t] = call[t] /\ displayed'[t] = displayed[t]
      BY <1>2, <1>4, <2>1
    <3>2. call[t] # Free /\ call[t].kind = "create" /\ call[t].phase = "sent" =>
            version'[call[t].id] = 0
      BY DEF IInv, CallsOK, Founded
    <3>3. \A id \in Ids : version'[id] >= version[id]
      BY <1>5
    <3>4. Shaped(call[t])' /\ Founded(call[t], t)'
      BY <1>3, <3>1, <3>2, <3>3, StaysFounded
    <3>5. Expected(call[t])'
      BY <3>1 DEF IInv, CallsOK, Expected
    <3>. QED  BY <3>4, <3>5
  <2>2. call'[s] = c /\ c # Free
    BY <1>1, <1>2, CallFacts
  <2>3. Shaped(call[s])'
    BY <2>2 DEF Shaped
  <2>4. Founded(call[s], s)'
    BY <1>4, <2>2 DEF Founded
  <2>5. Expected(call[s])'
    BY <2>2 DEF Expected
  <2>. QED  BY <2>1, <2>3, <2>4, <2>5 DEF CallsOK
<1>7. OneList'
  <2>1. \A t \in Calls : PendingList(call[t]) => loading
    BY DEF IInv, CallsOK, Expected, PendingList
  <2>2. \A t \in Calls : PendingList(call'[t]) => PendingList(call[t]) \/ (t = s /\ c.kind = "list")
    <3>1. PendingList(c) => c.kind = "list"
      BY DEF PendingList
    <3>2. SUFFICES ASSUME NEW t \in Calls, PendingList(call'[t])
                   PROVE  PendingList(call[t]) \/ (t = s /\ c.kind = "list")
      OBVIOUS
    <3>3. CASE t = s
      <4>1. call'[t] = c
        BY <1>2, <3>3
      <4>. QED  BY <3>1, <3>2, <3>3, <4>1
    <3>4. CASE t # s
      <4>1. call'[t] = call[t]
        BY <1>2, <3>4
      <4>. QED  BY <3>2, <4>1
    <3>. QED  BY <3>3, <3>4
  <2>3. \A t, u \in Calls : PendingList(call'[t]) /\ PendingList(call'[u]) => t = u
    BY <2>1, <2>2 DEF IInv, OneList
  <2>. QED  BY <2>3 DEF OneList, PendingList
<1>8. CreatesApart'
  <2>1. ASSUME NEW t \in Calls, t # s, call[t] # Free, call[t].kind = "create", call[t].phase = "sent"
        PROVE  c.id # call[t].id
    <3>1. call[t].id \in Ids /\ version[call[t].id] = 0
      BY <2>1 DEF IInv, CallsOK, Shaped, Founded
    <3>2. CASE c.kind = "list"
      BY <3>1, <3>2, <1>1, CallFacts, Bounds DEF Shaped
    <3>3. CASE c.kind = "create"
      BY <2>1, <3>3
    <3>4. CASE c.kind \in Changes
      BY <3>1, <3>4
    <3>. QED  BY <1>1, <3>2, <3>3, <3>4, CallFacts DEF Kinds
  <2>2. c.kind = "create" => \A t \in Calls \ {s} : call[t] # Free => call[t].id # c.id
    OBVIOUS
  <2>. QED  BY <1>2, <2>1, <2>2 DEF IInv, CreatesApart
<1>9. VersionsOK' /\ OwnChangeStaysShown'
  BY DEF IInv, VersionsOK, OwnChangeStaysShown
<1>. QED  BY <1>3, <1>6, <1>7, <1>8, <1>9 DEF IInv

LEMMA RefreshKeeps ==
  ASSUME IInv, NEW s \in Calls, Refresh(s)
  PROVE  IInv'
<1>. DEFINE c == Call("list", None, 0)
<1>1. 0 \in Versions
  BY Bounds DEF Versions
<1>2. c \in Sent /\ c.phase = "sent" /\ c.kind = "list" /\ Shaped(c)
  BY <1>1 DEF Call, Sent, Kinds, Shaped
<1>3. /\ call[s] = Free /\ call' = [call EXCEPT ![s] = c] /\ error' = FALSE
      /\ UNCHANGED <<version, shown, selected, lost, mounts, others, mine, acked, raced, outdated>>
      /\ ~ loading /\ loading' = TRUE /\ busy' = busy
      /\ displayed' = [displayed EXCEPT ![s] = 0]
  BY DEF Refresh, Sends
<1>4. busy \in BOOLEAN
  BY DEF IInv, TypeOK
<1>. HIDE DEF c
<1>5. c.kind \notin Changes /\ c.kind # "create"
  BY <1>2 DEF Changes
<1>. QED  BY <1>1, <1>2, <1>3, <1>4, <1>5, SendKeeps

\* The case on display is one, and the page has a version of it.
LEMMA OpenFacts ==
  ASSUME IInv, Open # None
  PROVE  /\ Open \in Ids /\ shown[Open] > 0 /\ shown[Open] \in Versions
         /\ shown[Open] \in 1..version[Open]
<1>1. Open = selected /\ Open \in Ids /\ shown[Open] > 0
  BY DEF Open, IInv, TypeOK
<1>2. /\ shown[Open] \in Nat /\ version[Open] \in Nat /\ shown[Open] \in Versions
  BY <1>1, Bounds DEF IInv, TypeOK, Lists, Versions
<1>3. shown[Open] <= version[Open]
  BY <1>1 DEF IInv, VersionsOK
<1>. QED  BY <1>1, <1>2, <1>3

LEMMA ChangeKeeps ==
  ASSUME IInv, NEW s \in Calls, Change(s)
  PROVE  IInv'
<1>1. PICK kind \in Changes : Sends(s, kind, Open, shown[Open])
  BY DEF Change
<1>. DEFINE c == Call(kind, Open, shown[Open])
            d == shown[Open]
<1>2. /\ Open \in Ids /\ shown[Open] > 0 /\ d \in Versions /\ d \in 1..version[Open]
  BY OpenFacts DEF Change
<1>3. Open # None
  BY <1>2, Bounds
<1>4. /\ c \in Sent /\ c.phase = "sent" /\ c.kind \in Changes /\ c.id = Open /\ c.version = d
  BY <1>2 DEF Call, Sent, Kinds
<1>5. /\ call[s] = Free /\ call' = [call EXCEPT ![s] = c] /\ error' = FALSE
      /\ UNCHANGED <<version, shown, selected, lost, mounts, others, mine, acked, raced, outdated>>
      /\ loading' = loading /\ busy' = TRUE
      /\ displayed' = [displayed EXCEPT ![s] = d]
  BY <1>1, <1>3 DEF Change, Sends
<1>6. loading \in BOOLEAN
  BY DEF IInv, TypeOK
<1>. HIDE DEF c
<1>7. c.kind # "list" /\ c.kind # "create"
  BY <1>4 DEF Changes
<1>8. Shaped(c)
  BY <1>2, <1>4, <1>7 DEF Shaped
<1>9. c.version \in 1..version[c.id] /\ shown[c.id] > 0
  BY <1>2, <1>4
<1>. HIDE DEF d
<1>. QED  BY <1>2, <1>4, <1>5, <1>6, <1>7, <1>8, <1>9, SendKeeps

LEMMA CreateKeeps ==
  ASSUME IInv, NEW s \in Calls, Create(s)
  PROVE  IInv'
<1>1. PICK id \in Ids : /\ version[id] = 0
                        /\ \A t \in Calls : call[t] # Free => call[t].id # id
                        /\ Sends(s, "create", id, 0)
  BY DEF Create
<1>. DEFINE c == Call("create", id, 0)
            d == IF id = None THEN 0 ELSE shown[id]
<1>2. 0 \in Versions /\ d \in Versions
  BY Bounds DEF Versions, IInv, TypeOK, Lists
<1>3. c \in Sent /\ c.phase = "sent" /\ c.kind = "create" /\ c.id = id /\ Shaped(c)
  BY <1>2 DEF Call, Sent, Kinds, Shaped
<1>4. /\ call[s] = Free /\ call' = [call EXCEPT ![s] = c] /\ error' = FALSE
      /\ UNCHANGED <<version, shown, selected, lost, mounts, others, mine, acked, raced, outdated>>
      /\ loading' = loading /\ busy' = TRUE
      /\ displayed' = [displayed EXCEPT ![s] = d]
  BY <1>1 DEF Create, Sends
<1>5. loading \in BOOLEAN
  BY DEF IInv, TypeOK
<1>. HIDE DEF c, d
<1>6. c.kind \notin Changes /\ c.kind # "list"
  BY <1>3 DEF Changes
<1>. QED  BY <1>1, <1>2, <1>3, <1>4, <1>5, <1>6, SendKeeps

LEMMA SelectKeeps ==
  ASSUME IInv, Select
  PROVE  IInv'
<1>1. /\ selected' \in Ids \cup {None}
      /\ UNCHANGED <<version, shown, loading, busy, error, call, lost, mounts,
                     others, mine, acked, raced, outdated, displayed>>
  BY DEF Select, history
<1>2. TypeOK'
  BY <1>1 DEF IInv, TypeOK
<1>3. CallsOK'
  BY <1>1 DEF IInv, CallsOK, Shaped, Founded, Expected
<1>. QED  BY <1>1, <1>2, <1>3
          DEF IInv, OneList, PendingList, CreatesApart, VersionsOK, OwnChangeStaysShown

\* A new page shows nothing, and was told nothing; the calls of the old one
\* are none of its own.
LEMMA RemountKeeps ==
  ASSUME IInv, NEW s \in Calls, Remount(s)
  PROVE  IInv'
<1>. DEFINE c == Call("list", None, 0)
<1>1. 0 \in Versions
  BY Bounds DEF Versions
<1>2. c \in Sent /\ c.phase = "sent" /\ c.kind = "list" /\ c.current /\ c.id = None /\ c # Free
  BY <1>1, CallFacts DEF Call, Sent, Kinds, Free
<1>3. /\ call[s] = Free /\ shown' = NoCase /\ selected' = None /\ loading' = TRUE
      /\ busy' = FALSE /\ error' = FALSE /\ acked' = NoCase /\ raced' = {} /\ outdated' = {}
      /\ mounts' \in 0..MaxMounts
      /\ UNCHANGED <<version, lost, others, mine, displayed>>
  BY Bounds DEF Remount, IInv, TypeOK
<1>4. call' = [t \in Calls |-> IF t = s THEN c
                               ELSE IF call[t] = Free THEN Free
                               ELSE [call[t] EXCEPT !.current = FALSE]]
  BY DEF Remount
<1>. HIDE DEF c
<1>5. ASSUME NEW t \in Calls, t # s, call[t] # Free
      PROVE  /\ call'[t] \in AnyCall /\ ~ call'[t].current
             /\ call'[t].phase = call[t].phase /\ call'[t].kind = call[t].kind
             /\ call'[t].id = call[t].id /\ call'[t].version = call[t].version
             /\ call'[t].phase = "ok" => call'[t].list = call[t].list
  <2>1. call[t] \in AnyCall
    BY <1>5, SlotFacts DEF IInv
  <2>2. call'[t] = [call[t] EXCEPT !.current = FALSE]
    BY <1>4, <1>5
  <2>. QED  BY <2>1, <2>2 DEF AnyCall, Sent, Answers, Errors
<1>6. call'[s] = c /\ \A t \in Calls : t # s /\ call[t] = Free => call'[t] = Free
  BY <1>4
<1>7. call' \in [Calls -> {Free} \cup Sent \cup Answers \cup Errors]
  BY <1>2, <1>4, <1>5, <1>6 DEF AnyCall
<1>8. NoCase \in Lists /\ \A id \in Ids : NoCase[id] = 0
  BY <1>1 DEF NoCase, Lists
<1>9. TypeOK'
  BY <1>3, <1>7, <1>8 DEF IInv, TypeOK
<1>10. CallsOK'
  <2>1. Shaped(call[s])' /\ Founded(call[s], s)' /\ Expected(call[s])'
    BY <1>2, <1>3, <1>6 DEF Shaped, Founded, Expected, Changes
  <2>2. ASSUME NEW t \in Calls, t # s, call[t] = Free
        PROVE  Shaped(call[t])' /\ Founded(call[t], t)' /\ Expected(call[t])'
    BY <1>6, <2>2 DEF Shaped, Founded, Expected
  <2>3. ASSUME NEW t \in Calls, t # s, call[t] # Free
        PROVE  Shaped(call[t])' /\ Founded(call[t], t)' /\ Expected(call[t])'
    <3>1. Shaped(call[t]) /\ Founded(call[t], t)
      BY DEF IInv, CallsOK
    <3>2. Shaped(call[t])'
      BY <1>5, <2>3, <3>1 DEF Shaped, AnyCall
    <3>3. Founded(call[t], t)'
      BY <1>3, <1>5, <2>3, <3>1 DEF Founded
    <3>4. Expected(call[t])'
      BY <1>5, <2>3 DEF Expected
    <3>. QED  BY <3>2, <3>3, <3>4
  <2>. QED  BY <2>1, <2>2, <2>3 DEF CallsOK
<1>11. OneList'
  BY <1>5, <1>6 DEF OneList, PendingList
<1>12. CreatesApart'
  <2>1. ASSUME NEW t \in Calls, NEW u \in Calls, t # u,
               call'[t] # Free, call'[t].kind = "create", call'[t].phase = "sent", call'[u] # Free
        PROVE  call'[u].id # call'[t].id
    <3>1. t # s /\ call[t] # Free /\ call'[t].id = call[t].id
          /\ call[t].kind = "create" /\ call[t].phase = "sent"
      BY <1>2, <1>5, <1>6, <2>1
    <3>2. call[t].id \in Ids
      BY <3>1 DEF IInv, CallsOK, Shaped
    <3>3. CASE u = s
      BY <1>2, <1>6, <3>1, <3>2, <3>3, Bounds
    <3>4. CASE u # s
      BY <1>5, <1>6, <2>1, <3>1, <3>4 DEF IInv, CreatesApart
    <3>. QED  BY <3>3, <3>4
  <2>. QED  BY <2>1 DEF CreatesApart
<1>13. VersionsOK' /\ OwnChangeStaysShown'
  BY <1>3, <1>8, Bounds DEF IInv, VersionsOK, OwnChangeStaysShown, TypeOK, Lists, Versions
<1>. QED  BY <1>9, <1>10, <1>11, <1>12, <1>13 DEF IInv

---------------------------------------------------------------------------
(* What comes back.                                                        *)

\* Nothing of the page's is in slot s from then on: it is empty, or has what it
\* had, for nobody.
Abandoned(s, c) ==
  \/ c = Free
  \/ /\ c \in AnyCall /\ ~ c.current /\ displayed'[s] = displayed[s]
     /\ c.phase = call[s].phase /\ c.kind = call[s].kind
     /\ c.id = call[s].id /\ c.version = call[s].version
     /\ c.phase # "ok"

\* A call is over, for the page at least, which may show something else, as
\* far as its calls that are still under way allow.
LEMMA GoneKeeps ==
  ASSUME IInv, NEW s \in Calls, call[s] # Free,
         NEW c \in {Free} \cup AnyCall, Abandoned(s, c), call' = [call EXCEPT ![s] = c],
         displayed' \in [Calls -> Versions], \A t \in Calls : t # s => displayed'[t] = displayed[t],
         UNCHANGED <<version, mounts, others, mine>>, lost' \in 0..MaxLost,
         shown' \in Lists, acked' \in Lists, selected' \in Ids \cup {None},
         loading' \in BOOLEAN, busy' \in BOOLEAN, error' \in BOOLEAN,
         raced' \subseteq Ids, outdated' \subseteq Ids,
         VersionsOK', OwnChangeStaysShown',
         \A t \in Calls : t # s => Expected(call[t])'
  PROVE  IInv'
<1>1. /\ call' \in [Calls -> {Free} \cup Sent \cup Answers \cup Errors]
      /\ \A t \in Calls : call'[t] = IF t = s THEN c ELSE call[t]
  BY OneSlot DEF IInv
<1>2. TypeOK'
  BY <1>1 DEF IInv, TypeOK
<1>3. \A id \in Ids : version'[id] >= version[id]
  BY Bounds DEF IInv, TypeOK, Lists, Versions
<1>4. CallsOK'
  <2>1. Shaped(call[s])' /\ Founded(call[s], s)' /\ Expected(call[s])'
    <3>1. CASE c = Free
      BY <1>1, <3>1 DEF Shaped, Founded, Expected
    <3>2. CASE c # Free
      <4>1. c \in AnyCall /\ ~ c.current /\ c.phase # "ok" /\ call'[s] = c
        BY <1>1, <3>2 DEF Abandoned
      <4>2. Shaped(call[s]) /\ Founded(call[s], s)
        BY DEF IInv, CallsOK
      <4>3. Shaped(call[s])'
        BY <3>2, <4>1, <4>2 DEF Abandoned, Shaped, AnyCall
      <4>4. Founded(call[s], s)'
        BY <3>2, <4>1, <4>2 DEF Abandoned, Founded
      <4>. QED  BY <4>1, <4>3, <4>4 DEF Expected
    <3>. QED  BY <3>1, <3>2
  <2>2. ASSUME NEW t \in Calls, t # s
        PROVE  Shaped(call[t])' /\ Founded(call[t], t)'
    <3>1. call'[t] = call[t] /\ displayed'[t] = displayed[t]
      BY <1>1, <2>2
    <3>2. Shaped(call[t]) /\ Founded(call[t], t)
      BY DEF IInv, CallsOK
    <3>. QED  BY <3>1, <3>2 DEF Shaped, Founded
  <2>. QED  BY <2>1, <2>2 DEF CallsOK
<1>5. OneList'
  <2>1. ~ PendingList(c)
    BY DEF PendingList, Abandoned
  <2>2. \A t \in Calls : PendingList(call'[t]) => PendingList(call[t])
    BY <1>1, <2>1
  <2>3. \A t, u \in Calls : PendingList(call'[t]) /\ PendingList(call'[u]) => t = u
    BY <2>2 DEF IInv, OneList
  <2>. QED  BY <2>3 DEF OneList, PendingList
<1>6. CreatesApart'
  <2>1. c = Free \/ (c.phase = call[s].phase /\ c.kind = call[s].kind /\ c.id = call[s].id)
    BY DEF Abandoned
  <2>. QED  BY <1>1, <2>1 DEF IInv, CreatesApart
<1>. QED  BY <1>2, <1>4, <1>5, <1>6 DEF IInv

\* The other calls, and what was displayed for them, once s is over.
LEMMA OthersStay ==
  ASSUME TypeOK, NEW s \in Calls, NEW c, call' = [call EXCEPT ![s] = c]
  PROVE  \A t \in Calls : t # s => call'[t] = call[t]
BY DEF TypeOK

LEMMA EndFacts ==
  ASSUME TypeOK, NEW s \in Calls, Ends(s)
  PROVE  /\ call' = [call EXCEPT ![s] = Free]
         /\ displayed' \in [Calls -> Versions]
         /\ \A t \in Calls : t # s => displayed'[t] = displayed[t]
         /\ \A t \in Calls : t # s => call'[t] = call[t]
         /\ Abandoned(s, Free)
BY Bounds DEF TypeOK, Ends, Abandoned, Versions

LEMMA IgnoreKeeps ==
  ASSUME IInv, NEW s \in Calls, Ignore(s)
  PROVE  IInv'
<1>1. /\ Ends(s) /\ call[s] # Free
      /\ UNCHANGED <<version, lost, mounts, others, mine, shown, selected, loading,
                     busy, error, acked, raced, outdated>>
  BY CallFacts DEF Ignore, Finishes, page
<1>2. TypeOK
  BY DEF IInv
<1>3. \A t \in Calls : t # s => Expected(call[t])'
  BY <1>1, <1>2, EndFacts DEF IInv, CallsOK, Expected
<1>4. VersionsOK' /\ OwnChangeStaysShown'
  BY <1>1 DEF IInv, VersionsOK, OwnChangeStaysShown
<1>5. /\ shown' \in Lists /\ acked' \in Lists /\ selected' \in Ids \cup {None}
      /\ loading' \in BOOLEAN /\ busy' \in BOOLEAN /\ error' \in BOOLEAN /\ raced' \subseteq Ids
      /\ outdated' \subseteq Ids /\ lost' \in 0..MaxLost
  BY <1>1, <1>2 DEF TypeOK
<1>. QED  BY <1>1, <1>2, <1>3, <1>4, <1>5, EndFacts, GoneKeeps

\* A list has all that the page shows and was told, except what it was told
\* since: that is outdated now, and nothing else.
LEMMA ListArrivesKeeps ==
  ASSUME IInv, NEW s \in Calls, ListArrives(s)
  PROVE  IInv'
<1>. DEFINE c == call[s]
<1>1. /\ c.phase = "ok" /\ c.kind = "list" /\ c.current /\ c # Free
      /\ shown' = c.list /\ loading' = FALSE /\ raced' = {} /\ outdated' = raced
      /\ Ends(s)
      /\ UNCHANGED <<version, lost, mounts, others, mine, selected, busy, error, acked>>
  BY CallFacts DEF ListArrives, At, Finishes
<1>2. TypeOK
  BY DEF IInv
<1>3. /\ c.list \in Lists
      /\ \A id \in Ids : c.list[id] <= version[id]
      /\ \A id \in Ids \ raced : c.list[id] >= shown[id] /\ c.list[id] >= acked[id]
  BY <1>1, <1>2, SlotFacts, CallFacts DEF IInv, CallsOK, Founded, Expected
<1>4. /\ shown \in [Ids -> Nat] /\ c.list \in [Ids -> Nat] /\ acked \in [Ids -> Nat]
      /\ raced \subseteq Ids /\ outdated \subseteq Ids
  BY <1>3, Bounds DEF IInv, TypeOK, Lists, Versions
<1>5. OwnChangeStaysShown'
  BY <1>1, <1>3, <1>4 DEF OwnChangeStaysShown
<1>6. VersionsOK'
  BY <1>1, <1>3 DEF IInv, VersionsOK
<1>7. ASSUME NEW t \in Calls, t # s
      PROVE  Expected(call[t])'
  <2>. DEFINE e == call[t]
  <2>1. call'[t] = e /\ Expected(e)
    BY <1>1, <1>2, <1>7, EndFacts DEF IInv, CallsOK
  <2>2. ~ PendingList(e)
    BY <1>1, <1>7 DEF IInv, OneList, PendingList
  <2>3. e.kind \in Changes /\ e # Free => e.id \in Ids
    BY DEF IInv, CallsOK, Shaped, Changes
  <2>. HIDE DEF e, c
  <2>4. ASSUME e # Free, e.current, e.kind \in Changes, e.phase # "error", e.id \notin outdated'
        PROVE  shown'[e.id] > 0
    <3>1. e.id \in Ids \ raced
      BY <1>1, <2>3, <2>4
    <3>2. shown[e.id] > 0 \/ acked[e.id] > 0
      BY <2>1, <2>4 DEF Expected, IInv, VersionsOK
    <3>. QED  BY <1>1, <1>3, <1>4, <3>1, <3>2
  <2>. QED  BY <2>1, <2>2, <2>4 DEF Expected, PendingList
<1>8. /\ shown' \in Lists /\ acked' \in Lists /\ selected' \in Ids \cup {None}
      /\ loading' \in BOOLEAN /\ busy' \in BOOLEAN /\ error' \in BOOLEAN /\ raced' \subseteq Ids
      /\ outdated' \subseteq Ids /\ lost' \in 0..MaxLost
  BY <1>1, <1>2, <1>3 DEF TypeOK
<1>. QED  BY <1>1, <1>2, <1>5, <1>6, <1>7, <1>8, EndFacts, GoneKeeps

\* The page is told a version of the case id, and may show it.
LEMMA ToldKeeps ==
  ASSUME IInv, NEW s \in Calls, call[s].phase = "ok", call[s].kind # "list", call[s].current,
         Ends(s), Told(s),
         UNCHANGED <<version, lost, mounts, others, mine, loading, error>>,
         busy' = FALSE, selected' \in Ids \cup {None},
         NEW v,
         \/ v = call[s].version
         \/ call[s].kind \in Changes /\ shown[call[s].id] = 0 /\ v = 0,
         shown' = [shown EXCEPT ![call[s].id] = v]
  PROVE  IInv'
<1>. DEFINE c == call[s]
<1>1. c # Free /\ c \in Answers /\ c.version \in Versions
  BY SlotFacts, CallFacts DEF IInv
<1>2. c.id \in Ids /\ c.version \in 1..version[c.id]
      /\ (c.kind \in Changes /\ c.id \notin outdated => shown[c.id] > 0)
  BY <1>1 DEF IInv, CallsOK, Shaped, Founded, Expected
<1>3. /\ acked' = [acked EXCEPT ![c.id] = c.version]
      /\ raced' = IF loading THEN raced \cup {c.id} ELSE raced
      /\ outdated' = outdated
  BY DEF Told
<1>4. /\ shown \in [Ids -> Nat] /\ acked \in [Ids -> Nat] /\ version \in [Ids -> Nat]
      /\ raced \subseteq Ids /\ outdated \subseteq Ids /\ loading \in BOOLEAN /\ error \in BOOLEAN
      /\ c.version \in Nat /\ 0 \in Versions /\ lost \in 0..MaxLost
  BY <1>1, Bounds DEF IInv, TypeOK, Lists, Versions
<1>5. v \in Versions /\ v \in Nat /\ v <= version[c.id]
      /\ (c.id \notin outdated => v = c.version /\ v > 0)
  BY <1>1, <1>2, <1>4
<1>6. /\ call[s] # Free
      /\ \A t \in Calls : t # s => call'[t] = call[t]
  BY <1>1, EndFacts DEF IInv
<1>. HIDE DEF c
<1>7. /\ \A id \in Ids : shown'[id] = IF id = c.id THEN v ELSE shown[id]
      /\ \A id \in Ids : acked'[id] = IF id = c.id THEN c.version ELSE acked[id]
  BY <1>2, <1>3, <1>4 DEF c
<1>8. /\ shown' \in Lists /\ acked' \in Lists
  BY <1>1, <1>3, <1>5 DEF IInv, TypeOK, Lists, c
<1>9. raced \subseteq raced' /\ raced' \subseteq Ids /\ (loading => c.id \in raced')
      /\ raced' \subseteq raced \cup {c.id}
  BY <1>2, <1>3, <1>4
<1>10. VersionsOK'
  <2>1. \A id \in Ids : shown'[id] <= version[id] /\ acked'[id] <= version[id]
    BY <1>2, <1>4, <1>5, <1>7 DEF IInv, VersionsOK
  <2>2. ASSUME NEW id \in raced' \cup outdated'
        PROVE  acked'[id] > 0
    <3>1. CASE id = c.id
      BY <1>2, <1>4, <1>7, <3>1
    <3>2. CASE id # c.id
      BY <1>3, <1>4, <1>7, <1>9, <2>2, <3>2 DEF IInv, VersionsOK
    <3>. QED  BY <3>1, <3>2
  <2>. QED  BY <2>1, <2>2 DEF VersionsOK
<1>11. OwnChangeStaysShown'
  <2>1. ASSUME NEW id \in Ids, id \notin outdated'
        PROVE  shown'[id] >= acked'[id]
    <3>1. CASE id = c.id
      BY <1>3, <1>4, <1>5, <1>7, <2>1, <3>1
    <3>2. CASE id # c.id
      BY <1>3, <1>7, <2>1, <3>2 DEF IInv, OwnChangeStaysShown
    <3>. QED  BY <3>1, <3>2
  <2>. QED  BY <2>1 DEF OwnChangeStaysShown
<1>12. ASSUME NEW t \in Calls, t # s
       PROVE  Expected(call[t])'
  <2>. DEFINE e == call[t]
  <2>1. call'[t] = e /\ Expected(e)
    BY <1>6, <1>12 DEF IInv, CallsOK
  <2>2. e # Free /\ e.kind # "list" => e.id \in Ids
    BY DEF IInv, CallsOK, Shaped
  <2>. HIDE DEF e
  <2>3. ASSUME e # Free, e.current, e.kind = "list"
        PROVE  /\ loading'
               /\ e.phase = "ok" =>
                    \A id \in Ids \ raced' : e.list[id] >= shown'[id] /\ e.list[id] >= acked'[id]
    <3>1. loading
      BY <2>1, <2>3 DEF Expected
    <3>2. ASSUME e.phase = "ok", NEW id \in Ids, id \notin raced'
          PROVE  e.list[id] >= shown'[id] /\ e.list[id] >= acked'[id]
      <4>1. id # c.id /\ id \notin raced
        BY <1>9, <3>1, <3>2
      <4>2. shown'[id] = shown[id] /\ acked'[id] = acked[id]
        BY <1>7, <4>1
      <4>. QED  BY <2>1, <2>3, <3>2, <4>1, <4>2 DEF Expected
    <3>. QED  BY <3>1, <3>2
  <2>4. ASSUME e # Free, e.current, e.kind \in Changes, e.phase # "error", e.id \notin outdated'
        PROVE  shown'[e.id] > 0
    <3>1. e.id \in Ids /\ e.id \notin outdated /\ shown[e.id] > 0
      BY <1>3, <2>1, <2>2, <2>4 DEF Expected, Changes
    <3>. QED  BY <1>5, <1>7, <3>1
  <2>. QED  BY <2>1, <2>3, <2>4 DEF Expected
<1>13. /\ loading' \in BOOLEAN /\ busy' \in BOOLEAN /\ error' \in BOOLEAN
       /\ lost' \in 0..MaxLost /\ outdated' \subseteq Ids
  BY <1>3, <1>4
<1>14. TypeOK
  BY DEF IInv
<1>. QED  BY <1>6, <1>8, <1>9, <1>10, <1>11, <1>12, <1>13, <1>14, EndFacts, GoneKeeps

LEMMA ChangeArrivesKeeps ==
  ASSUME IInv, NEW s \in Calls, ChangeArrives(s)
  PROVE  IInv'
<1>. DEFINE v == IF shown[call[s].id] > 0 THEN call[s].version ELSE 0
<1>1. /\ call[s].phase = "ok" /\ call[s].kind \in Changes /\ call[s].current
      /\ Ends(s) /\ Told(s)
      /\ UNCHANGED <<version, lost, mounts, others, mine, loading, error, selected>>
      /\ busy' = FALSE
      /\ shown' = [shown EXCEPT ![call[s].id] = v]
  BY DEF ChangeArrives, Finishes
<1>2. selected \in Ids \cup {None}
  BY DEF IInv, TypeOK
<1>3. call[s].kind # "list" /\ call[s].id \in Ids /\ shown[call[s].id] \in Nat
  BY <1>1, CallFacts, Bounds DEF IInv, CallsOK, Shaped, TypeOK, Lists, Versions, Changes
<1>4. CASE shown[call[s].id] > 0
  <2>1. v = call[s].version
    BY <1>4
  <2>. HIDE DEF v
  <2>. QED  BY <1>1, <1>2, <1>3, <2>1, ToldKeeps
<1>5. CASE ~ shown[call[s].id] > 0
  <2>1. v = 0
    BY <1>5
  <2>2. shown[call[s].id] = 0
    BY <1>3, <1>5
  <2>. HIDE DEF v
  <2>. QED  BY <1>1, <1>2, <1>3, <2>1, <2>2, ToldKeeps
<1>. QED  BY <1>4, <1>5

LEMMA CreateArrivesKeeps ==
  ASSUME IInv, NEW s \in Calls, CreateArrives(s)
  PROVE  IInv'
<1>1. /\ call[s].phase = "ok" /\ call[s].kind = "create" /\ call[s].current
      /\ Ends(s) /\ Told(s)
      /\ UNCHANGED <<version, lost, mounts, others, mine, loading, error>>
      /\ busy' = FALSE /\ selected' = call[s].id
      /\ shown' = [shown EXCEPT ![call[s].id] = call[s].version]
  BY DEF CreateArrives, At, Finishes
<1>2. call[s] # Free
  BY <1>1, CallFacts
<1>3. call[s].id \in Ids
  BY <1>1, <1>2 DEF IInv, CallsOK, Shaped
<1>. DEFINE v == call[s].version
<1>4. shown' = [shown EXCEPT ![call[s].id] = v] /\ v = call[s].version
  BY <1>1
<1>. HIDE DEF v
<1>. QED  BY <1>1, <1>3, <1>4, ToldKeeps

\* What a page does with a failure leaves its other calls what they rely on.
LEMMA FailsKeeps ==
  ASSUME IInv, NEW s \in Calls, call[s] # Free, Fails(s),
         NEW c \in {Free} \cup AnyCall, Abandoned(s, c), call' = [call EXCEPT ![s] = c],
         displayed' \in [Calls -> Versions], \A t \in Calls : t # s => displayed'[t] = displayed[t],
         UNCHANGED <<version, mounts, others, mine, acked, outdated>>, lost' \in 0..MaxLost
  PROVE  IInv'
<1>1. TypeOK
  BY DEF IInv
<1>2. /\ shown' = shown /\ selected' = selected /\ raced' \subseteq raced
      /\ loading' \in BOOLEAN /\ busy' \in BOOLEAN /\ error' \in BOOLEAN
      /\ (loading' # loading \/ raced' # raced) => call[s].kind = "list" /\ call[s].current
      /\ call[s].kind # "list" => loading' = loading
  BY <1>1 DEF Fails, page, TypeOK
<1>3. ASSUME NEW t \in Calls, t # s
      PROVE  Expected(call[t])'
  <2>1. call'[t] = call[t] /\ Expected(call[t])
    BY <1>1, <1>3, OthersStay DEF IInv, CallsOK
  <2>2. PendingList(call[t]) => loading' = loading /\ raced' = raced
    BY <1>2, <1>3 DEF IInv, OneList, PendingList
  <2>. QED  BY <1>2, <2>1, <2>2 DEF Expected, PendingList
<1>4. VersionsOK' /\ OwnChangeStaysShown'
  BY <1>2 DEF IInv, VersionsOK, OwnChangeStaysShown
<1>5. /\ shown' \in Lists /\ acked' \in Lists /\ selected' \in Ids \cup {None}
      /\ raced' \subseteq Ids /\ outdated' \subseteq Ids
  BY <1>1, <1>2 DEF TypeOK
<1>. QED  BY <1>2, <1>3, <1>4, <1>5, GoneKeeps

LEMMA ErrorArrivesKeeps ==
  ASSUME IInv, NEW s \in Calls, ErrorArrives(s)
  PROVE  IInv'
<1>1. /\ call[s] # Free /\ Fails(s) /\ Ends(s)
      /\ UNCHANGED <<version, lost, mounts, others, mine, acked, outdated>>
  BY CallFacts DEF ErrorArrives, Finishes
<1>2. TypeOK /\ lost \in 0..MaxLost
  BY DEF IInv, TypeOK
<1>. QED  BY <1>1, <1>2, EndFacts, FailsKeeps

LEMMA LoseKeeps ==
  ASSUME IInv, NEW s \in Calls, Lose(s)
  PROVE  IInv'
<1>1. /\ call[s] # Free /\ Fails(s) /\ lost' \in 0..MaxLost
      /\ UNCHANGED <<version, mounts, others, mine, acked, outdated>>
  BY Bounds, CallFacts DEF Lose, IInv, TypeOK
<1>2. TypeOK /\ call[s] \in AnyCall
  BY <1>1, SlotFacts DEF IInv
<1>3. CASE Ends(s)
  BY <1>1, <1>2, <1>3, EndFacts, FailsKeeps
<1>4. CASE /\ call[s].phase # "ok" /\ call[s].current
           /\ call' = [call EXCEPT ![s].current = FALSE]
           /\ displayed' = displayed
  <2>. DEFINE c == [call[s] EXCEPT !.current = FALSE]
  <2>1. /\ c \in AnyCall /\ ~ c.current
        /\ c.phase = call[s].phase /\ c.kind = call[s].kind
        /\ c.id = call[s].id /\ c.version = call[s].version
    BY <1>2, <1>4 DEF AnyCall, Sent, Answers, Errors
  <2>2. call' = [call EXCEPT ![s] = c]
    BY <1>4
  <2>. HIDE DEF c
  <2>3. Abandoned(s, c)
    BY <1>4, <2>1 DEF Abandoned
  <2>4. displayed' \in [Calls -> Versions]
    BY <1>2, <1>4 DEF TypeOK
  <2>. QED  BY <1>1, <1>4, <2>1, <2>2, <2>3, <2>4, FailsKeeps
<1>. QED  BY <1>3, <1>4 DEF Lose

---------------------------------------------------------------------------
(* The induction.                                                          *)

LEMMA InitIInv == Init => IInv
<1>. SUFFICES ASSUME Init PROVE IInv
  OBVIOUS
<1>. DEFINE c == Call("list", None, 0)
<1>1. 0 \in Versions /\ 1 \in Versions
  BY Bounds DEF Versions
<1>2. c \in Sent /\ c.phase = "sent" /\ c.kind = "list" /\ c.current /\ c.id = None /\ c # Free
  BY <1>1, CallFacts DEF Call, Sent, Kinds, Free
<1>3. PICK s \in Calls : call = [[t \in Calls |-> Free] EXCEPT ![s] = c]
  BY DEF Init
<1>. HIDE DEF c
<1>4. call[s] = c /\ \A t \in Calls : t # s => call[t] = Free
  BY <1>3
<1>5. NoCase \in Lists /\ \A id \in Ids : NoCase[id] = 0
  BY <1>1 DEF NoCase, Lists
<1>6. version \in Lists /\ \A id \in Ids : version[id] = 0 \/ version[id] = 1
  BY <1>1, <1>5 DEF Init, NoCase, Lists
<1>7. TypeOK
  <2>1. call \in [Calls -> {Free} \cup Sent \cup Answers \cup Errors]
    BY <1>2, <1>3
  <2>2. displayed \in [Calls -> Versions]
    BY <1>1 DEF Init
  <2>3. /\ shown \in Lists /\ acked \in Lists /\ selected \in Ids \cup {None}
        /\ loading \in BOOLEAN /\ busy \in BOOLEAN /\ error \in BOOLEAN
        /\ raced \subseteq Ids /\ outdated \subseteq Ids
    BY <1>5 DEF Init
  <2>4. lost \in 0..MaxLost /\ mounts \in 0..MaxMounts /\ others \in 0..MaxOthers /\ mine \in Nat
    BY Bounds DEF Init
  <2>. QED  BY <1>6, <2>1, <2>2, <2>3, <2>4 DEF TypeOK
<1>8. CallsOK
  <2>1. Shaped(call[s]) /\ Founded(call[s], s) /\ Expected(call[s])
    BY <1>2, <1>4 DEF Init, Shaped, Founded, Expected, Changes
  <2>2. \A t \in Calls : t # s => Shaped(call[t]) /\ Founded(call[t], t) /\ Expected(call[t])
    BY <1>4 DEF Shaped, Founded, Expected
  <2>. QED  BY <2>1, <2>2 DEF CallsOK
<1>9. OneList /\ CreatesApart
  BY <1>2, <1>4 DEF OneList, PendingList, CreatesApart
<1>10. VersionsOK /\ OwnChangeStaysShown
  BY <1>5, <1>6, Bounds DEF Init, VersionsOK, OwnChangeStaysShown
<1>. QED  BY <1>7, <1>8, <1>9, <1>10 DEF IInv

LEMMA StutterKeeps ==
  ASSUME IInv, UNCHANGED vars
  PROVE  IInv'
<1>1. UNCHANGED <<version, shown, selected, loading, busy, error, call, lost, mounts,
                  others, mine, acked, raced, outdated, displayed>>
  BY DEF vars, page, history
<1>2. TypeOK'
  BY <1>1 DEF IInv, TypeOK
<1>3. CallsOK'
  BY <1>1 DEF IInv, CallsOK, Shaped, Founded, Expected
<1>. QED  BY <1>1, <1>2, <1>3
          DEF IInv, OneList, PendingList, CreatesApart, VersionsOK, OwnChangeStaysShown

LEMMA NextIInv == IInv /\ [Next]_vars => IInv'
BY StutterKeeps, RefreshKeeps, ChangeKeeps, CreateKeeps, RemountKeeps, SelectKeeps,
   ServeListKeeps, ServeCreateKeeps, LoadKeeps, SaveKeeps, ClaimKeeps, SettleKeeps,
   OtherWriteKeeps, LoseKeeps,
   IgnoreKeeps, ListArrivesKeeps, ChangeArrivesKeeps, CreateArrivesKeeps, ErrorArrivesKeeps
   DEF Next, Serve, Arrive

---------------------------------------------------------------------------
(* The results.                                                            *)

\* Every call, answer and page agrees with the store as far as the protocol of
\* versions promises (incident-workspace.tsx and the checks of incidents.py).
THEOREM WorkspaceInvariant == Spec => []IInv
BY InitIInv, NextIInv, PTL DEF Spec

\* The variables keep their shape, and no case is written more often than it
\* has room for, by whatever path (the size check of persist).
THEOREM TypeCorrect == Spec => []TypeOK
<1>1. IInv => TypeOK
  BY DEF IInv
<1>. QED  BY <1>1, WorkspaceInvariant, PTL

\* What the page was told about a change of its own stays on display, for any
\* number of lists, changes, refusals and losses in any order, unless the list
\* on display was loading when it was told (setCases in refresh, mutate and
\* create).
THEOREM OwnChangesStayShown == Spec => []OwnChangeStaysShown
<1>1. IInv => OwnChangeStaysShown
  BY DEF IInv
<1>. QED  BY <1>1, WorkspaceInvariant, PTL

\* A change takes effect only on the version that was on display when its
\* button was pressed, and the outcome of an execution only straight after its
\* claim, however old the page is and whoever writes meanwhile (load, persist
\* and execute_action of incidents.py).
THEOREM ChangesApplyAsDisplayed == Spec => AppliedAsDisplayed
<1>. DEFINE AsDisplayed(s, id) ==
              \/ /\ call[s].phase = "loaded" /\ call[s].id = id
                 /\ version[id] = displayed[s]
              \/ /\ call[s].phase = "claimed" /\ call[s].id = id
                 /\ version[id] = displayed[s] + 1
<1>1. ASSUME IInv, [Next]_vars, NEW id \in Ids, version'[id] > version[id], version[id] > 0
      PROVE  others' > others \/ \E s \in Calls : AsDisplayed(s, id)
  <2>1. version \in [Ids -> Nat] /\ others \in Nat
    BY <1>1, Bounds DEF IInv, TypeOK, Lists, Versions
  <2>2. CASE version' = version
    BY <1>1, <2>1, <2>2
  <2>3. CASE OtherWrite
    BY <2>1, <2>3 DEF OtherWrite
  <2>4. ASSUME NEW s \in Calls, ServeCreate(s)
        PROVE  FALSE
    <3>1. call[s] # Free /\ version[call[s].id] = 0
      BY <1>1, <2>4, CallFacts DEF ServeCreate, At, IInv, CallsOK, Founded
    <3>2. id # call[s].id
      BY <1>1, <2>1, <3>1
    <3>. QED  BY <1>1, <2>1, <2>4, <3>2 DEF ServeCreate
  <2>5. ASSUME NEW s \in Calls, Fits(s), Writes(s), call[s].phase \in {"loaded", "claimed"}
        PROVE  AsDisplayed(s, id)
    <3>1. /\ version[call[s].id] = call[s].version /\ call[s] # Free
          /\ version' = [version EXCEPT ![call[s].id] = @ + 1]
      BY <2>5, CallFacts DEF Fits, Writes
    <3>2. call[s].id = id
      BY <1>1, <2>1, <3>1
    <3>3. call[s].phase = "loaded" => displayed[s] = call[s].version
      BY <1>1, <3>1 DEF IInv, CallsOK, Founded, Shaped
    <3>4. call[s].phase = "claimed" => call[s].version = displayed[s] + 1
      BY <1>1, <3>1 DEF IInv, CallsOK, Founded
    <3>. QED  BY <2>5, <3>1, <3>2, <3>3, <3>4
  <2>6. \/ version' = version \/ OtherWrite
        \/ \E s \in Calls : \/ ServeCreate(s)
                            \/ Fits(s) /\ Writes(s) /\ call[s].phase \in {"loaded", "claimed"}
    BY <1>1 DEF Next, vars, Serve, Arrive, Refresh, Change, Create, Sends, Remount, ServeList, Load,
                Save, Claim, Settle, Refused, At,
                Lose, Ignore, ListArrives, ChangeArrives, CreateArrives, ErrorArrives, Finishes, Select
  <2>. HIDE DEF AsDisplayed
  <2>. QED  BY <2>2, <2>3, <2>4, <2>5, <2>6
<1>2. IInv /\ [Next]_vars =>
        [\A id \in Ids :
           version'[id] > version[id] /\ version[id] > 0 =>
             \/ others' > others
             \/ \E s \in Calls :
                  \/ /\ call[s].phase = "loaded" /\ call[s].id = id
                     /\ version[id] = displayed[s]
                  \/ /\ call[s].phase = "claimed" /\ call[s].id = id
                     /\ version[id] = displayed[s] + 1]_vars
  BY <1>1
<1>. QED  BY <1>2, WorkspaceInvariant, PTL DEF Spec, AppliedAsDisplayed

=============================================================================
