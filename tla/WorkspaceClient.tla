-------------------------- MODULE WorkspaceClient --------------------------
(***************************************************************************)
(* A person at the incident workspace, apps/web/app/incident-workspace.tsx *)
(* against the version checks of services/api/app/incidents.py.            *)
(*                                                                         *)
(* The page shows a list it loaded at some time and sends, with every      *)
(* change, the version it shows.  While a change is under way, the buttons *)
(* that start another are disabled, but a list may be loading meanwhile;   *)
(* answers come in any order, or never, and other people change the same   *)
(* cases.  Going to another tab or identity mounts a new page, which       *)
(* forgets everything; calls of the old one go on at the server, and so    *)
(* may a call that failed for the page.                                    *)
(*                                                                         *)
(* Changes write the case once, but for the execution of an action, which  *)
(* writes a claim, calls the ticket system and writes the outcome.         *)
(*                                                                         *)
(* Left out: what a change does to the case beyond its version (CaseRecord *)
(* and IncidentCase), filters and drafts of the form, and that a case can  *)
(* be listed twice, by its creation and by a list that knows it already.   *)
(***************************************************************************)
EXTENDS Naturals

CONSTANTS
  Ids,        \* cases
  First,      \* the case that exists from the start
  Calls,      \* how many HTTP calls are under way at once
  Capacity,   \* how often a case can be written before it is too large
  MaxOthers,  \* bound: changes by other people
  MaxMine,    \* bound: changes of this person's
  MaxLost,    \* bound: calls that are lost
  MaxMounts,  \* bound: pages mounted after the first
  None        \* no case

ASSUME WorkspaceAssumption ==
  /\ First \in Ids
  /\ None \notin Ids
  /\ Capacity \in Nat \ {0}
  /\ {MaxOthers, MaxMine, MaxLost, MaxMounts} \subseteq Nat

VARIABLES
  version,   \* per case, its version in the store; 0 before it is created
  shown,     \* per case, the version the page has; 0 for a case not listed
  selected,  \* the case the page is to show
  loading,   \* a list is being loaded
  busy,      \* a change is under way
  error,     \* a message is on display
  call,      \* per slot, the HTTP call in it
  lost,      \* calls lost so far
  mounts,    \* pages mounted after the first so far
  others,    \* changes by others so far
  mine,      \* this person's changes that took effect so far
  acked,     \* history: per case, the newest version the page was ever told
  raced,     \* history: cases a change of which was told since the list is loading
  outdated,  \* history: those cases when the list on display came
  displayed  \* history: per slot, the version on display when its call was sent

page    == <<shown, selected, loading, busy, error>>
history == <<others, mine, acked, raced, outdated, displayed>>
vars    == <<version, page, call, lost, mounts, history>>

Versions == 0..Capacity
Lists    == [Ids -> Versions]
Changes  == {"change", "execute"}
Kinds    == {"list", "create"} \cup Changes

Free == [phase |-> "free"]

\* current: the page that sent it is still there.
Sent    == [phase : {"sent", "loaded", "claimed"}, kind : Kinds, current : BOOLEAN, id : Ids \cup {None},
            version : Versions]
Answers == [phase : {"ok"}, kind : Kinds, current : BOOLEAN, id : Ids \cup {None},
            version : Versions, list : Lists]
Errors  == [phase : {"error"}, kind : Kinds, current : BOOLEAN, id : Ids \cup {None},
            version : Versions]

NoCase == [id \in Ids |-> 0]

Call(kind, id, v) ==
  [phase |-> "sent", kind |-> kind, current |-> TRUE, id |-> id, version |-> v]

\* The page that was just mounted, with the list it loads in slot s.
Init ==
  /\ version = [NoCase EXCEPT ![First] = 1]
  /\ shown = NoCase
  /\ selected = None
  /\ loading = TRUE
  /\ busy = FALSE
  /\ error = FALSE
  /\ \E s \in Calls : call = [[t \in Calls |-> Free] EXCEPT ![s] = Call("list", None, 0)]
  /\ lost = 0
  /\ mounts = 0
  /\ others = 0
  /\ mine = 0
  /\ acked = NoCase
  /\ raced = {}
  /\ outdated = {}
  /\ displayed = [s \in Calls |-> 0]

---------------------------------------------------------------------------
(* What the person does.                                                   *)

Sends(s, kind, id, v) ==
  /\ call[s] = Free
  /\ call' = [call EXCEPT ![s] = Call(kind, id, v)]
  /\ error' = FALSE
  /\ displayed' = [displayed EXCEPT ![s] = IF id = None THEN 0 ELSE shown[id]]
  /\ UNCHANGED <<version, shown, selected, lost, mounts, others, mine, acked, raced, outdated>>

\* The case on display.
Open == IF selected # None /\ shown[selected] > 0 THEN selected ELSE None

\* The button of the queue, which shows while no case is open, and the one
\* beside an error.
Refresh(s) ==
  /\ ~ loading
  /\ Open = None \/ (error /\ ~ busy)
  /\ loading' = TRUE
  /\ busy' = busy
  /\ Sends(s, "list", None, 0)

\* A row of the queue, and the way back to it.
Select ==
  /\ IF Open = None THEN \E id \in Ids : shown[id] > 0 /\ selected' = id
                    ELSE selected' = None
  /\ UNCHANGED <<version, shown, loading, busy, error, call, lost, mounts, history>>

\* mutate: a button of the open case, with the version that is displayed.
Change(s) ==
  /\ Open # None
  /\ ~ busy
  /\ mine < MaxMine
  /\ busy' = TRUE
  /\ loading' = loading
  /\ \E kind \in Changes : Sends(s, kind, Open, shown[Open])

\* create
Create(s) ==
  /\ ~ busy
  /\ Open = None
  /\ \E id \in Ids :
       /\ version[id] = 0
       /\ \A t \in Calls : call[t] # Free => call[t].id # id
       /\ Sends(s, "create", id, 0)
  /\ busy' = TRUE
  /\ loading' = loading

\* Another tab or identity.
Remount(s) ==
  /\ call[s] = Free
  /\ shown' = NoCase
  /\ selected' = None
  /\ loading' = TRUE
  /\ busy' = FALSE
  /\ error' = FALSE
  /\ call' = [t \in Calls |-> IF t = s THEN Call("list", None, 0)
                              ELSE IF call[t] = Free THEN Free
                              ELSE [call[t] EXCEPT !.current = FALSE]]
  /\ acked' = NoCase
  /\ raced' = {}
  /\ outdated' = {}
  /\ mounts < MaxMounts
  /\ mounts' = mounts + 1
  /\ UNCHANGED <<version, lost, others, mine, displayed>>

---------------------------------------------------------------------------
(* What the API does.                                                      *)

Returns(s, v) ==
  call' = [call EXCEPT ![s] = [phase |-> "ok", kind |-> @.kind, current |-> @.current, id |-> @.id,
                               version |-> v,
                               list |-> IF @.kind = "list" THEN version ELSE NoCase]]

At(s, phase, kind) == call[s].phase = phase /\ call[s].kind = kind

ServeList(s) ==
  /\ At(s, "sent", "list")
  /\ Returns(s, 0)
  /\ UNCHANGED <<version, page, lost, mounts, history>>

ServeCreate(s) ==
  /\ At(s, "sent", "create")
  /\ version' = [version EXCEPT ![call[s].id] = 1]
  /\ Returns(s, 1)
  /\ UNCHANGED <<page, lost, mounts, history>>

\* load: 409 if the case has another version than the one displayed.
Load(s) ==
  /\ call[s].phase = "sent" /\ call[s].kind \in Changes
  /\ call' = [call EXCEPT ![s].phase =
                IF version[call[s].id] = call[s].version THEN "loaded" ELSE "error"]
  /\ UNCHANGED <<version, page, lost, mounts, history>>

\* Fault for the checks: the size is not looked at.
FitsAnySize(s) == version[call[s].id] = call[s].version

\* Fault for the checks: the version is not looked at.
FitsAnyVersion(s) == version[call[s].id] < Capacity

\* persist: 413 if the case is too large, 409 if it has changed since it was
\* loaded, or since the write before.
Fits(s) == version[call[s].id] = call[s].version /\ call[s].version < Capacity

Writes(s)  == version' = [version EXCEPT ![call[s].id] = @ + 1]
Refused(s) == call' = [call EXCEPT ![s].phase = "error"] /\ UNCHANGED <<version, mine>>

\* A change of one write.
Save(s) ==
  /\ At(s, "loaded", "change")
  /\ \/ Fits(s) /\ Writes(s) /\ Returns(s, call[s].version + 1) /\ mine' = mine + 1
     \/ ~ Fits(s) /\ Refused(s)
  /\ UNCHANGED <<page, lost, mounts, others, acked, raced, outdated, displayed>>

\* execute_action: the claim, before the ticket system is called, ...
Claim(s) ==
  /\ At(s, "loaded", "execute")
  /\ \/ /\ Fits(s)
        /\ Writes(s)
        /\ call' = [call EXCEPT ![s].phase = "claimed", ![s].version = @ + 1]
        /\ mine' = mine + 1
     \/ ~ Fits(s) /\ Refused(s)
  /\ UNCHANGED <<page, lost, mounts, others, acked, raced, outdated, displayed>>

\* ... and the outcome, after it: refused, too, if anything was written in the
\* meantime or there is no room left.
Settle(s) ==
  /\ At(s, "claimed", "execute")
  /\ \/ Fits(s) /\ Writes(s) /\ Returns(s, call[s].version + 1) /\ mine' = mine
     \/ ~ Fits(s) /\ Refused(s)
  /\ UNCHANGED <<page, lost, mounts, others, acked, raced, outdated, displayed>>

OtherWrite ==
  /\ others < MaxOthers
  /\ others' = others + 1
  /\ \E id \in Ids : version[id] \in 1..(Capacity - 1) /\ version' = [version EXCEPT ![id] = @ + 1]
  /\ UNCHANGED <<page, call, lost, mounts, mine, acked, raced, outdated, displayed>>

---------------------------------------------------------------------------
(* What the page does with an answer.                                      *)

Ends(s) ==
  /\ call' = [call EXCEPT ![s] = Free]
  /\ displayed' = [displayed EXCEPT ![s] = 0]

Finishes(s) ==
  /\ Ends(s)
  /\ UNCHANGED <<version, lost, mounts, others, mine>>

\* Of a page that is gone.
Ignore(s) ==
  /\ call[s].phase \in {"ok", "error"}
  /\ ~ call[s].current
  /\ Finishes(s)
  /\ UNCHANGED <<page, acked, raced, outdated>>

\* A list takes the place of what is shown, without a look at versions: a case
\* whose change was told meanwhile may be shown as it was before.
ListArrives(s) ==
  /\ At(s, "ok", "list") /\ call[s].current
  /\ shown' = call[s].list
  /\ loading' = FALSE
  /\ raced' = {}
  /\ outdated' = raced
  /\ Finishes(s)
  /\ UNCHANGED <<selected, busy, error, acked>>

\* The page is told the version its case has by now.
Told(s) ==
  /\ acked' = [acked EXCEPT ![call[s].id] = call[s].version]
  /\ raced' = IF loading THEN raced \cup {call[s].id} ELSE raced
  /\ outdated' = outdated

\* Fault for the checks: the list is left as it is.
ChangeArrivesUnshown(s) ==
  /\ call[s].phase = "ok" /\ call[s].kind \in Changes /\ call[s].current
  /\ busy' = FALSE
  /\ Told(s)
  /\ Finishes(s)
  /\ UNCHANGED <<shown, selected, loading, error>>

\* The answer replaces the case in the list, if it is still listed.
ChangeArrives(s) ==
  /\ call[s].phase = "ok" /\ call[s].kind \in Changes /\ call[s].current
  /\ shown' = [shown EXCEPT ![call[s].id] = IF @ > 0 THEN call[s].version ELSE 0]
  /\ busy' = FALSE
  /\ Told(s)
  /\ Finishes(s)
  /\ UNCHANGED <<selected, loading, error>>

CreateArrives(s) ==
  /\ At(s, "ok", "create") /\ call[s].current
  /\ shown' = [shown EXCEPT ![call[s].id] = call[s].version]
  /\ selected' = call[s].id
  /\ busy' = FALSE
  /\ Told(s)
  /\ Finishes(s)
  /\ UNCHANGED <<loading, error>>

\* Fault for the checks: buttons come back after a success only.
FailsStuck(s) ==
  IF call[s].current
  THEN error' = TRUE /\ UNCHANGED <<shown, selected, loading, busy, raced>>
  ELSE UNCHANGED <<page, raced>>

\* What the page of the call, if it is still there, does with a refusal or a
\* failed fetch: finally gives the buttons back.
Fails(s) ==
  IF call[s].current
  THEN /\ error' = TRUE
       /\ loading' = (loading /\ call[s].kind # "list")
       /\ busy' = (busy /\ call[s].kind = "list")
       /\ raced' = IF call[s].kind = "list" THEN {} ELSE raced
       /\ UNCHANGED <<shown, selected>>
  ELSE UNCHANGED <<page, raced>>

ErrorArrives(s) ==
  /\ call[s].phase = "error" /\ call[s].current
  /\ Fails(s)
  /\ Finishes(s)
  /\ UNCHANGED <<acked, outdated>>

\* fetch rejects: the call or its answer is lost, the handler dies, or it goes
\* on, for nobody.
Lose(s) ==
  /\ call[s].phase \in {"sent", "loaded", "claimed", "ok"}
  /\ lost < MaxLost
  /\ lost' = lost + 1
  /\ Fails(s)
  /\ \/ Ends(s)
     \/ /\ call[s].phase # "ok" /\ call[s].current
        /\ call' = [call EXCEPT ![s].current = FALSE]
        /\ displayed' = displayed
  /\ UNCHANGED <<version, mounts, others, mine, acked, outdated>>

---------------------------------------------------------------------------

Serve(s)  == ServeList(s) \/ ServeCreate(s) \/ Load(s) \/ Save(s) \/ Claim(s) \/ Settle(s)
Arrive(s) == Ignore(s) \/ ListArrives(s) \/ ChangeArrives(s) \/ CreateArrives(s) \/ ErrorArrives(s)

Next ==
  \/ \E s \in Calls : \/ Refresh(s) \/ Change(s) \/ Create(s) \/ Remount(s)
                       \/ Serve(s) \/ Lose(s) \/ Arrive(s)
  \/ Select
  \/ OtherWrite

\* Calls end - the page sets no timeout, the browser and the API's runtime do -
\* and the person keeps trying: refreshes, opens a case, and presses one of its
\* buttons, when that is possible time and again.
Fairness ==
  /\ \A s \in Calls : WF_vars(Serve(s)) /\ WF_vars(Arrive(s))
  /\ SF_vars(\E s \in Calls : Refresh(s))
  /\ SF_vars(Select /\ selected' # None)
  /\ SF_vars(\E s \in Calls : Change(s))

Spec == Init /\ [][Next]_vars /\ Fairness

---------------------------------------------------------------------------
(* Properties.                                                             *)

\* Every variable keeps its shape, and no case is written more often than an
\* item of the store can hold (persist refuses the write that would be).
TypeOK ==
  /\ version \in Lists /\ shown \in Lists /\ acked \in Lists
  /\ selected \in Ids \cup {None}
  /\ loading \in BOOLEAN /\ busy \in BOOLEAN /\ error \in BOOLEAN
  /\ call \in [Calls -> {Free} \cup Sent \cup Answers \cup Errors]
  /\ lost \in 0..MaxLost /\ mounts \in 0..MaxMounts /\ others \in 0..MaxOthers /\ mine \in Nat
  /\ raced \subseteq Ids /\ outdated \subseteq Ids
  /\ displayed \in [Calls -> Versions]

\* Any change that takes effect was decided on exactly the version the
\* page displayed when its button was pressed: load compares it, and persist
\* that nothing has been written since (docs/operations/incident-workflow.md
\* "Mutations of an existing case require the currently displayed version").
\* The outcome of an execution, its second write, comes straight after its
\* own claim of that version, or not at all.  This is so for pages that show
\* something old and for pages and calls that are gone.
AppliedAsDisplayed ==
  [][\A id \in Ids :
       version'[id] > version[id] /\ version[id] > 0 =>
         \/ others' > others
         \/ \E s \in Calls :
              \/ /\ call[s].phase = "loaded" /\ call[s].id = id
                 /\ version[id] = displayed[s]
              \/ /\ call[s].phase = "claimed" /\ call[s].id = id
                 /\ version[id] = displayed[s] + 1]_vars

\* What the page was told about a change of its own is on display, at once and
\* from then on, with one exception: when a list was read before the change
\* and comes after its answer, the case is shown as it was, or not at all
\* (setCases in refresh does not look at versions).  The next list sets that
\* right.
OwnChangeStaysShown ==
  \A id \in Ids \ outdated : shown[id] >= acked[id]

\* A person who keeps at it gets a change in, whoever else writes, whatever
\* is lost and however stale the page is: refusals give the buttons back, and
\* a refresh makes the next attempt good.  Others do not fill the cases up
\* (MaxOthers + 1 < Capacity).
PersonGetsThrough == <>(mine > 0)

===========================================================================
