--------------------------- MODULE PersonaLogin ---------------------------
(***************************************************************************)
(* Sign-in of an evaluation persona through Amazon Cognito:                *)
(* services/api/app/cognito_auth.py with the endpoints of main.py and the  *)
(* token's interpretation in auth.py.                                      *)
(*                                                                         *)
(* A role has one Cognito user, and users of different roles share nothing *)
(* but the seed: the module follows one role.  Each login provisions the   *)
(* user by calls of its own - create and set the password, or update the   *)
(* attributes of a user that exists, and add to the group - and then signs *)
(* in with a password derived from the instance's seed: itself             *)
(* (persona-token), or by showing the credentials to a person who uses     *)
(* Cognito's Hosted UI (hosted-ui-login, oauth/exchange).  Logins run      *)
(* concurrently and can die between any two calls; an answer of Cognito    *)
(* can be lost, and the SDK sends the call again; a deployment can rotate  *)
(* the seed.                                                               *)
(*                                                                         *)
(* Left out: signatures and expiry of tokens, which a library checks, and  *)
(* the local issuers, which share no state.                                *)
(***************************************************************************)
EXTENDS Naturals

CONSTANTS
  Teams,     \* teams a login may ask for, the role's default among them
  Logins,    \* how many logins run at once
  LastSeed,  \* bound: how often the seed is rotated
  Changed,   \* a password its user has chosen
  None       \* no team, of a user that does not exist

ASSUME PersonaAssumption ==
  /\ None \notin Teams
  /\ LastSeed \in Nat
  /\ Changed \notin 0..LastSeed

VARIABLES
  seed,         \* AEGISDESK_PERSONA_PASSWORD_SEED, numbered
  hasGroup,     \* the user pool has a group named as the role
  persona,      \* the role's user in Cognito
  login,        \* per slot, the login it runs, or the token its last one got
  unfinished    \* history: the login that created the user will not set its password

vars == <<seed, hasGroup, persona, login, unfinished>>

Seeds     == 0..LastSeed
Passwords == Seeds \cup {Changed}

\* A user with a temporary password cannot sign in before changing it.
Personas == [status : {"absent", "temporary", "confirmed"}, password : Passwords,
             team : Teams \cup {None}, grouped : BOOLEAN]

Absent == [status |-> "absent", password |-> 0, team |-> None, grouped |-> FALSE]

Idle == [phase |-> "idle"]

\* A login that runs.  alone: no other has written the team since this did.
Running == [phase : {"creating", "setting", "updating", "grouping",
                     "signing", "shown", "exchanging"},
            hosted : BOOLEAN, team : Teams, seed : Seeds, alone : BOOLEAN]

\* A token, and the team the client is told beside it.
Tokens == [phase : {"granted"}, team : Teams, tokenTeam : Teams, role : BOOLEAN,
           alone : BOOLEAN]

Init ==
  /\ seed = 0
  /\ hasGroup \in BOOLEAN
  /\ persona = Absent
  /\ login = [r \in Logins |-> Idle]
  /\ unfinished = FALSE

---------------------------------------------------------------------------

At(r, phase) == login[r].phase = phase

\* The team asked for, or the role's default.
Begin(r) ==
  /\ login[r].phase \in {"idle", "granted"}
  /\ \E hosted \in BOOLEAN, team \in Teams :
       login' = [login EXCEPT ![r] = [phase |-> "creating", hosted |-> hosted, team |-> team,
                                      seed |-> seed, alone |-> TRUE]]
  /\ UNCHANGED <<seed, hasGroup, persona, unfinished>>

\* r's call in phase `from' left the user as p, and r goes on.
Calls(r, from, p, to) ==
  /\ At(r, from)
  /\ persona' = p
  /\ login' = [login EXCEPT ![r].phase = to]
  /\ UNCHANGED <<seed, hasGroup, unfinished>>

\* ... and wrote the team: the others that run are not alone any more.
WritesTeam(r, from, p, to) ==
  /\ At(r, from)
  /\ persona' = p
  /\ login' = [q \in Logins |->
                 IF q = r THEN [login[r] EXCEPT !.phase = to, !.alone = TRUE]
                 ELSE IF login[q] \in Running THEN [login[q] EXCEPT !.alone = FALSE]
                 ELSE login[q]]
  /\ UNCHANGED <<seed, hasGroup>>

CallsWithTeam(r, from, p, to) == WritesTeam(r, from, p, to) /\ unfinished' = unfinished

Created(r) == [status |-> "temporary", password |-> login[r].seed, team |-> login[r].team,
               grouped |-> FALSE]

\* Fault for the checks: the temporary password is taken for the final one.
CreateUserOnly(r) ==
  /\ persona.status = "absent"
  /\ CallsWithTeam(r, "creating", Created(r), "grouping")

\* admin_create_user
CreateUser(r) ==
  /\ persona.status = "absent"
  /\ CallsWithTeam(r, "creating", Created(r), "setting")

\* The user is created, but the answer is lost.  The SDK sends the call again,
\* which finds that the user exists: its maker takes it for somebody else's.
CreateUserResent(r) ==
  /\ persona.status = "absent"
  /\ WritesTeam(r, "creating", Created(r), "updating")
  /\ unfinished' = TRUE

\* UsernameExistsException
UserExists(r) ==
  /\ persona.status # "absent"
  /\ Calls(r, "creating", persona, "updating")

\* admin_set_user_password, permanent; only the login that created the user.
\* Sent twice it does the same.
SetPassword(r) ==
  Calls(r, "setting", [persona EXCEPT !.status = "confirmed", !.password = login[r].seed],
        "grouping")

\* Fault for the checks: the password is sent again, as a temporary one.
UpdateTeamAndPassword(r) ==
  CallsWithTeam(r, "updating", [persona EXCEPT !.team = login[r].team, !.status = "temporary",
                                               !.password = login[r].seed], "grouping")

\* Fault for the checks: a user that exists keeps its team.
KeepTeam(r) == CallsWithTeam(r, "updating", persona, "grouping")

\* admin_update_user_attributes; again, if the answer is lost.
UpdateTeam(r) ==
  \E to \in {"grouping", "updating"} :
    CallsWithTeam(r, "updating", [persona EXCEPT !.team = login[r].team], to)

\* admin_add_user_to_group; that there is no such group is not an error.
AddToGroup(r) ==
  Calls(r, "grouping", [persona EXCEPT !.grouped = hasGroup],
        IF login[r].hosted THEN "shown" ELSE "signing")

Accepts(password) == persona.status = "confirmed" /\ persona.password = password

\* The login ends, as `outcome'.
Ends(r, outcome) ==
  /\ login' = [login EXCEPT ![r] = outcome]
  /\ UNCHANGED <<seed, hasGroup, persona, unfinished>>

\* The token carries the user's team and group as they are now.
\* _role_from_groups: without a group it has no role, and any use of it is 401.
Token(r, told) ==
  [phase |-> "granted", team |-> told, tokenTeam |-> persona.team, role |-> persona.grouped,
   alone |-> login[r].alone]

\* admin_initiate_auth with the seed's password; the endpoint returns the
\* actor it asked for, not the one in the token.
SignIn(r) ==
  /\ At(r, "signing")
  /\ Accepts(login[r].seed)
  /\ Ends(r, Token(r, login[r].team))

\* 503: cognito_auth_failed, or a challenge in place of a token.
SignInRefused(r) ==
  /\ At(r, "signing")
  /\ ~ Accepts(login[r].seed)
  /\ Ends(r, Idle)

\* The person signs in at the Hosted UI with the password that was shown; a
\* temporary one must be changed there.
HostedSignIn(r) ==
  /\ At(r, "shown")
  /\ persona.password = login[r].seed
  /\ Calls(r, "shown",
           IF persona.status = "confirmed" THEN persona
           ELSE [persona EXCEPT !.status = "confirmed", !.password = Changed],
           "exchanging")

\* oauth/exchange decodes the token, and returns the actor in it, or 401.
Exchange(r) ==
  /\ At(r, "exchanging")
  /\ Ends(r, IF persona.grouped THEN Token(r, persona.team) ELSE Idle)

---------------------------------------------------------------------------

\* A call raises, the process dies, or the person walks away.
Abandon(r) ==
  /\ login[r] \in Running
  /\ unfinished' = (unfinished \/ At(r, "setting"))
  /\ login' = [login EXCEPT ![r] = Idle]
  /\ UNCHANGED <<seed, hasGroup, persona>>

\* A redeployment; logins that run keep the seed they were started with.
RotateSeed ==
  /\ seed < LastSeed
  /\ seed' = seed + 1
  /\ UNCHANGED <<hasGroup, persona, login, unfinished>>

\* What the API does once a login has begun.
Provision(r) ==
  \/ CreateUser(r) \/ CreateUserResent(r) \/ UserExists(r)
  \/ SetPassword(r) \/ UpdateTeam(r) \/ AddToGroup(r)
  \/ SignIn(r) \/ SignInRefused(r)

Next ==
  \/ \E r \in Logins : Begin(r) \/ Provision(r) \/ HostedSignIn(r) \/ Exchange(r) \/ Abandon(r)
  \/ RotateSeed

\* The API goes on; a person at the Hosted UI need not.
Spec == Init /\ [][Next]_vars /\ \A r \in Logins : WF_vars(Provision(r))

---------------------------------------------------------------------------
(* Properties.                                                             *)

\* Every variable keeps its shape.
TypeOK ==
  /\ seed \in Seeds
  /\ hasGroup \in BOOLEAN
  /\ persona \in Personas
  /\ login \in [Logins -> {Idle} \cup Running \cup Tokens]
  /\ unfinished \in BOOLEAN

\* The team a client is told is the one in its token, unless another login
\* of the persona came in between (the actor create_persona_session returns
\* beside a token it does not decode); and a token lacks its role only where
\* the pool has no group for it.
TokenIsAsTold ==
  \A r \in Logins : At(r, "granted") =>
    /\ login[r].alone => login[r].tokenTeam = login[r].team
    /\ login[r].role = hasGroup

\* The credentials hosted-ui-login has shown work, except where the login
\* that made the persona died halfway, took it for somebody else's after a
\* lost answer, or is still at it, or the persona was made under another seed:
\* then nothing ever repairs them (_ensure_user sets the password of a new
\* user only).
ShownCredentialsWork ==
  \A r \in Logins : At(r, "shown") =>
    \/ Accepts(login[r].seed)
    \/ unfinished
    \/ \E q \in Logins : At(q, "setting")
    \/ persona.password \in Seeds \ {login[r].seed}

\* A persona that can sign in under some seed and has its role keeps both,
\* whatever other logins do to it, wherever they die, whichever calls are sent
\* twice, and whatever seed is configured by then.
WorkingPersonaStays ==
  [][\A s \in Seeds : Accepts(s) /\ persona.grouped => (Accepts(s) /\ persona.grouped)']_vars

\* A user created with a temporary password gets its permanent one, unless
\* the login that created it died, or was answered that the user exists: no
\* other login does it in its place.
ProvisioningCompletes ==
  (persona.status = "temporary") ~> (persona.status = "confirmed" \/ unfinished)

===========================================================================
