------------------------- MODULE PersonaLoginProofs -------------------------
(***************************************************************************)
(* What concurrent logins can do to a persona, for any number of them, any *)
(* teams and any number of rotations.  A user is created once and only its *)
(* creator sets its password; so a password that does not work is that of  *)
(* another seed, or its creator is still at it, or it will never set it:   *)
(* it died, or a lost answer made it take the user for somebody else's.    *)
(***************************************************************************)
EXTENDS PersonaLogin, TLAPS

Phases   == {"creating", "setting", "updating", "grouping", "signing", "shown", "exchanging"}
WithTeam  == {"setting", "grouping", "signing", "shown", "exchanging"}
WithGroup == {"signing", "shown", "exchanging"}

In(r, phases) == login[r].phase \in phases

\* There is a user, of some team, once a login is past its first call.
UserIsThere ==
  /\ \A r \in Logins : In(r, Phases \ {"creating"}) => persona.status # "absent"
  /\ persona.status # "absent" => persona.team \in Teams

\* One login at most sets the password, and before it has, no seed's password
\* works.
OneSetter ==
  /\ \A q, r \in Logins : At(q, "setting") /\ At(r, "setting") => q = r
  /\ \A r \in Logins : At(r, "setting") => persona.status = "temporary" \/ persona.password = Changed

PasswordExcused ==
  \/ persona.status = "absent"
  \/ persona.status = "confirmed" /\ persona.password \in Seeds
  \/ unfinished
  \/ \E r \in Logins : At(r, "setting")

\* What a login that has made its calls may rely on.
TeamAsAsked ==
  \A r \in Logins : In(r, WithTeam) => (login[r].alone => persona.team = login[r].team)

GroupAsFound ==
  /\ persona.grouped => hasGroup
  /\ \A r \in Logins : In(r, WithGroup) => (persona.grouped <=> hasGroup)

IInv ==
  /\ TypeOK
  /\ UserIsThere
  /\ OneSetter
  /\ PasswordExcused
  /\ TeamAsAsked
  /\ GroupAsFound
  /\ TokenIsAsTold

---------------------------------------------------------------------------
(* The login table after a step.                                           *)

LEMMA PhaseTells ==
  ASSUME TypeOK, NEW r \in Logins
  PROVE  /\ In(r, Phases) <=> login[r] \in Running
         /\ At(r, "idle") <=> login[r] = Idle
         /\ At(r, "granted") <=> login[r] \in Tokens
<1>1. login[r] \in {Idle} \cup Running \cup Tokens
  BY DEF TypeOK
<1>2. Idle.phase = "idle"
  BY DEF Idle
<1>3. \A x \in Running : x.phase \in Phases
  BY DEF Running, Phases
<1>4. \A x \in Tokens : x.phase = "granted"
  BY DEF Tokens
<1> QED  BY <1>1, <1>2, <1>3, <1>4 DEF In, At, Phases

\* A call of r that does not write the team.
LEMMA AfterCall ==
  ASSUME TypeOK, NEW r \in Logins, In(r, Phases), NEW to \in Phases,
         login' = [login EXCEPT ![r].phase = to]
  PROVE  /\ login' \in [Logins -> {Idle} \cup Running \cup Tokens]
         /\ login'[r].phase = to
         /\ login'[r].team = login[r].team /\ login'[r].alone = login[r].alone
         /\ \A q \in Logins \ {r} : login'[q] = login[q]
<1>1. login[r] \in Running
  BY PhaseTells
<1>2. [login[r] EXCEPT !.phase = to] \in Running
  BY <1>1 DEF Running, Phases
<1> QED  BY <1>1, <1>2 DEF TypeOK, Running

\* A call of r that does.
LEMMA AfterTeamCall ==
  ASSUME TypeOK, NEW r \in Logins, In(r, Phases), NEW to \in Phases,
         login' = [q \in Logins |->
                     IF q = r THEN [login[r] EXCEPT !.phase = to, !.alone = TRUE]
                     ELSE IF login[q] \in Running THEN [login[q] EXCEPT !.alone = FALSE]
                     ELSE login[q]]
  PROVE  /\ login' \in [Logins -> {Idle} \cup Running \cup Tokens]
         /\ login'[r].phase = to /\ login'[r].team = login[r].team
         /\ \A q \in Logins \ {r} :
              /\ login'[q].phase = login[q].phase
              /\ In(q, Phases) => ~ login'[q].alone
              /\ ~ In(q, Phases) => login'[q] = login[q]
<1>1. login[r] \in Running
  BY PhaseTells
<1>2. /\ [login[r] EXCEPT !.phase = to, !.alone = TRUE] \in Running
      /\ [login[r] EXCEPT !.phase = to, !.alone = TRUE].phase = to
      /\ [login[r] EXCEPT !.phase = to, !.alone = TRUE].team = login[r].team
  BY <1>1 DEF Running, Phases
<1>3. \A x \in Running : /\ [x EXCEPT !.alone = FALSE] \in Running
                         /\ [x EXCEPT !.alone = FALSE].phase = x.phase
                         /\ ~ [x EXCEPT !.alone = FALSE].alone
  BY DEF Running
<1>4. \A q \in Logins : login[q] \in {Idle} \cup Running \cup Tokens
  BY DEF TypeOK
<1>5. \A q \in Logins : In(q, Phases) <=> login[q] \in Running
  BY PhaseTells
<1> QED  BY <1>2, <1>3, <1>4, <1>5

\* A slot that begins or ends.
LEMMA AfterEnd ==
  ASSUME TypeOK, NEW r \in Logins, NEW x \in {Idle} \cup Running \cup Tokens,
         login' = [login EXCEPT ![r] = x]
  PROVE  /\ login' \in [Logins -> {Idle} \cup Running \cup Tokens]
         /\ login'[r] = x
         /\ \A q \in Logins \ {r} : login'[q] = login[q]
BY DEF TypeOK

---------------------------------------------------------------------------
(* The induction.                                                          *)

LEMMA InitIInv == Init => IInv
<1> SUFFICES ASSUME Init PROVE IInv
  OBVIOUS
<1>1. 0 \in Seeds /\ Absent \in Personas
  BY PersonaAssumption DEF Seeds, Passwords, Personas, Absent
<1>2. TypeOK
  BY <1>1 DEF Init, TypeOK
<1>3. \A r \in Logins : login[r].phase = "idle"
  BY DEF Init, Idle
<1>4. persona.status = "absent" /\ ~ persona.grouped
  BY DEF Init, Absent
<1> QED  BY <1>2, <1>3, <1>4 DEF IInv, UserIsThere, OneSetter, PasswordExcused, TeamAsAsked,
                GroupAsFound, TokenIsAsTold, In, At, Phases, WithTeam, WithGroup

LEMMA BeginKeeps ==
  ASSUME IInv, NEW r \in Logins, Begin(r)
  PROVE  IInv'
<1>1. PICK x \in Running : x.phase = "creating" /\ login' = [login EXCEPT ![r] = x]
  BY DEF Begin, Running, IInv, TypeOK
<1>2. UNCHANGED <<seed, hasGroup, persona, unfinished>> /\ ~ In(r, Phases)
  BY DEF Begin, In, Phases
<1>3. /\ login' \in [Logins -> {Idle} \cup Running \cup Tokens]
      /\ login'[r].phase = "creating"
      /\ \A q \in Logins \ {r} : login'[q] = login[q]
  BY <1>1, AfterEnd DEF IInv
<1>4. TypeOK'
  BY <1>2, <1>3 DEF IInv, TypeOK
<1>5. \A q \in Logins : At(q, "setting")' <=> At(q, "setting")
  BY <1>2, <1>3 DEF At, In, Phases
<1> QED  BY <1>2, <1>3, <1>4, <1>5
         DEF IInv, UserIsThere, OneSetter, PasswordExcused, TeamAsAsked,
             GroupAsFound, TokenIsAsTold, In, At, Phases, WithTeam, WithGroup

\* The only call that finds no user, with either answer; every other login is
\* before its first.
LEMMA CreateUserKeeps ==
  ASSUME IInv, NEW r \in Logins, persona.status = "absent",
         NEW to \in {"setting", "updating"}, WritesTeam(r, "creating", Created(r), to),
         unfinished' \in BOOLEAN, to = "updating" => unfinished'
  PROVE  IInv'
<1> DEFINE p == Created(r)
<1>1. In(r, Phases) /\ persona' = p /\ UNCHANGED <<seed, hasGroup>>
  BY DEF WritesTeam, At, In, Phases
<1>2. login[r] \in Running
  BY <1>1, PhaseTells DEF IInv
<1>3. /\ p \in Personas /\ p.status = "temporary" /\ p.team = login[r].team /\ ~ p.grouped
      /\ p.team \in Teams
  BY <1>2 DEF Created, Personas, Running, Passwords
<1>4. /\ login' \in [Logins -> {Idle} \cup Running \cup Tokens]
      /\ login'[r].phase = to /\ login'[r].team = login[r].team
      /\ \A q \in Logins \ {r} :
           /\ login'[q].phase = login[q].phase
           /\ In(q, Phases) => ~ login'[q].alone
           /\ ~ In(q, Phases) => login'[q] = login[q]
  BY <1>1, AfterTeamCall DEF WritesTeam, IInv, Phases
<1> HIDE DEF p
<1>5. \A q \in Logins \ {r} : login'[q].phase \in {"idle", "granted", "creating"}
  <2>1. ASSUME NEW q \in Logins \ {r}
        PROVE  login'[q].phase \in {"idle", "granted", "creating"}
    <3>1. login[q].phase \in Phases \cup {"idle", "granted"}
      BY PhaseTells DEF IInv, TypeOK, In, At
    <3>2. ~ In(q, Phases \ {"creating"})
      BY DEF IInv, UserIsThere
    <3> QED  BY <1>4, <3>1, <3>2 DEF In, Phases
  <2> QED  BY <2>1
<1>6. TypeOK'
  BY <1>1, <1>3, <1>4 DEF IInv, TypeOK
<1>7. TokenIsAsTold'
  <2>1. \A q \in Logins : login'[q].phase = "granted" => q # r /\ login'[q] = login[q]
    BY <1>4, <1>5 DEF In, Phases
  <2> QED  BY <1>1, <2>1 DEF IInv, TokenIsAsTold, At
<1>8. UserIsThere' /\ OneSetter' /\ PasswordExcused' /\ TeamAsAsked' /\ GroupAsFound'
  BY <1>1, <1>3, <1>4, <1>5
     DEF UserIsThere, OneSetter, PasswordExcused, TeamAsAsked, GroupAsFound,
         In, At, Phases, WithTeam, WithGroup
<1> QED  BY <1>6, <1>7, <1>8 DEF IInv

LEMMA CreateKeeps ==
  ASSUME IInv, NEW r \in Logins, CreateUser(r) \/ CreateUserResent(r)
  PROVE  IInv'
<1>1. unfinished \in BOOLEAN
  BY DEF IInv, TypeOK
<1> QED  BY <1>1, CreateUserKeeps DEF CreateUser, CreateUserResent, CallsWithTeam

LEMMA UserExistsKeeps ==
  ASSUME IInv, NEW r \in Logins, UserExists(r)
  PROVE  IInv'
<1>1. /\ persona.status # "absent" /\ In(r, Phases) /\ At(r, "creating")
      /\ persona' = persona /\ UNCHANGED <<seed, hasGroup, unfinished>>
  BY DEF UserExists, Calls, At, In, Phases
<1>2. /\ login' \in [Logins -> {Idle} \cup Running \cup Tokens]
      /\ login'[r].phase = "updating"
      /\ \A q \in Logins \ {r} : login'[q] = login[q]
  BY <1>1, AfterCall DEF UserExists, Calls, IInv, Phases
<1>3. TypeOK'
  BY <1>1, <1>2 DEF IInv, TypeOK
<1>4. \A q \in Logins : At(q, "setting")' <=> At(q, "setting")
  BY <1>1, <1>2 DEF At
<1> QED  BY <1>1, <1>2, <1>3, <1>4
         DEF IInv, UserIsThere, OneSetter, PasswordExcused, TeamAsAsked,
             GroupAsFound, TokenIsAsTold, In, At, Phases, WithTeam, WithGroup

\* The creator's password replaces whatever is there.
LEMMA SetPasswordKeeps ==
  ASSUME IInv, NEW r \in Logins, SetPassword(r)
  PROVE  IInv'
<1>1. /\ In(r, Phases) /\ At(r, "setting")
      /\ UNCHANGED <<seed, hasGroup, unfinished>>
      /\ persona' = [persona EXCEPT !.status = "confirmed", !.password = login[r].seed]
  BY DEF SetPassword, Calls, At, In, Phases
<1>2. login[r] \in Running
  BY <1>1, PhaseTells DEF IInv
<1>3. /\ persona' \in Personas /\ persona'.status = "confirmed" /\ persona'.password \in Seeds
      /\ persona'.team = persona.team /\ persona'.grouped = persona.grouped
  BY <1>1, <1>2 DEF IInv, TypeOK, Personas, Running, Passwords
<1>4. /\ login' \in [Logins -> {Idle} \cup Running \cup Tokens]
      /\ login'[r].phase = "grouping"
      /\ login'[r].team = login[r].team /\ login'[r].alone = login[r].alone
      /\ \A q \in Logins \ {r} : login'[q] = login[q]
  BY <1>1, AfterCall DEF SetPassword, Calls, IInv, Phases
<1>5. TypeOK'
  BY <1>1, <1>3, <1>4 DEF IInv, TypeOK
<1>6. \A q \in Logins : ~ At(q, "setting")'
  BY <1>1, <1>4 DEF IInv, OneSetter, At
<1> QED  BY <1>1, <1>3, <1>4, <1>5, <1>6
         DEF IInv, UserIsThere, OneSetter, PasswordExcused, TeamAsAsked,
             GroupAsFound, TokenIsAsTold, In, At, Phases, WithTeam, WithGroup

LEMMA UpdateTeamKeeps ==
  ASSUME IInv, NEW r \in Logins, UpdateTeam(r)
  PROVE  IInv'
<1>0. PICK to \in {"grouping", "updating"} :
        CallsWithTeam(r, "updating", [persona EXCEPT !.team = login[r].team], to)
  BY DEF UpdateTeam
<1>1. /\ In(r, Phases) /\ At(r, "updating")
      /\ UNCHANGED <<seed, hasGroup, unfinished>>
      /\ persona' = [persona EXCEPT !.team = login[r].team]
  BY <1>0 DEF CallsWithTeam, WritesTeam, At, In, Phases
<1>2. login[r] \in Running
  BY <1>1, PhaseTells DEF IInv
<1>3. /\ persona' \in Personas /\ persona'.status = persona.status
      /\ persona'.password = persona.password
      /\ persona'.team = login[r].team /\ persona'.grouped = persona.grouped
      /\ persona'.team \in Teams
  BY <1>1, <1>2 DEF IInv, TypeOK, Personas, Running
<1>4. /\ login' \in [Logins -> {Idle} \cup Running \cup Tokens]
      /\ login'[r].phase = to /\ login'[r].team = login[r].team
      /\ \A q \in Logins \ {r} :
           /\ login'[q].phase = login[q].phase
           /\ In(q, Phases) => ~ login'[q].alone
           /\ ~ In(q, Phases) => login'[q] = login[q]
  BY <1>0, <1>1, AfterTeamCall DEF CallsWithTeam, WritesTeam, IInv, Phases
<1>5. TypeOK'
  BY <1>1, <1>3, <1>4 DEF IInv, TypeOK
<1>6. \A q \in Logins : At(q, "setting")' <=> At(q, "setting")
  BY <1>1, <1>4 DEF At
<1>7. TokenIsAsTold'
  <2>1. \A q \in Logins : login'[q].phase = "granted" => q # r /\ login'[q] = login[q]
    BY <1>4 DEF In, Phases
  <2> QED  BY <1>1, <2>1 DEF IInv, TokenIsAsTold, At
<1>8. UserIsThere'
  <2>1. persona.status # "absent"
    BY <1>1 DEF IInv, UserIsThere, In, At, Phases
  <2> QED  BY <1>3, <2>1 DEF UserIsThere
<1>9. OneSetter' /\ PasswordExcused'
  BY <1>1, <1>3, <1>6 DEF IInv, OneSetter, PasswordExcused, Seeds
<1>10. TeamAsAsked'
  BY <1>3, <1>4 DEF TeamAsAsked, In, WithTeam, Phases
<1>11. GroupAsFound'
  BY <1>1, <1>3, <1>4 DEF IInv, GroupAsFound, In, WithGroup
<1> QED  BY <1>5, <1>7, <1>8, <1>9, <1>10, <1>11 DEF IInv

LEMMA AddToGroupKeeps ==
  ASSUME IInv, NEW r \in Logins, AddToGroup(r)
  PROVE  IInv'
<1>1. /\ In(r, Phases) /\ At(r, "grouping")
      /\ UNCHANGED <<seed, hasGroup, unfinished>>
      /\ persona' = [persona EXCEPT !.grouped = hasGroup]
  BY DEF AddToGroup, Calls, At, In, Phases
<1>2. /\ persona' \in Personas /\ persona'.status = persona.status
      /\ persona'.password = persona.password
      /\ persona'.team = persona.team /\ persona'.grouped = hasGroup
  BY <1>1 DEF IInv, TypeOK, Personas
<1>3. PICK to \in {"shown", "signing"} : login' = [login EXCEPT ![r].phase = to]
  BY DEF AddToGroup, Calls
<1>4. /\ login' \in [Logins -> {Idle} \cup Running \cup Tokens]
      /\ login'[r].phase = to
      /\ login'[r].team = login[r].team /\ login'[r].alone = login[r].alone
      /\ \A q \in Logins \ {r} : login'[q] = login[q]
  BY <1>1, <1>3, AfterCall DEF IInv, Phases
<1>5. TypeOK'
  BY <1>1, <1>2, <1>4 DEF IInv, TypeOK
<1>6. \A q \in Logins : At(q, "setting")' <=> At(q, "setting")
  BY <1>1, <1>4 DEF At
<1>7. UserIsThere' /\ OneSetter' /\ PasswordExcused'
  BY <1>1, <1>2, <1>4, <1>6
     DEF IInv, UserIsThere, OneSetter, PasswordExcused, In, At, Phases, Seeds
<1>8. TeamAsAsked' /\ GroupAsFound' /\ TokenIsAsTold'
  BY <1>1, <1>2, <1>4
     DEF IInv, TeamAsAsked, GroupAsFound, TokenIsAsTold, In, At, WithTeam, WithGroup
<1> QED  BY <1>5, <1>7, <1>8 DEF IInv

\* A login ends, in a token that is as told or in none.
LEMMA EndsKeeps ==
  ASSUME IInv, NEW r \in Logins, NEW x \in {Idle} \cup Tokens,
         login' = [login EXCEPT ![r] = x],
         In(r, Phases), UNCHANGED <<seed, hasGroup, persona>>,
         unfinished' \in BOOLEAN, unfinished => unfinished',
         At(r, "setting") => unfinished',
         x \in Tokens => /\ x.alone => x.tokenTeam = x.team
                         /\ x.role = hasGroup
  PROVE  IInv'
<1>1. x.phase \in {"idle", "granted"} /\ (x.phase = "granted" => x \in Tokens)
  BY DEF Idle, Tokens
<1>2. /\ login' \in [Logins -> {Idle} \cup Running \cup Tokens]
      /\ login'[r] = x
      /\ \A q \in Logins \ {r} : login'[q] = login[q]
  BY AfterEnd DEF IInv
<1>3. TypeOK'
  BY <1>2 DEF IInv, TypeOK
<1>4. TokenIsAsTold'
  BY <1>1, <1>2 DEF IInv, TokenIsAsTold, At
<1>5. UserIsThere' /\ OneSetter' /\ TeamAsAsked' /\ GroupAsFound'
  BY <1>1, <1>2
     DEF IInv, UserIsThere, OneSetter, TeamAsAsked, GroupAsFound, In, At, Phases, WithTeam, WithGroup
<1>6. PasswordExcused'
  BY <1>2 DEF IInv, PasswordExcused, At, Seeds
<1> QED  BY <1>3, <1>4, <1>5, <1>6 DEF IInv

\* The token of a login that has made its calls.
LEMMA TokenFacts ==
  ASSUME IInv, NEW r \in Logins, In(r, WithGroup), NEW told \in Teams
  PROVE  /\ Token(r, told) \in Tokens
         /\ Token(r, told).tokenTeam = persona.team /\ Token(r, told).team = told
         /\ Token(r, told).role = hasGroup
         /\ Token(r, told).alone => persona.team = login[r].team
<1>1. login[r] \in Running /\ persona \in Personas /\ hasGroup \in BOOLEAN
  BY PhaseTells DEF IInv, TypeOK, In, Phases, WithGroup
<1>2. persona.team \in Teams
  BY DEF IInv, UserIsThere, In, Phases, WithGroup
<1>3. login[r].alone \in BOOLEAN /\ persona.grouped \in BOOLEAN
  BY <1>1 DEF Running, Personas
<1>4. (persona.grouped <=> hasGroup) /\ (login[r].alone => persona.team = login[r].team)
  BY DEF IInv, GroupAsFound, TeamAsAsked, In, WithGroup, WithTeam
<1>5. persona.grouped = hasGroup
  BY <1>1, <1>3, <1>4
<1> QED  BY <1>1, <1>2, <1>3, <1>4, <1>5 DEF Token, Tokens

LEMMA IdleIsNoToken == Idle \notin Tokens
<1>1. Idle.phase = "idle" /\ \A x \in Tokens : x.phase = "granted"
  BY DEF Idle, Tokens
<1> QED  BY <1>1

LEMMA SignInKeeps ==
  ASSUME IInv, NEW r \in Logins, SignIn(r) \/ SignInRefused(r)
  PROVE  IInv'
<1>1. /\ In(r, Phases) /\ ~ At(r, "setting") /\ In(r, WithGroup)
      /\ UNCHANGED <<seed, hasGroup, persona, unfinished>>
      /\ unfinished' \in BOOLEAN
  BY DEF SignIn, SignInRefused, Ends, At, In, Phases, WithGroup, IInv, TypeOK
<1>2. login[r].team \in Teams
  BY <1>1, PhaseTells DEF IInv, Running
<1>3. PICK x \in {Idle, Token(r, login[r].team)} : login' = [login EXCEPT ![r] = x]
  BY DEF SignIn, SignInRefused, Ends
<1>4. /\ x \in {Idle} \cup Tokens
      /\ x \in Tokens => (x.alone => x.tokenTeam = x.team) /\ x.role = hasGroup
  BY <1>1, <1>2, <1>3, TokenFacts, IdleIsNoToken
<1> QED  BY <1>1, <1>3, <1>4, EndsKeeps

\* The person has changed a temporary password, or used the one shown.
LEMMA HostedSignInKeeps ==
  ASSUME IInv, NEW r \in Logins, HostedSignIn(r)
  PROVE  IInv'
<1>1. /\ In(r, Phases) /\ At(r, "shown") /\ UNCHANGED <<seed, hasGroup, unfinished>>
      /\ persona \in Personas /\ persona.status # "absent"
  BY DEF HostedSignIn, Calls, At, In, Phases, IInv, TypeOK, UserIsThere
<1>2. /\ persona' \in Personas
      /\ persona'.team = persona.team /\ persona'.grouped = persona.grouped
      /\ persona'.status = "confirmed"
      /\ \/ persona.status = "confirmed" /\ persona' = persona
         \/ persona.status = "temporary" /\ persona'.password = Changed
  BY <1>1 DEF HostedSignIn, Calls, Personas, Passwords
<1>3. /\ login' \in [Logins -> {Idle} \cup Running \cup Tokens]
      /\ login'[r].phase = "exchanging"
      /\ login'[r].team = login[r].team /\ login'[r].alone = login[r].alone
      /\ \A q \in Logins \ {r} : login'[q] = login[q]
  BY <1>1, AfterCall DEF HostedSignIn, Calls, IInv, Phases
<1>4. TypeOK'
  BY <1>1, <1>2, <1>3 DEF IInv, TypeOK
<1>5. \A q \in Logins : At(q, "setting")' <=> At(q, "setting")
  BY <1>1, <1>3 DEF At
<1>6. UserIsThere' /\ OneSetter'
  BY <1>1, <1>2, <1>3, <1>5 DEF IInv, UserIsThere, OneSetter
<1>7. PasswordExcused'
  BY <1>1, <1>2, <1>5 DEF IInv, PasswordExcused, Seeds
<1>8. TeamAsAsked' /\ GroupAsFound' /\ TokenIsAsTold'
  BY <1>1, <1>2, <1>3
     DEF IInv, TeamAsAsked, GroupAsFound, TokenIsAsTold, In, At, WithTeam, WithGroup
<1> QED  BY <1>4, <1>6, <1>7, <1>8 DEF IInv

LEMMA ExchangeKeeps ==
  ASSUME IInv, NEW r \in Logins, Exchange(r)
  PROVE  IInv'
<1>1. /\ In(r, Phases) /\ ~ At(r, "setting") /\ In(r, WithGroup)
      /\ UNCHANGED <<seed, hasGroup, persona, unfinished>>
      /\ unfinished' \in BOOLEAN
      /\ persona.team \in Teams
  BY DEF Exchange, Ends, At, In, Phases, WithGroup, IInv, TypeOK, UserIsThere
<1>2. PICK x \in {Idle, Token(r, persona.team)} : login' = [login EXCEPT ![r] = x]
  BY DEF Exchange, Ends
<1>3. /\ x \in {Idle} \cup Tokens
      /\ x \in Tokens => (x.alone => x.tokenTeam = x.team) /\ x.role = hasGroup
  BY <1>1, <1>2, TokenFacts, IdleIsNoToken
<1> QED  BY <1>1, <1>2, <1>3, EndsKeeps

LEMMA AbandonKeeps ==
  ASSUME IInv, NEW r \in Logins, Abandon(r)
  PROVE  IInv'
<1>1. In(r, Phases)
  BY PhaseTells DEF Abandon, IInv
<1>2. /\ login' = [login EXCEPT ![r] = Idle] /\ UNCHANGED <<seed, hasGroup, persona>>
      /\ unfinished' = (unfinished \/ At(r, "setting"))
  BY DEF Abandon
<1>3. unfinished' \in BOOLEAN /\ (unfinished => unfinished') /\ (At(r, "setting") => unfinished')
  BY <1>2 DEF IInv, TypeOK, At
<1> QED  BY <1>1, <1>2, <1>3, IdleIsNoToken, EndsKeeps

LEMMA RotateSeedKeeps ==
  ASSUME IInv, RotateSeed
  PROVE  IInv'
<1>1. seed' \in Seeds /\ UNCHANGED <<hasGroup, persona, login, unfinished>>
  BY PersonaAssumption DEF RotateSeed, IInv, TypeOK, Seeds
<1> QED  BY <1>1 DEF IInv, TypeOK, UserIsThere, OneSetter, PasswordExcused, TeamAsAsked,
                GroupAsFound, TokenIsAsTold, In, At

LEMMA StutterKeeps ==
  ASSUME IInv, UNCHANGED vars
  PROVE  IInv'
BY DEF vars, IInv, TypeOK, UserIsThere, OneSetter, PasswordExcused, TeamAsAsked,
       GroupAsFound, TokenIsAsTold, In, At

LEMMA NextIInv == IInv /\ [Next]_vars => IInv'
<1> SUFFICES ASSUME IInv, [Next]_vars PROVE IInv'
  OBVIOUS
<1>1. ASSUME NEW r \in Logins, Begin(r) \/ HostedSignIn(r) \/ Exchange(r) \/ Abandon(r)
      PROVE  IInv'
  BY <1>1, BeginKeeps, HostedSignInKeeps, ExchangeKeeps, AbandonKeeps
<1>2. ASSUME NEW r \in Logins, Provision(r) PROVE IInv'
  BY <1>2, CreateKeeps, UserExistsKeeps, SetPasswordKeeps, UpdateTeamKeeps, AddToGroupKeeps,
     SignInKeeps DEF Provision
<1> QED  BY <1>1, <1>2, RotateSeedKeeps, StutterKeeps DEF Next

---------------------------------------------------------------------------

\* The inductive invariant of the persona and its logins.
THEOREM PersonaInvariant == Spec => []IInv
BY InitIInv, NextIInv, PTL DEF Spec

\* Persona, logins and tokens keep their shape.
THEOREM TypeCorrect == Spec => []TypeOK
<1>1. IInv => TypeOK
  BY DEF IInv
<1> QED  BY <1>1, PersonaInvariant, PTL

\* The team told beside a token is the token's unless another login wrote it
\* in between, and a token lacks its role only where the group is missing.
THEOREM TokensAreAsTold == Spec => []TokenIsAsTold
<1>1. IInv => TokenIsAsTold
  BY DEF IInv
<1> QED  BY <1>1, PersonaInvariant, PTL

\* Credentials that were shown work, or their user was left half-made, by a
\* crash or by a lost answer, or was made under another seed (hosted_ui_login
\* after _ensure_user).
THEOREM CredentialsWork == Spec => []ShownCredentialsWork
<1>1. ASSUME IInv, NEW r \in Logins, At(r, "shown")
      PROVE  \/ Accepts(login[r].seed)
             \/ unfinished
             \/ \E q \in Logins : At(q, "setting")
             \/ persona.password \in Seeds \ {login[r].seed}
  <2>1. persona.status # "absent"
    BY <1>1 DEF IInv, UserIsThere, In, At, Phases
  <2> QED  BY <1>1, <2>1 DEF IInv, PasswordExcused, Accepts
<1>2. IInv => ShownCredentialsWork
  BY <1>1 DEF ShownCredentialsWork
<1> QED  BY <1>2, PersonaInvariant, PTL

\* No login, no crash, no call sent twice and no rotation takes away what a
\* working persona can do: its password stays that of the seed it was made
\* under (_ensure_user).
THEOREM WorkingLasts == Spec => WorkingPersonaStays
<1>1. ASSUME IInv, [Next]_vars, NEW s \in Seeds, Accepts(s), persona.grouped
      PROVE  (Accepts(s) /\ persona.grouped)'
  <2>1. /\ persona.status = "confirmed" /\ persona.password = s /\ persona.grouped
        /\ s # Changed /\ hasGroup /\ persona \in Personas
    BY <1>1, PersonaAssumption DEF Accepts, IInv, GroupAsFound, TypeOK, Seeds
  <2>2. SUFFICES /\ persona'.status = "confirmed" /\ persona'.password = s
                 /\ persona'.grouped
    BY DEF Accepts
  <2>3. CASE persona' = persona
    BY <2>1, <2>3
  <2>4. ASSUME NEW r \in Logins, CreateUser(r) \/ CreateUserResent(r) \/ SetPassword(r) PROVE FALSE
    BY <1>1, <2>1, <2>4 DEF CreateUser, CreateUserResent, SetPassword, Calls, IInv, OneSetter
  <2>5. ASSUME NEW r \in Logins, UpdateTeam(r) \/ AddToGroup(r) \/ HostedSignIn(r)
        PROVE  persona'.status = "confirmed" /\ persona'.password = s /\ persona'.grouped
    BY <2>1, <2>5 DEF UpdateTeam, CallsWithTeam, WritesTeam, AddToGroup, HostedSignIn, Calls,
                      Personas
  <2>6. ASSUME \A r \in Logins : ~ (CreateUser(r) \/ CreateUserResent(r) \/ SetPassword(r)
                                     \/ UpdateTeam(r) \/ AddToGroup(r) \/ HostedSignIn(r))
        PROVE  persona' = persona
    BY <1>1, <2>6 DEF Next, Provision, Begin, UserExists, Calls, SignIn, SignInRefused, Ends,
                      Exchange, Abandon, RotateSeed, vars
  <2> QED  BY <2>3, <2>4, <2>5, <2>6
<1>2. IInv /\ [Next]_vars =>
        [\A s \in Seeds : Accepts(s) /\ persona.grouped => (Accepts(s) /\ persona.grouped)']_vars
  BY <1>1
<1> QED  BY <1>2, PersonaInvariant, PTL DEF Spec, WorkingPersonaStays

\* A persona that still has its temporary password is somebody's business, and
\* of one login only: the one that will set the password next.  A persona that
\* has been confirmed is so for good.
HalfMadeHasItsMaker ==
  persona.status = "temporary" /\ ~ unfinished =>
    \E r \in Logins : At(r, "setting") /\ \A q \in Logins : At(q, "setting") => q = r

OnlyEverFinished ==
  [][ /\ persona.status = "temporary" => persona'.status # "absent"
      /\ persona.status = "confirmed" => persona'.status = "confirmed" ]_vars

\* The part of ProvisioningCompletes that no fairness is needed for: unless
\* its maker died or was answered that the user exists, a half-made persona
\* never waits for nobody, and no step of anybody unmakes one (_ensure_user).
THEOREM ProvisioningIsNeverDropped == Spec => []HalfMadeHasItsMaker /\ OnlyEverFinished
<1>1. IInv => HalfMadeHasItsMaker
  BY DEF IInv, PasswordExcused, OneSetter, HalfMadeHasItsMaker
<1>2. ASSUME IInv, [Next]_vars, persona.status # "absent"
      PROVE  /\ persona'.status # "absent"
             /\ persona.status = "confirmed" => persona'.status = "confirmed"
  <2>1. persona \in Personas
    BY <1>2 DEF IInv, TypeOK
  <2>2. ASSUME NEW r \in Logins, SetPassword(r) \/ UpdateTeam(r) \/ AddToGroup(r) \/ HostedSignIn(r)
        PROVE  /\ persona'.status # "absent"
               /\ persona.status = "confirmed" => persona'.status = "confirmed"
    BY <1>2, <2>1, <2>2 DEF SetPassword, UpdateTeam, CallsWithTeam, WritesTeam, AddToGroup,
                            HostedSignIn, Calls, Personas
  <2>3. ASSUME \A r \in Logins : ~ (SetPassword(r) \/ UpdateTeam(r) \/ AddToGroup(r)
                                     \/ HostedSignIn(r))
        PROVE  persona' = persona
    BY <1>2, <2>3 DEF Next, Provision, Begin, CreateUser, CreateUserResent, UserExists, Calls, SignIn,
                      SignInRefused, Ends, Exchange, Abandon, RotateSeed, vars
  <2>. QED  BY <1>2, <2>2, <2>3
<1>3. IInv /\ [Next]_vars =>
        [ /\ persona.status = "temporary" => persona'.status # "absent"
          /\ persona.status = "confirmed" => persona'.status = "confirmed" ]_vars
  BY <1>2
<1>. QED  BY <1>1, <1>3, PersonaInvariant, PTL DEF Spec, OnlyEverFinished

===========================================================================
