------------------------------ MODULE Accounts -------------------------------
(***************************************************************************)
(* Accounts: passkey ceremonies, sessions, re-authentication (step-up) and *)
(* the second factor.                                                      *)
(*                                                                         *)
(* A tab of a browser runs one call at a time.  A ceremony is begun at the *)
(* API, answered on the user's device and finished at the API; every       *)
(* finish handler is split at its awaits, so handlers of several tabs      *)
(* interleave.  A guarded operation is asked for, may be answered with a   *)
(* demand to step up, and is then asked for once more.                     *)
(***************************************************************************)
EXTENDS Integers, Sequences, FiniteSets

CONSTANTS
  Tabs,          \* browser tabs
  Browser,       \* the browser of a tab; its tabs share one cookie
  Emails,        \* addresses a user may register with, 0 for none
  Scenarios,     \* what the tabs may do, and the bound on calls started,
                 \* resent or lost
  ChallengeTtl,  \* lifetime of a stored ceremony
  IdleTtl, AbsoluteTtl, StepUpMaxAge, StrictMaxAge,
  MaxNow         \* bound: clock

ASSUME AccountsAssumption == AbsoluteTtl \in Nat

VARIABLES
  now,
  menu,         \* the scenario
  spent,        \* calls started, resent or lost so far
  ceremonies,   \* the challenge store, by ceremony number
  users,        \* email of every user, 0 for none
  credentials,  \* rows of passkeys and authenticator apps
  devices,      \* signature counter of the device holding each passkey
  sessions,     \* session rows
  cookies,      \* session a browser's cookie names, 0 for none
  calls,        \* what every tab is doing
  accepted      \* history: ceremonies whose answer an API handler accepted

accountVars == <<now, menu, spent, ceremonies, users, credentials, devices, sessions, cookies,
                 calls, accepted>>

NoCall == [flow |-> "none", stage |-> "idle", op |-> "none", target |-> 0, cer |-> 0,
           pass |-> 0, count |-> 0, ses |-> 0, user |-> 0, stepUp |-> 0, tries |-> 0]

Update(t, call) == calls' = [calls EXCEPT ![t] = call]
End(t) == Update(t, NoCall)

(***************************************************************************)
(* The challenge store.                                                    *)
(***************************************************************************)
put(kind, user, email) ==
  ceremonies' = Append(ceremonies, [kind |-> kind, user |-> user, email |-> email, at |-> now,
                                    taken |-> FALSE])

stored(c) == ~ceremonies[c].taken /\ now < ceremonies[c].at + ChallengeTtl

consumeByGet(c) == UNCHANGED ceremonies

consume(c) == ceremonies' = [ceremonies EXCEPT ![c].taken = TRUE]

(***************************************************************************)
(* Session rows.                                                           *)
(***************************************************************************)
findLiveByTokenHash(s) == s # 0 /\ ~sessions[s].revoked /\ sessions[s].expires > now

idle(s) == sessions[s].seen + IdleTtl <= now

Resolved(s) == findLiveByTokenHash(s) /\ ~idle(s)

resolve(s) ==
  IF ~findLiveByTokenHash(s) THEN sessions
  ELSE [sessions EXCEPT ![s] = IF idle(s) THEN [@ EXCEPT !.revoked = TRUE]
                                          ELSE [@ EXCEPT !.seen = now]]

mint(user) ==
  Append(sessions, [user |-> user, seen |-> now, expires |-> now + AbsoluteTtl,
                    stepUp |-> now, revoked |-> FALSE])

revoke(s, user) ==
  [sessions EXCEPT ![s].revoked = @ \/ sessions[s].user = user]

revokeAllForUserKeepingOld(user, keep) ==
  [s \in DOMAIN sessions |->
     [sessions[s] EXCEPT !.revoked = @ \/ (sessions[s].user = user /\ s > keep)]]

revokeAllForUser(user, keep) ==
  [s \in DOMAIN sessions |->
     [sessions[s] EXCEPT !.revoked = @ \/ (sessions[s].user = user /\ s # keep)]]

stampStepUp(s) == [sessions EXCEPT ![s].stepUp = now]

requireStepUp(stepUp, maxAge) == now - stepUp <= maxAge

(***************************************************************************)
(* Credential rows.  "by" and "before" are history: the session that       *)
(* confirmed an authenticator app, once it has ended the others, and the   *)
(* sessions there were when it was confirmed.                              *)
(***************************************************************************)
createWebAuthn(user, count) ==
  Append(credentials, [type |-> "webauthn", user |-> user, count |-> count, revoked |-> FALSE,
                       confirmed |-> FALSE, by |-> 0, before |-> 0])

createTotp(user) ==
  Append(credentials, [type |-> "totp", user |-> user, count |-> 0, revoked |-> FALSE,
                       confirmed |-> FALSE, by |-> 0, before |-> 0])

findWebAuthnByCredentialId(c) == credentials[c].type = "webauthn" /\ ~credentials[c].revoked

countActiveAuthFactors(user) ==
  Cardinality({c \in DOMAIN credentials : /\ credentials[c].user = user
                                          /\ findWebAuthnByCredentialId(c)})

recordUse(c, count) == [credentials EXCEPT ![c].count = count]

revokeRow(c) == [credentials EXCEPT ![c].revoked = TRUE]

confirmTotp(c) ==
  [credentials EXCEPT ![c].confirmed = TRUE, ![c].before = Len(sessions)]

findUnconfirmedTotp(c, user) ==
  /\ c \in DOMAIN credentials
  /\ credentials[c].user = user /\ credentials[c].type = "totp"
  /\ ~credentials[c].confirmed /\ ~credentials[c].revoked

findConfirmedTotp(user) ==
  {c \in DOMAIN credentials : /\ credentials[c].user = user /\ credentials[c].type = "totp"
                              /\ credentials[c].confirmed /\ ~credentials[c].revoked}

suspicious(storedCount, received) == storedCount # 0 /\ received <= storedCount

(***************************************************************************)
(* What a route demands before its handler runs: a session, and for some a *)
(* recent step-up.                                                         *)
(***************************************************************************)
withdrawalStepUpGuard(op) == IF op = "withdrawLarge" THEN StrictMaxAge ELSE StepUpMaxAge

StepUpDemanded(op) ==
  CASE op \in {"revokeCredential", "enrollTotp", "disableTotp"} -> StepUpMaxAge
    [] op \in {"withdrawSmall", "withdrawLarge"} -> withdrawalStepUpGuard(op)
    [] OTHER -> MaxNow

(***************************************************************************)
(* The browser begins a ceremony, or asks for an operation.                *)
(***************************************************************************)
Spend(what) == what \in menu.may /\ spent < menu.calls /\ spent' = spent + 1

beginRegistration(t, email) ==
  /\ calls[t] = NoCall /\ Spend("register")
  /\ put("registration", 0, email)
  /\ Update(t, [NoCall EXCEPT !.flow = "register", !.stage = "begun",
                              !.cer = Len(ceremonies) + 1,
                              !.user = IF Resolved(cookies[Browser[t]])
                                       THEN sessions[cookies[Browser[t]]].user ELSE 0])
  /\ UNCHANGED <<now, menu, users, credentials, devices, sessions, cookies, accepted>>

beginLogin(t) ==
  /\ calls[t] = NoCall /\ Spend("login")
  /\ put("authentication", 0, 0)
  /\ Update(t, [NoCall EXCEPT !.flow = "login", !.stage = "begun", !.cer = Len(ceremonies) + 1])
  /\ UNCHANGED <<now, menu, users, credentials, devices, sessions, cookies, accepted>>

StartAction(t, op, target) ==
  /\ calls[t] = NoCall /\ Spend(op) /\ cookies[Browser[t]] # 0
  /\ Update(t, [NoCall EXCEPT !.flow = "act", !.stage = "ask", !.op = op, !.target = target])
  /\ UNCHANGED <<now, menu, ceremonies, users, credentials, devices, sessions, cookies, accepted>>

(***************************************************************************)
(* The device answers the challenge, with a new passkey or with one of the *)
(* user's, or the prompt is dismissed.                                     *)
(***************************************************************************)
Sign(t, p) ==
  /\ calls[t].stage = "begun"
  /\ IF calls[t].flow = "register"
     THEN /\ p = Len(credentials) + 1
          /\ Update(t, [calls[t] EXCEPT !.stage = "signed"])
          /\ UNCHANGED devices
     ELSE /\ p \in DOMAIN devices
          /\ devices' = [devices EXCEPT ![p] = @ + 1]
          /\ Update(t, [calls[t] EXCEPT !.stage = "signed", !.pass = p,
                                        !.count = devices[p] + 1])
  /\ UNCHANGED <<now, menu, spent, ceremonies, users, credentials, sessions, cookies, accepted>>

Dismiss(t) ==
  /\ calls[t].stage = "begun"
  /\ End(t)
  /\ UNCHANGED <<now, menu, spent, ceremonies, users, credentials, devices, sessions, cookies,
                 accepted>>

(***************************************************************************)
(* The answer is sent a second time: the network or the browser retries.   *)
(***************************************************************************)
Resend(t, u) ==
  /\ calls[t].stage = "signed" /\ calls[u] = NoCall /\ Browser[t] = Browser[u]
  /\ Spend("resend")
  /\ Update(u, calls[t])
  /\ UNCHANGED <<now, menu, ceremonies, users, credentials, devices, sessions, cookies, accepted>>

(***************************************************************************)
(* The finish handlers.  First await: the guard of the step-up route, and  *)
(* the ceremony taken out of the store.                                    *)
(***************************************************************************)
sessionGuard(t) == sessions' = resolve(cookies[Browser[t]])

FinishConsume(t) ==
  LET call == calls[t]
      cer == ceremonies[call.cer]
      s == cookies[Browser[t]]
      guarded == call.flow = "act"
      usable == (cer.kind = "registration") <=> (call.flow = "register") IN
  /\ call.stage = "signed"
  /\ IF guarded THEN sessionGuard(t) ELSE UNCHANGED sessions
  /\ \/ /\ guarded => Resolved(s)
        /\ consume(call.cer)
        /\ IF stored(call.cer) /\ usable
           THEN Update(t, [call EXCEPT !.stage = "consumed", !.ses = s,
                                       !.user = IF guarded THEN sessions[s].user ELSE @])
           ELSE End(t)
     \/ /\ guarded /\ ~Resolved(s)
        /\ End(t)
        /\ UNCHANGED ceremonies
  /\ UNCHANGED <<now, menu, spent, users, credentials, devices, cookies, accepted>>

(***************************************************************************)
(* Second await of registration: the transaction that makes the user and   *)
(* their passkey.  The routes of registration resolve no session, so the   *)
(* handler never has a user to add the passkey to.                         *)
(***************************************************************************)
finishRegistration(t) ==
  LET call == calls[t]
      email == ceremonies[call.cer].email IN
  /\ call.flow = "register" /\ call.stage = "consumed"
  /\ IF email # 0 /\ \E u \in DOMAIN users : users[u] = email
     THEN End(t) /\ UNCHANGED <<users, credentials, devices, accepted>>
     ELSE /\ users' = Append(users, email)
          /\ credentials' = createWebAuthn(Len(users) + 1, 0)
          /\ devices' = [p \in DOMAIN devices \cup {Len(credentials) + 1} |->
                           IF p \in DOMAIN devices THEN devices[p] ELSE 0]
          /\ accepted' = Append(accepted, call.cer)
          /\ Update(t, [call EXCEPT !.stage = "created", !.pass = Len(credentials) + 1,
                                    !.target = Len(users) + 1])
  /\ UNCHANGED <<now, menu, spent, ceremonies, sessions, cookies>>

issueRegistered(t) ==
  /\ calls[t].stage = "created"
  /\ sessions' = mint(calls[t].target)
  /\ cookies' = [cookies EXCEPT ![Browser[t]] = Len(sessions) + 1]
  /\ End(t)
  /\ UNCHANGED <<now, menu, spent, ceremonies, users, credentials, devices, accepted>>

(***************************************************************************)
(* Second await of login and step-up: the passkey is looked up (a step-up  *)
(* only among its session's user's) and the counter compared.              *)
(***************************************************************************)
finishAuthentication(t) ==
  LET call == calls[t]
      row == credentials[call.pass]
      belongs == call.flow = "act" => row.user = call.user IN
  /\ call.flow # "register" /\ call.stage = "consumed"
  /\ IF /\ findWebAuthnByCredentialId(call.pass) /\ belongs
        /\ ~suspicious(row.count, call.count)
     THEN /\ accepted' = Append(accepted, call.cer)
          /\ Update(t, [call EXCEPT !.stage = "verified"])
     ELSE End(t) /\ UNCHANGED accepted
  /\ UNCHANGED <<now, menu, spent, ceremonies, users, credentials, devices, sessions, cookies>>

finishLogin(t) ==
  LET call == calls[t] IN
  /\ call.flow = "login" /\ call.stage = "verified"
  /\ IF findWebAuthnByCredentialId(call.pass)
     THEN /\ credentials' = recordUse(call.pass, call.count)
          /\ sessions' = mint(credentials[call.pass].user)
          /\ cookies' = [cookies EXCEPT ![Browser[t]] = Len(sessions) + 1]
     ELSE UNCHANGED <<credentials, sessions, cookies>>
  /\ End(t)
  /\ UNCHANGED <<now, menu, spent, ceremonies, users, devices, accepted>>

finishStepUp(t) ==
  LET call == calls[t] IN
  /\ call.flow = "act" /\ call.stage = "verified"
  /\ credentials' = IF findWebAuthnByCredentialId(call.pass)
                    THEN recordUse(call.pass, call.count) ELSE credentials
  /\ sessions' = stampStepUp(call.ses)
  /\ Update(t, [call EXCEPT !.stage = "ask", !.tries = 1, !.cer = 0, !.pass = 0, !.count = 0])
  /\ UNCHANGED <<now, menu, spent, ceremonies, users, devices, cookies, accepted>>

(***************************************************************************)
(* A guarded operation: the guards run first and keep a copy of the        *)
(* session row; the handler runs after them.                               *)
(***************************************************************************)
Ask(t) ==
  LET call == calls[t]
      s == cookies[Browser[t]] IN
  /\ call.stage = "ask"
  /\ sessionGuard(t)
  /\ \/ /\ ~Resolved(s)
        /\ End(t)
     \/ /\ Resolved(s) /\ requireStepUp(sessions[s].stepUp, StepUpDemanded(call.op))
        /\ Update(t, [call EXCEPT !.stage = "granted", !.ses = s, !.user = sessions[s].user])
     \/ /\ Resolved(s) /\ ~requireStepUp(sessions[s].stepUp, StepUpDemanded(call.op))
        /\ IF call.tries = 0 THEN Update(t, [call EXCEPT !.stage = "stepup"]) ELSE End(t)
  /\ UNCHANGED <<now, menu, spent, ceremonies, users, credentials, devices, cookies, accepted>>

beginStepUp(t) ==
  LET s == cookies[Browser[t]] IN
  /\ calls[t].stage = "stepup"
  /\ sessionGuard(t)
  /\ IF Resolved(s)
     THEN /\ put("stepup", sessions[s].user, 0)
          /\ Update(t, [calls[t] EXCEPT !.stage = "begun", !.cer = Len(ceremonies) + 1])
     ELSE End(t) /\ UNCHANGED ceremonies
  /\ UNCHANGED <<now, menu, spent, users, credentials, devices, cookies, accepted>>

ClearCookie(t, s) ==
  cookies' = IF s = calls[t].ses THEN [cookies EXCEPT ![Browser[t]] = 0] ELSE cookies

revokeSession(t) ==
  LET call == calls[t]
      target == IF call.op = "logout" THEN call.ses ELSE call.target
      found == /\ target \in DOMAIN sessions
               /\ sessions[target].user = call.user /\ ~sessions[target].revoked IN
  /\ call.stage = "granted" /\ call.op \in {"logout", "revokeSession"}
  /\ sessions' = IF found THEN revoke(target, call.user) ELSE sessions
  /\ IF found THEN ClearCookie(t, target) ELSE UNCHANGED cookies
  /\ End(t)
  /\ UNCHANGED <<now, menu, spent, ceremonies, users, credentials, devices, accepted>>

revokeCredential(t) ==
  LET call == calls[t]
      c == call.target
      allowed == /\ c \in DOMAIN credentials
                 /\ credentials[c].user = call.user
                 /\ credentials[c].type # "totp" => countActiveAuthFactors(call.user) > 1
                 /\ ~credentials[c].revoked IN
  /\ call.stage = "granted" /\ call.op = "revokeCredential"
  /\ credentials' = IF allowed THEN revokeRow(c) ELSE credentials
  /\ End(t)
  /\ UNCHANGED <<now, menu, spent, ceremonies, users, devices, sessions, cookies, accepted>>

updateUser(t, email) ==
  LET call == calls[t] IN
  /\ call.stage = "granted" /\ call.op = "updateUser"
  /\ users' = IF \E u \in DOMAIN users : users[u] = email /\ u # call.user
              THEN users ELSE [users EXCEPT ![call.user] = email]
  /\ End(t)
  /\ UNCHANGED <<now, menu, spent, ceremonies, credentials, devices, sessions, cookies, accepted>>

enrollTotp(t) ==
  /\ calls[t].stage = "granted" /\ calls[t].op = "enrollTotp"
  /\ credentials' = createTotp(calls[t].user)
  /\ End(t)
  /\ UNCHANGED <<now, menu, spent, ceremonies, users, devices, sessions, cookies, accepted>>

(***************************************************************************)
(* Confirming the app: the transaction, then the end of every other        *)
(* session of the user.                                                    *)
(***************************************************************************)
confirm(t) ==
  LET call == calls[t] IN
  /\ call.stage = "granted" /\ call.op = "confirmTotp"
  /\ \/ /\ findUnconfirmedTotp(call.target, call.user)
        /\ credentials' = confirmTotp(call.target)
        /\ Update(t, [call EXCEPT !.stage = "confirmed"])
     \/ End(t) /\ UNCHANGED credentials
  /\ UNCHANGED <<now, menu, spent, ceremonies, users, devices, sessions, cookies, accepted>>

revokeAllOthers(t) ==
  LET call == calls[t] IN
  /\ call.stage = "confirmed"
  /\ sessions' = revokeAllForUser(call.user, call.ses)
  /\ credentials' = [credentials EXCEPT ![call.target].by = call.ses]
  /\ End(t)
  /\ UNCHANGED <<now, menu, spent, ceremonies, users, devices, cookies, accepted>>

disable(t) ==
  LET call == calls[t] IN
  /\ call.stage = "granted" /\ call.op = "disableTotp"
  /\ IF findConfirmedTotp(call.user) = {} THEN UNCHANGED credentials
     ELSE \E c \in findConfirmedTotp(call.user) : credentials' = revokeRow(c)
  /\ End(t)
  /\ UNCHANGED <<now, menu, spent, ceremonies, users, devices, sessions, cookies, accepted>>

(***************************************************************************)
(* Operations that change nothing here: the listings, and a withdrawal.    *)
(***************************************************************************)
Elsewhere(t) ==
  /\ calls[t].stage = "granted" /\ calls[t].op \in {"view", "withdrawSmall", "withdrawLarge"}
  /\ End(t)
  /\ UNCHANGED <<now, menu, spent, ceremonies, users, credentials, devices, sessions, cookies,
                 accepted>>

(***************************************************************************)
(* The API process dies with the handler of a tab unfinished.              *)
(***************************************************************************)
Lose(t) ==
  /\ calls[t].stage \in {"consumed", "created", "verified", "granted", "confirmed"}
  /\ Spend("lose")
  /\ End(t)
  /\ UNCHANGED <<now, menu, ceremonies, users, credentials, devices, sessions, cookies, accepted>>

Tick ==
  /\ now < MaxNow /\ now' = now + 1
  /\ UNCHANGED <<menu, spent, ceremonies, users, credentials, devices, sessions, cookies,
                 calls, accepted>>

\* One user has registered, in the first browser, and has just signed in there.
AccountsInit ==
  /\ now = 0 /\ spent = 0 /\ menu \in Scenarios
  /\ ceremonies = <<>> /\ users = <<1>>
  /\ credentials = <<[type |-> "webauthn", user |-> 1, count |-> 0, revoked |-> FALSE,
                      confirmed |-> FALSE, by |-> 0, before |-> 0]>>
  /\ devices = <<0>>
  /\ sessions = <<[user |-> 1, seen |-> 0, expires |-> AbsoluteTtl, stepUp |-> 0,
                   revoked |-> FALSE]>>
  /\ cookies = [b \in {Browser[t] : t \in Tabs} |-> IF b = 1 THEN 1 ELSE 0]
  /\ calls = [t \in Tabs |-> NoCall] /\ accepted = <<>>

Operations == {"logout", "revokeSession", "revokeCredential", "updateUser", "enrollTotp",
               "confirmTotp", "disableTotp", "view", "withdrawSmall", "withdrawLarge"}

Targets(op) ==
  CASE op = "revokeSession" -> DOMAIN sessions
    [] op \in {"revokeCredential", "confirmTotp"} -> DOMAIN credentials
    [] OTHER -> {0}

AccountsNext ==
  \/ Tick
  \/ \E t \in Tabs :
       \/ \E e \in Emails : beginRegistration(t, e)
       \/ beginLogin(t)
       \/ \E op \in menu.may \cap Operations : \E target \in Targets(op) :
            StartAction(t, op, target)
       \/ \E p \in 1 .. Len(credentials) + 1 : Sign(t, p)
       \/ Dismiss(t)
       \/ \E u \in Tabs : Resend(t, u)
       \/ FinishConsume(t)
       \/ finishRegistration(t)
       \/ issueRegistered(t)
       \/ finishAuthentication(t)
       \/ finishLogin(t)
       \/ finishStepUp(t)
       \/ Ask(t)
       \/ beginStepUp(t)
       \/ revokeSession(t)
       \/ revokeCredential(t)
       \/ \E e \in Emails : updateUser(t, e)
       \/ enrollTotp(t)
       \/ confirm(t)
       \/ revokeAllOthers(t)
       \/ disable(t)
       \/ Elsewhere(t)
       \/ Lose(t)

AccountsSpec == AccountsInit /\ [][AccountsNext]_accountVars

(***************************************************************************)
(* A ceremony is accepted at most once, however many copies of its answer  *)
(* arrive and however their handlers interleave                            *)
(* (packages/auth/src/challenge/store.ts, consume).                        *)
(***************************************************************************)
CeremonyAcceptedOnce ==
  \A i, j \in DOMAIN accepted : i # j => accepted[i] # accepted[j]

(***************************************************************************)
(* Once the handler that confirmed an authenticator app has finished, of   *)
(* the sessions its user had when the app was confirmed only the one that  *)
(* confirmed it can still act: a login or step-up racing the handler       *)
(* brings none of them back (totp.service.ts, confirm).                    *)
(***************************************************************************)
ConfirmationEndsOthers ==
  \A c \in DOMAIN credentials : credentials[c].by # 0 =>
    \A s \in 1 .. credentials[c].before :
      sessions[s].user = credentials[c].user /\ s # credentials[c].by => sessions[s].revoked

(***************************************************************************)
(* Signing in: one acceptance a ceremony, and no session a confirmation    *)
(* ended comes back.                                                       *)
(***************************************************************************)
SignInIsSound == CeremonyAcceptedOnce /\ ConfirmationEndsOthers

=============================================================================
