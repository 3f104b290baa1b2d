---------------------------- MODULE AccountsProofs ----------------------------
(***************************************************************************)
(* Proofs about a person's account: a sign-in ceremony is accepted once,   *)
(* and a session that a confirmed authenticator app ended does not come    *)
(* back (Accounts); the account screen shows the record once everything is *)
(* answered and handled (AccountScreen).                                   *)
(***************************************************************************)
EXTENDS Accounts, AccountScreen, FiniteSetTheorems, WellFoundedInduction, TLAPS

-----------------------------------------------------------------------------
(* Signing in.                                                               *)

Ceremony == [kind : {"registration", "authentication", "stepup"}, user : Nat,
             email : Emails \cup {0}, at : Nat, taken : BOOLEAN]
Credential == [type : {"webauthn", "totp"}, user : Nat, count : Nat, revoked : BOOLEAN,
               confirmed : BOOLEAN, by : Nat, before : Nat]
Session == [user : Nat, seen : Nat, expires : Nat, stepUp : Nat, revoked : BOOLEAN]
Flows == {"none", "register", "login", "act"}
CallStages == {"idle", "begun", "signed", "consumed", "created", "verified", "ask", "stepup",
               "granted", "confirmed"}
Call == [flow : Flows, stage : CallStages, op : Operations \cup {"none"}, target : Nat,
         cer : Nat, pass : Nat, count : Nat, ses : Nat, user : Nat, stepUp : {0}, tries : {0, 1}]
Browsers == {Browser[t] : t \in Tabs}

AccountsTypes ==
  /\ now \in Nat
  /\ ceremonies \in Seq(Ceremony) /\ credentials \in Seq(Credential)
  /\ sessions \in Seq(Session) /\ users \in Seq(Emails \cup {0, 1})
  /\ cookies \in [Browsers -> Nat] /\ \A b \in Browsers : cookies[b] <= Len(sessions)
  /\ DOMAIN devices \subseteq DOMAIN credentials
  /\ \A p \in DOMAIN devices : devices[p] \in Nat

\* What a tab's call refers to exists; a consumed ceremony is out of the
\* store; the app a call has confirmed is its user's.
CallOK(call, cers, creds, sess) ==
  /\ call \in Call
  /\ call.stage \in {"begun", "signed", "consumed"} => call.cer \in DOMAIN cers
  /\ call.stage = "consumed" => cers[call.cer].taken
  /\ call.flow # "register" /\ call.stage \in {"signed", "consumed", "verified"} =>
       call.pass \in DOMAIN creds
  /\ call.ses <= Len(sess)
  /\ call.stage = "confirmed" =>
       /\ call.target \in DOMAIN creds
       /\ creds[call.target].user = call.user
       /\ creds[call.target].confirmed
       /\ creds[call.target].before <= Len(sess)

CallsOK ==
  /\ calls \in [Tabs -> Call]
  /\ \A t \in Tabs : CallOK(calls[t], ceremonies, credentials, sessions)

\* No two handlers hold one ceremony, and none holds an accepted one.
CeremoniesApart ==
  /\ accepted \in Seq(Nat)
  /\ \A i \in DOMAIN accepted : accepted[i] \in DOMAIN ceremonies /\ ceremonies[accepted[i]].taken
  /\ CeremonyAcceptedOnce
  /\ \A t \in Tabs : calls[t].stage = "consumed" =>
       \A i \in DOMAIN accepted : accepted[i] # calls[t].cer
  /\ \A t, u \in Tabs : /\ calls[t].stage = "consumed" /\ calls[u].stage = "consumed"
                        /\ calls[t].cer = calls[u].cer
                        => t = u

\* The session that confirmed an app outlives the others of its user.
ConfirmedRows ==
  \A c \in DOMAIN credentials : credentials[c].by # 0 =>
    /\ credentials[c].confirmed /\ credentials[c].before <= Len(sessions)
    /\ \A s \in 1..credentials[c].before :
         sessions[s].user = credentials[c].user /\ s # credentials[c].by => sessions[s].revoked

AInv == AccountsTypes /\ CallsOK /\ CeremoniesApart /\ ConfirmedRows

\* Rows are never deleted; a taken ceremony, a confirmed app, a revoked session
\* stay so.
CeremoniesLast ==
  /\ DOMAIN ceremonies \subseteq DOMAIN ceremonies'
  /\ \A c \in DOMAIN ceremonies : ceremonies[c].taken => ceremonies'[c].taken
CredentialsLast ==
  /\ DOMAIN credentials \subseteq DOMAIN credentials'
  /\ \A c \in DOMAIN credentials : /\ credentials'[c].user = credentials[c].user
                                   /\ credentials[c].confirmed => credentials'[c].confirmed
SessionsLast ==
  /\ Len(sessions) <= Len(sessions')
  /\ \A s \in DOMAIN sessions : /\ sessions'[s].user = sessions[s].user
                                /\ sessions[s].revoked => sessions'[s].revoked
RowsLast == CeremoniesLast /\ CredentialsLast /\ SessionsLast

\* An app is not confirmed a second time.
BeforeStays ==
  \A c \in DOMAIN credentials :
    credentials[c].confirmed => credentials'[c].before = credentials[c].before

\* Nor does a confirmation finish.
NoneConfirmed ==
  /\ BeforeStays
  /\ \A c \in DOMAIN credentials' : credentials'[c].by # 0 =>
       /\ c \in DOMAIN credentials /\ credentials'[c].by = credentials[c].by
       /\ credentials'[c].before = credentials[c].before

LEMMA CallFields ==
  ASSUME NEW c \in Call
  PROVE  /\ c.target \in Nat /\ c.cer \in Nat /\ c.pass \in Nat /\ c.count \in Nat
         /\ c.ses \in Nat /\ c.user \in Nat
  BY Zenon DEF Call

LEMMA RowTypes ==
  ASSUME AccountsTypes
  PROVE  /\ Len(ceremonies) \in Nat /\ DOMAIN ceremonies = 1..Len(ceremonies)
         /\ Len(credentials) \in Nat /\ DOMAIN credentials = 1..Len(credentials)
         /\ Len(sessions) \in Nat /\ DOMAIN sessions = 1..Len(sessions)
         /\ \A c \in DOMAIN ceremonies : ceremonies[c] \in Ceremony
         /\ \A c \in DOMAIN credentials : /\ credentials[c] \in Credential
                                          /\ credentials[c].before \in Nat
                                          /\ credentials[c].user \in Nat
         /\ \A s \in DOMAIN sessions : sessions[s] \in Session /\ sessions[s].user \in Nat
<1>1. /\ \A c \in DOMAIN ceremonies : ceremonies[c] \in Ceremony
      /\ \A c \in DOMAIN credentials : credentials[c] \in Credential
      /\ \A s \in DOMAIN sessions : sessions[s] \in Session
  BY DEF AccountsTypes
<1>2. \A x \in Credential : x.before \in Nat /\ x.user \in Nat
  BY Zenon DEF Credential
<1>3. \A x \in Session : x.user \in Nat
  BY Zenon DEF Session
<1> QED BY <1>1, <1>2, <1>3 DEF AccountsTypes

LEMMA NoCallIsCall == NoCall \in Call /\ NoCall.stage = "idle" /\ NoCall.ses = 0
  BY Zenon DEF NoCall, Call, Flows, CallStages

\* The calls of the other tabs stay what they are.
LEMMA CallStays ==
  ASSUME AInv, RowsLast, AccountsTypes', BeforeStays, NEW t \in Tabs
  PROVE  CallOK(calls[t], ceremonies', credentials', sessions')
<1> DEFINE c == calls[t]
<1>1. CallOK(c, ceremonies, credentials, sessions) /\ c.target \in Nat /\ c.ses \in Nat
  BY Zenon, CallFields DEF AInv, CallsOK
<1>2. Len(sessions) \in Nat /\ Len(sessions') \in Nat /\ Len(sessions) <= Len(sessions')
  BY DEF AInv, AccountsTypes, RowsLast, SessionsLast
<1> HIDE DEF c
<1>3. c.stage = "confirmed" => /\ c.target \in DOMAIN credentials'
                               /\ credentials'[c.target].user = c.user
                               /\ credentials'[c.target].confirmed
                               /\ credentials'[c.target].before <= Len(sessions')
  <2> HAVE c.stage = "confirmed"
  <2>1. /\ c.target \in DOMAIN credentials /\ credentials[c.target].user = c.user
        /\ credentials[c.target].confirmed /\ credentials[c.target].before <= Len(sessions)
    BY Zenon, <1>1 DEF CallOK
  <2>2. credentials[c.target].before \in Nat
    BY Zenon, <2>1, RowTypes DEF AInv
  <2>3. credentials'[c.target].before = credentials[c.target].before
    BY Zenon, <2>1 DEF BeforeStays
  <2> QED BY <1>2, <2>1, <2>2, <2>3 DEF RowsLast, CredentialsLast
<1>4. CallOK(c, ceremonies', credentials', sessions')
  BY <1>1, <1>2, <1>3 DEF CallOK, RowsLast, CeremoniesLast, CredentialsLast
<1> QED BY Zenon, <1>4 DEF c

LEMMA ConfirmedRowsStay ==
  ASSUME AInv, RowsLast, AccountsTypes', NoneConfirmed
  PROVE  ConfirmedRows'
<1> SUFFICES ASSUME NEW c \in DOMAIN credentials', credentials'[c].by # 0
             PROVE  /\ credentials'[c].confirmed /\ credentials'[c].before <= Len(sessions')
                    /\ \A s \in 1..credentials'[c].before :
                         sessions'[s].user = credentials'[c].user /\ s # credentials'[c].by
                           => sessions'[s].revoked
  BY Zenon DEF ConfirmedRows
<1>1. /\ c \in DOMAIN credentials /\ credentials'[c].by = credentials[c].by
      /\ credentials'[c].before = credentials[c].before
  BY Zenon DEF NoneConfirmed
<1>2. /\ credentials[c].confirmed /\ credentials[c].before <= Len(sessions)
      /\ \A s \in 1..credentials[c].before :
           sessions[s].user = credentials[c].user /\ s # credentials[c].by => sessions[s].revoked
  BY Zenon, <1>1 DEF AInv, ConfirmedRows
<1>3. /\ credentials[c].before \in Nat /\ Len(sessions) \in Nat /\ Len(sessions') \in Nat
      /\ DOMAIN sessions = 1..Len(sessions)
  BY <1>1, RowTypes DEF AInv, AccountsTypes
<1>4. \A s \in 1..credentials[c].before : s \in DOMAIN sessions
  BY <1>2, <1>3
<1>5. credentials'[c].user = credentials[c].user /\ credentials'[c].confirmed
  BY Zenon, <1>1, <1>2 DEF RowsLast, CredentialsLast
<1>6. \A s \in DOMAIN sessions : /\ sessions'[s].user = sessions[s].user
                                 /\ sessions[s].revoked => sessions'[s].revoked
  BY Zenon DEF RowsLast, SessionsLast
<1>7. Len(sessions) <= Len(sessions')
  BY Zenon DEF RowsLast, SessionsLast
<1>8. ASSUME NEW s \in 1..credentials'[c].before,
             sessions'[s].user = credentials'[c].user, s # credentials'[c].by
      PROVE  sessions'[s].revoked
  <2>1. s \in 1..credentials[c].before /\ s \in DOMAIN sessions
    BY Zenon, <1>1, <1>4
  <2> QED BY Zenon, <2>1, <1>1, <1>2, <1>5, <1>6, <1>8
<1> QED BY <1>1, <1>2, <1>3, <1>5, <1>7, <1>8

\* A step of one tab that accepts nothing and takes no ceremony to itself.
LEMMA OneCallButRows ==
  ASSUME AInv, RowsLast, AccountsTypes', BeforeStays, ConfirmedRows', accepted' = accepted,
         NEW t \in Tabs, NEW n, calls' = [calls EXCEPT ![t] = n],
         CallOK(n, ceremonies', credentials', sessions'), n.stage # "consumed"
  PROVE  AInv'
<1>1. calls' \in [Tabs -> Call] /\ \A u \in Tabs : calls'[u] = IF u = t THEN n ELSE calls[u]
  BY Zenon DEF AInv, CallsOK, CallOK
<1>2. CallsOK'
  BY Zenon, <1>1, CallStays DEF CallsOK
<1>3. CeremoniesApart'
  <2>1. CeremoniesApart
    BY Zenon DEF AInv
  <2>2. \A u \in Tabs : calls'[u].stage = "consumed" => calls'[u] = calls[u]
    BY Zenon, <1>1
  <2>3. \A i \in DOMAIN accepted : accepted[i] \in DOMAIN ceremonies' /\ ceremonies'[accepted[i]].taken
    BY Zenon, <2>1 DEF CeremoniesApart, RowsLast, CeremoniesLast
  <2>4. CeremonyAcceptedOnce'
    BY Zenon, <2>1 DEF CeremoniesApart, CeremonyAcceptedOnce
  <2> QED BY <2>1, <2>2, <2>3, <2>4 DEF CeremoniesApart
<1> QED BY Zenon, <1>2, <1>3 DEF AInv

LEMMA OneCall ==
  ASSUME AInv, RowsLast, AccountsTypes', NoneConfirmed, accepted' = accepted,
         NEW t \in Tabs, NEW n, calls' = [calls EXCEPT ![t] = n],
         CallOK(n, ceremonies', credentials', sessions'), n.stage # "consumed"
  PROVE  AInv'
<1>1. BeforeStays
  BY Zenon DEF NoneConfirmed
<1> QED BY Zenon, <1>1, ConfirmedRowsStay, OneCallButRows

\* A step that ends the call of its tab.
LEMMA OneEnd ==
  ASSUME AInv, RowsLast, AccountsTypes', NoneConfirmed, accepted' = accepted,
         NEW t \in Tabs, End(t)
  PROVE  AInv'
<1>1. calls' = [calls EXCEPT ![t] = NoCall]
  BY Zenon DEF End, Update
<1>2. Len(sessions') \in Nat
  BY DEF AccountsTypes
<1>3. CallOK(NoCall, ceremonies', credentials', sessions') /\ NoCall.stage # "consumed"
  BY <1>2, NoCallIsCall DEF CallOK
<1> QED BY Zenon, <1>1, <1>3, OneCall

LEMMA Same ==
  /\ AInv /\ UNCHANGED ceremonies => CeremoniesLast
  /\ AInv /\ UNCHANGED credentials => CredentialsLast /\ NoneConfirmed
  /\ AInv /\ UNCHANGED sessions => SessionsLast
  BY DEF AInv, AccountsTypes, CeremoniesLast, CredentialsLast, SessionsLast, NoneConfirmed,
         BeforeStays

LEMMA PutKeeps ==
  ASSUME AInv, NEW kind \in {"registration", "authentication", "stepup"}, NEW user \in Nat,
         NEW email \in Emails \cup {0}, put(kind, user, email)
  PROVE  /\ ceremonies' \in Seq(Ceremony) /\ CeremoniesLast
         /\ Len(ceremonies) + 1 \in DOMAIN ceremonies' /\ Len(ceremonies) + 1 \in Nat
<1> DEFINE row == [kind |-> kind, user |-> user, email |-> email, at |-> now, taken |-> FALSE]
<1>1. ceremonies \in Seq(Ceremony) /\ now \in Nat
  BY Zenon DEF AInv, AccountsTypes
<1>2. row \in Ceremony
  BY Zenon, <1>1 DEF Ceremony
<1>3. ceremonies' = Append(ceremonies, row)
  BY Zenon DEF put
<1> HIDE DEF row
<1> QED BY <1>1, <1>2, <1>3 DEF CeremoniesLast

LEMMA ConsumeKeeps ==
  ASSUME AInv, NEW c \in DOMAIN ceremonies, consume(c)
  PROVE  /\ ceremonies' \in Seq(Ceremony) /\ CeremoniesLast /\ ceremonies'[c].taken
         /\ DOMAIN ceremonies' = DOMAIN ceremonies
<1>1. ceremonies \in Seq(Ceremony) /\ ceremonies[c] \in Ceremony
  BY Zenon, RowTypes DEF AInv, AccountsTypes
<1>2. [ceremonies[c] EXCEPT !.taken = TRUE] \in Ceremony
  BY <1>1, Zenon DEF Ceremony
<1>3. [ceremonies[c] EXCEPT !.taken = TRUE].taken = TRUE
  BY <1>1, Zenon DEF Ceremony
<1>4. ceremonies' = [ceremonies EXCEPT ![c] = [ceremonies[c] EXCEPT !.taken = TRUE]]
  BY Zenon, <1>1 DEF consume
<1>5. DOMAIN ceremonies' = DOMAIN ceremonies
      /\ \A d \in DOMAIN ceremonies :
           ceremonies'[d] = IF d = c THEN [ceremonies[c] EXCEPT !.taken = TRUE] ELSE ceremonies[d]
  BY Zenon, <1>4
<1>6. ceremonies' \in Seq(Ceremony)
  BY <1>1, <1>2, <1>4
<1> QED BY Zenon, <1>3, <1>5, <1>6 DEF CeremoniesLast

\* A session row rewritten for the same user, and not brought back.
LEMMA SessionWritten ==
  ASSUME AInv, NEW s \in DOMAIN sessions, NEW row \in Session, row.user = sessions[s].user,
         sessions[s].revoked => row.revoked, sessions' = [sessions EXCEPT ![s] = row]
  PROVE  sessions' \in Seq(Session) /\ SessionsLast /\ Len(sessions') = Len(sessions)
<1>1. sessions \in Seq(Session)
  BY Zenon DEF AInv, AccountsTypes
<1>2. /\ sessions' \in Seq(Session) /\ Len(sessions') = Len(sessions)
      /\ \A r \in DOMAIN sessions : sessions'[r] = IF r = s THEN row ELSE sessions[r]
  BY <1>1
<1>3. Len(sessions) <= Len(sessions')
  BY <1>1, <1>2
<1> QED BY Zenon, <1>2, <1>3 DEF SessionsLast

LEMMA ResolveKeeps ==
  ASSUME AInv, NEW s \in Nat, s <= Len(sessions), sessions' = resolve(s)
  PROVE  sessions' \in Seq(Session) /\ SessionsLast /\ Len(sessions') = Len(sessions)
<1>1. CASE ~findLiveByTokenHash(s)
  <2>1. sessions' = sessions
    BY Zenon, <1>1 DEF resolve
  <2> QED BY Zenon, <2>1, Same DEF AInv, AccountsTypes
<1>2. CASE findLiveByTokenHash(s)
  <2>1. s \in DOMAIN sessions /\ sessions[s] \in Session /\ now \in Nat /\ sessions \in Seq(Session)
    BY <1>2, RowTypes DEF findLiveByTokenHash, AInv, AccountsTypes
  <2> DEFINE row == IF idle(s) THEN [sessions[s] EXCEPT !.revoked = TRUE]
                    ELSE [sessions[s] EXCEPT !.seen = now]
  <2>2. sessions' = [sessions EXCEPT ![s] = row]
    BY Zenon, <1>2, <2>1 DEF resolve
  <2>3. row \in Session /\ row.user = sessions[s].user /\ (sessions[s].revoked => row.revoked)
    BY Zenon, <2>1 DEF Session
  <2> HIDE DEF row
  <2> QED BY Zenon, <2>1, <2>2, <2>3, SessionWritten
<1> QED BY Zenon, <1>1, <1>2

LEMMA MintKeeps ==
  ASSUME AInv, NEW user \in Nat, sessions' = mint(user)
  PROVE  sessions' \in Seq(Session) /\ SessionsLast /\ Len(sessions') = Len(sessions) + 1
<1> DEFINE row == [user |-> user, seen |-> now, expires |-> now + AbsoluteTtl, stepUp |-> now,
                   revoked |-> FALSE]
<1>1. sessions \in Seq(Session) /\ now \in Nat /\ now + AbsoluteTtl \in Nat
  BY AccountsAssumption DEF AInv, AccountsTypes
<1>2. row \in Session
  BY Zenon, <1>1 DEF Session
<1>3. sessions' = Append(sessions, row)
  BY Zenon DEF mint
<1> HIDE DEF row
<1>4. sessions' \in Seq(Session) /\ Len(sessions') = Len(sessions) + 1
      /\ \A s \in DOMAIN sessions : sessions'[s] = sessions[s]
  BY <1>1, <1>2, <1>3
<1> QED BY <1>1, <1>4 DEF SessionsLast

\* A credential row rewritten for the same user without its confirmation.
LEMMA CredentialWritten ==
  ASSUME AInv, NEW c \in DOMAIN credentials, NEW row \in Credential,
         row.user = credentials[c].user, credentials[c].confirmed => row.confirmed,
         row.by = credentials[c].by,
         credentials[c].confirmed \/ row.by # 0 => row.before = credentials[c].before,
         credentials' = [credentials EXCEPT ![c] = row]
  PROVE  credentials' \in Seq(Credential) /\ CredentialsLast /\ NoneConfirmed
<1>1. credentials \in Seq(Credential)
  BY Zenon DEF AInv, AccountsTypes
<1>2. /\ credentials' \in Seq(Credential) /\ DOMAIN credentials' = DOMAIN credentials
      /\ \A d \in DOMAIN credentials : credentials'[d] = IF d = c THEN row ELSE credentials[d]
  BY <1>1
<1> QED BY Zenon, <1>2 DEF CredentialsLast, NoneConfirmed, BeforeStays

LEMMA CredentialAdded ==
  ASSUME AInv, NEW row \in Credential, row.by = 0, credentials' = Append(credentials, row)
  PROVE  credentials' \in Seq(Credential) /\ CredentialsLast /\ NoneConfirmed
<1>1. credentials \in Seq(Credential)
  BY Zenon DEF AInv, AccountsTypes
<1>2. /\ credentials' \in Seq(Credential) /\ Len(credentials') = Len(credentials) + 1
      /\ credentials'[Len(credentials) + 1] = row
      /\ \A d \in DOMAIN credentials : credentials'[d] = credentials[d]
      /\ DOMAIN credentials' = DOMAIN credentials \cup {Len(credentials) + 1}
      /\ Len(credentials) + 1 \notin DOMAIN credentials
  BY <1>1
<1> QED BY Zenon, <1>2 DEF CredentialsLast, NoneConfirmed, BeforeStays

LEMMA RecordUseKeeps ==
  ASSUME AInv, NEW c \in Nat, NEW count \in Nat, credentials' = recordUse(c, count)
  PROVE  credentials' \in Seq(Credential) /\ CredentialsLast /\ NoneConfirmed
<1>1. credentials \in Seq(Credential)
  BY Zenon DEF AInv, AccountsTypes
<1>2. CASE c \in DOMAIN credentials
  <2> DEFINE row == [credentials[c] EXCEPT !.count = count]
  <2>1. credentials[c] \in Credential
    BY Zenon, <1>2, RowTypes DEF AInv
  <2>2. /\ row \in Credential /\ row.user = credentials[c].user /\ row.by = credentials[c].by
        /\ row.confirmed = credentials[c].confirmed /\ row.before = credentials[c].before
    BY Zenon, <2>1 DEF Credential
  <2>3. credentials' = [credentials EXCEPT ![c] = row]
    BY Zenon, <1>1 DEF recordUse
  <2> HIDE DEF row
  <2> QED BY Zenon, <1>2, <2>2, <2>3, CredentialWritten
<1>3. CASE c \notin DOMAIN credentials
  <2>1. credentials' = credentials
    BY <1>1, <1>3 DEF recordUse
  <2> QED BY Zenon, <1>1, <2>1, Same
<1> QED BY Zenon, <1>2, <1>3

LEMMA RevokeRowKeeps ==
  ASSUME AInv, NEW c \in DOMAIN credentials, credentials' = revokeRow(c)
  PROVE  credentials' \in Seq(Credential) /\ CredentialsLast /\ NoneConfirmed
<1> DEFINE row == [credentials[c] EXCEPT !.revoked = TRUE]
<1>1. credentials[c] \in Credential /\ credentials \in Seq(Credential)
  BY Zenon, RowTypes DEF AInv, AccountsTypes
<1>2. /\ row \in Credential /\ row.user = credentials[c].user /\ row.by = credentials[c].by
      /\ row.confirmed = credentials[c].confirmed /\ row.before = credentials[c].before
  BY Zenon, <1>1 DEF Credential
<1>3. credentials' = [credentials EXCEPT ![c] = row]
  BY Zenon, <1>1 DEF revokeRow
<1> HIDE DEF row
<1> QED BY Zenon, <1>2, <1>3, CredentialWritten

\* The call of a tab and the session its browser's cookie names.
LEMMA CallOf ==
  ASSUME AInv, NEW t \in Tabs
  PROVE  /\ calls[t] \in Call /\ CallOK(calls[t], ceremonies, credentials, sessions)
         /\ calls[t].ses \in Nat /\ calls[t].cer \in Nat /\ calls[t].pass \in Nat
         /\ calls[t].count \in Nat /\ calls[t].user \in Nat /\ calls[t].target \in Nat
         /\ cookies[Browser[t]] \in Nat /\ cookies[Browser[t]] <= Len(sessions)
         /\ Browser[t] \in Browsers
<1>1. Browser[t] \in Browsers
  BY Zenon DEF Browsers
<1> QED BY Zenon, <1>1, CallFields DEF AInv, CallsOK, AccountsTypes

\* A live session has a user.
LEMMA LiveUser ==
  ASSUME AInv, NEW s \in Nat, s <= Len(sessions), Resolved(s)
  PROVE  s \in DOMAIN sessions /\ sessions[s].user \in Nat
<1>1. s \in DOMAIN sessions
  BY RowTypes DEF Resolved, findLiveByTokenHash, AInv
<1> QED BY Zenon, <1>1, RowTypes DEF AInv

LEMMA StepBegin ==
  ASSUME AInv, NEW t \in Tabs,
         \/ \E e \in Emails : beginRegistration(t, e)
         \/ beginLogin(t)
  PROVE  AInv'
<1> DEFINE s == cookies[Browser[t]]
           live == IF Resolved(s) THEN sessions[s].user ELSE 0
           reg == [NoCall EXCEPT !.flow = "register", !.stage = "begun",
                                 !.cer = Len(ceremonies) + 1, !.user = live]
           log == [NoCall EXCEPT !.flow = "login", !.stage = "begun",
                                 !.cer = Len(ceremonies) + 1]
<1>1. live \in Nat
  BY Zenon, CallOf, LiveUser
<1>2. PICK kind \in {"registration", "authentication"}, e \in Emails \cup {0}, n \in {reg, log} :
        /\ put(kind, 0, e) /\ calls' = [calls EXCEPT ![t] = n]
        /\ UNCHANGED <<now, users, credentials, devices, sessions, cookies, accepted>>
  BY Zenon DEF beginRegistration, beginLogin, Update
<1>3. /\ ceremonies' \in Seq(Ceremony) /\ CeremoniesLast
      /\ Len(ceremonies) + 1 \in DOMAIN ceremonies' /\ Len(ceremonies) + 1 \in Nat
  BY <1>2, PutKeeps
<1>4. AccountsTypes' /\ RowsLast /\ NoneConfirmed
  <2>1. AccountsTypes'
    BY Zenon, <1>2, <1>3 DEF AInv, AccountsTypes
  <2> QED BY Zenon, <1>2, <1>3, <2>1, Same DEF RowsLast
<1> HIDE DEF live
<1>5. /\ n \in Call /\ n.stage = "begun" /\ n.cer = Len(ceremonies) + 1 /\ n.ses = 0
  <2> DEFINE k == Len(ceremonies) + 1
  <2> HIDE DEF k
  <2>1. k \in Nat
    BY Zenon, <1>3 DEF k
  <2>2. "register" \in Flows /\ "login" \in Flows /\ "begun" \in CallStages
    BY Zenon DEF Flows, CallStages
  <2>3. reg \in Call /\ reg.stage = "begun" /\ reg.cer = k /\ reg.ses = 0
    BY <1>1, <2>1, <2>2, NoCallIsCall, Zenon DEF Call, k
  <2>4. log \in Call /\ log.stage = "begun" /\ log.cer = k /\ log.ses = 0
    BY <2>1, <2>2, NoCallIsCall, Zenon DEF Call, k
  <2> QED BY Zenon, <1>2, <2>3, <2>4 DEF k
<1>6. CallOK(n, ceremonies', credentials', sessions')
  <2>1. Len(sessions') \in Nat
    BY <1>4 DEF AccountsTypes
  <2> QED BY <1>3, <1>5, <2>1 DEF CallOK
<1> QED BY Zenon, <1>2, <1>4, <1>5, <1>6, OneCall

LEMMA StepAside ==
  ASSUME AInv, NEW t \in Tabs,
         \/ \E op \in menu.may \cap Operations : \E target \in Targets(op) :
              StartAction(t, op, target)
         \/ \E p \in 1 .. Len(credentials) + 1 : Sign(t, p)
         \/ Dismiss(t)
         \/ \E u \in Tabs : Resend(t, u)
         \/ Elsewhere(t)
         \/ Lose(t)
  PROVE  AInv'
<1>1. /\ UNCHANGED <<now, ceremonies, users, credentials, sessions, cookies, accepted>>
      /\ DOMAIN devices' = DOMAIN devices /\ \A p \in DOMAIN devices' : devices'[p] \in Nat
  <2>1. UNCHANGED <<now, ceremonies, users, credentials, sessions, cookies, accepted>>
    BY Zenon DEF StartAction, Sign, Dismiss, Resend, Elsewhere, Lose
  <2>2. devices' = devices \/ \E p \in DOMAIN devices : devices' = [devices EXCEPT ![p] = @ + 1]
    BY Zenon DEF StartAction, Sign, Dismiss, Resend, Elsewhere, Lose
  <2>3. \A p \in DOMAIN devices : devices[p] \in Nat
    BY Zenon DEF AInv, AccountsTypes
  <2> QED BY <2>1, <2>2, <2>3
<1>2. AccountsTypes' /\ RowsLast /\ NoneConfirmed
  <2>1. AccountsTypes'
    BY Zenon, <1>1 DEF AInv, AccountsTypes
  <2> QED BY Zenon, <1>1, <2>1, Same DEF RowsLast
<1>3. ASSUME NEW u \in Tabs, NEW n, calls' = [calls EXCEPT ![u] = n],
             CallOK(n, ceremonies, credentials, sessions), n.stage # "consumed"
      PROVE  AInv'
  BY Zenon, <1>1, <1>2, <1>3, OneCall
<1>4. ASSUME NEW op \in menu.may \cap Operations, NEW target \in Targets(op),
             StartAction(t, op, target)
      PROVE  AInv'
  <2> DEFINE n == [NoCall EXCEPT !.flow = "act", !.stage = "ask", !.op = op, !.target = target]
  <2>1. calls' = [calls EXCEPT ![t] = n]
    BY Zenon, <1>4 DEF StartAction, Update
  <2>2. target \in Nat
    BY RowTypes DEF Targets, AInv
  <2>3. n \in Call /\ n.stage = "ask" /\ n.ses = 0
    BY Zenon, <2>2 DEF NoCall, Call, Flows, CallStages
  <2>4. CallOK(n, ceremonies, credentials, sessions)
    BY <2>3, RowTypes DEF CallOK, AInv
  <2> QED BY Zenon, <1>3, <2>1, <2>3, <2>4
<1>5. ASSUME NEW p \in 1 .. Len(credentials) + 1, Sign(t, p) PROVE AInv'
  <2> DEFINE c == calls[t]
  <2>1. /\ c \in Call /\ CallOK(c, ceremonies, credentials, sessions)
        /\ Len(credentials) \in Nat
    BY Zenon, CallOf, RowTypes DEF AInv
  <2>2. PICK n \in {[c EXCEPT !.stage = "signed"],
                    [c EXCEPT !.stage = "signed", !.pass = p, !.count = devices[p] + 1]} :
          /\ calls' = [calls EXCEPT ![t] = n] /\ c.stage = "begun"
          /\ IF c.flow = "register" THEN n = [c EXCEPT !.stage = "signed"]
             ELSE /\ p \in DOMAIN devices
                  /\ n = [c EXCEPT !.stage = "signed", !.pass = p, !.count = devices[p] + 1]
    BY Zenon, <1>5 DEF Sign, Update
  <2> HIDE DEF c
  <2>3. p \in Nat /\ (p \in DOMAIN devices => devices[p] + 1 \in Nat /\ p \in DOMAIN credentials)
    BY <2>1 DEF AInv, AccountsTypes
  <2>4. /\ n \in Call /\ n.stage = "signed" /\ n.cer = c.cer /\ n.ses = c.ses
        /\ n.flow = c.flow /\ (c.flow # "register" => n.pass = p)
    BY Zenon, <2>1, <2>2, <2>3 DEF Call, CallStages
  <2>5. CallOK(n, ceremonies, credentials, sessions)
    BY Zenon, <2>1, <2>2, <2>3, <2>4 DEF CallOK
  <2> QED BY Zenon, <1>3, <2>2, <2>4, <2>5
<1>6. ASSUME End(t) PROVE AInv'
  BY Zenon, <1>1, <1>2, <1>6, OneEnd
<1>7. ASSUME NEW u \in Tabs, Resend(t, u) PROVE AInv'
  <2>1. calls' = [calls EXCEPT ![u] = calls[t]] /\ calls[t].stage = "signed"
    BY Zenon, <1>7 DEF Resend, Update
  <2>2. CallOK(calls[t], ceremonies, credentials, sessions)
    BY Zenon, CallOf
  <2> QED BY Zenon, <1>3, <2>1, <2>2
<1> QED BY Zenon, <1>4, <1>5, <1>6, <1>7 DEF Dismiss, Elsewhere, Lose

\* The first handler to take a ceremony is the only one to have it.
LEMMA StepConsume ==
  ASSUME AInv, NEW t \in Tabs, FinishConsume(t)
  PROVE  AInv'
<1> DEFINE c == calls[t]
           s == cookies[Browser[t]]
           guarded == c.flow = "act"
<1>1. /\ c \in Call /\ CallOK(c, ceremonies, credentials, sessions) /\ c.stage = "signed"
      /\ c.ses \in Nat /\ c.cer \in Nat /\ c.user \in Nat /\ c.target \in Nat
      /\ s \in Nat /\ s <= Len(sessions)
  BY Zenon, CallOf DEF FinishConsume
<1>2. UNCHANGED <<now, users, credentials, devices, cookies, accepted>>
  BY Zenon DEF FinishConsume
<1>3. sessions' = (IF guarded THEN resolve(s) ELSE sessions)
  BY Zenon DEF FinishConsume, sessionGuard
<1>4. sessions' \in Seq(Session) /\ SessionsLast /\ Len(sessions') = Len(sessions)
  BY Zenon, <1>1, <1>3, ResolveKeeps, Same DEF AInv, AccountsTypes
<1>5. c.cer \in DOMAIN ceremonies
  BY Zenon, <1>1 DEF CallOK
<1>6. CredentialsLast /\ NoneConfirmed
  BY Zenon, <1>2, Same
<1>7. CASE guarded /\ ~Resolved(s) /\ End(t) /\ UNCHANGED ceremonies
  <2>1. AccountsTypes' /\ RowsLast
    BY Zenon, <1>2, <1>4, <1>6, <1>7, Same DEF AInv, AccountsTypes, RowsLast
  <2> QED BY Zenon, <1>2, <1>6, <1>7, <2>1, OneEnd
<1>8. CASE (guarded => Resolved(s)) /\ consume(c.cer)
  <2>1. /\ ceremonies' \in Seq(Ceremony) /\ CeremoniesLast /\ ceremonies'[c.cer].taken
        /\ DOMAIN ceremonies' = DOMAIN ceremonies
    BY Zenon, <1>5, <1>8, ConsumeKeeps
  <2>2. AccountsTypes' /\ RowsLast
    BY Zenon, <1>2, <1>4, <1>6, <2>1 DEF AInv, AccountsTypes, RowsLast
  <2>3. CASE End(t)
    BY Zenon, <1>2, <1>6, <2>2, <2>3, OneEnd
  <2> DEFINE n == [c EXCEPT !.stage = "consumed", !.ses = s,
                            !.user = IF guarded THEN sessions[s].user ELSE @]
  <2>4. CASE stored(c.cer) /\ Update(t, n)
    <3> DEFINE user == IF guarded THEN sessions[s].user ELSE c.user
    <3>1. user \in Nat
      BY Zenon, <1>1, <1>8, LiveUser
    <3>2. n = [c EXCEPT !.stage = "consumed", !.ses = s, !.user = user]
      BY Zenon, <1>1 DEF Call
    <3> HIDE DEF user, n
    <3>3. /\ n \in Call /\ n.stage = "consumed" /\ n.cer = c.cer /\ n.ses = s
          /\ n.flow = c.flow /\ n.pass = c.pass
      <4>1. "consumed" \in CallStages
        BY Zenon DEF CallStages
      <4> QED BY <1>1, <3>1, <3>2, <4>1, Zenon DEF Call
    <3>4. CallOK(n, ceremonies', credentials', sessions')
      BY Zenon, <1>1, <1>2, <1>4, <1>5, <2>1, <3>3 DEF CallOK
    <3>5. calls' = [calls EXCEPT ![t] = n]
      BY Zenon, <2>4 DEF Update
    <3>6. calls' \in [Tabs -> Call] /\ \A u \in Tabs : calls'[u] = IF u = t THEN n ELSE calls[u]
      BY Zenon, <3>3, <3>5 DEF AInv, CallsOK
    <3>7. CallsOK'
      BY Zenon, <1>6, <2>2, <3>4, <3>6, CallStays DEF CallsOK, NoneConfirmed
    <3>8. CeremoniesApart'
      <4>1. CeremoniesApart /\ ~ceremonies[c.cer].taken
        BY Zenon, <2>4 DEF AInv, stored
      <4>2. \A i \in DOMAIN accepted : accepted[i] # c.cer
        BY Zenon, <4>1 DEF CeremoniesApart
      <4>3. \A u \in Tabs : calls[u].stage = "consumed" => calls[u].cer # c.cer
        BY Zenon, <4>1 DEF AInv, CallsOK, CallOK
      <4>4. \A i \in DOMAIN accepted :
              accepted[i] \in DOMAIN ceremonies' /\ ceremonies'[accepted[i]].taken
        BY Zenon, <2>1, <4>1 DEF CeremoniesApart, CeremoniesLast
      <4>5. CeremonyAcceptedOnce'
        BY Zenon, <1>2, <4>1 DEF CeremoniesApart, CeremonyAcceptedOnce
      <4>6. \A u \in Tabs : calls'[u].stage = "consumed" =>
              \A i \in DOMAIN accepted : accepted[i] # calls'[u].cer
        BY <3>3, <3>6, <4>1, <4>2 DEF CeremoniesApart
      <4>7. \A u, v \in Tabs : /\ calls'[u].stage = "consumed" /\ calls'[v].stage = "consumed"
                               /\ calls'[u].cer = calls'[v].cer
                               => u = v
        BY <3>3, <3>6, <4>1, <4>3 DEF CeremoniesApart
      <4> QED BY Zenon, <1>2, <4>1, <4>4, <4>5, <4>6, <4>7 DEF CeremoniesApart
    <3> QED BY Zenon, <1>6, <2>2, <3>7, <3>8, ConfirmedRowsStay DEF AInv
  <2> QED BY Zenon, <1>8, <2>3, <2>4 DEF FinishConsume
<1> QED BY Zenon, <1>7, <1>8 DEF FinishConsume

\* A handler that accepts the answer of the ceremony it holds.
LEMMA StepAccept ==
  ASSUME AInv, NEW t \in Tabs, RowsLast, AccountsTypes', NoneConfirmed,
         UNCHANGED <<ceremonies, sessions>>,
         calls[t].stage = "consumed", accepted' = Append(accepted, calls[t].cer),
         NEW n, calls' = [calls EXCEPT ![t] = n],
         CallOK(n, ceremonies', credentials', sessions'), n.stage # "consumed"
  PROVE  AInv'
<1> DEFINE c == calls[t]
<1>1. /\ CallOK(c, ceremonies, credentials, sessions) /\ c.cer \in Nat
      /\ c.cer \in DOMAIN ceremonies /\ ceremonies[c.cer].taken
  BY Zenon, CallOf DEF CallOK
<1>2. calls' \in [Tabs -> Call] /\ \A u \in Tabs : calls'[u] = IF u = t THEN n ELSE calls[u]
  BY Zenon DEF AInv, CallsOK, CallOK
<1>3. CallsOK'
  BY Zenon, <1>2, CallStays DEF CallsOK, NoneConfirmed
<1>4. CeremoniesApart'
  <2>1. CeremoniesApart /\ accepted \in Seq(Nat)
    BY Zenon DEF AInv, CeremoniesApart
  <2>2. /\ accepted' \in Seq(Nat) /\ accepted'[Len(accepted) + 1] = c.cer
        /\ \A i \in DOMAIN accepted : accepted'[i] = accepted[i]
        /\ DOMAIN accepted' = DOMAIN accepted \cup {Len(accepted) + 1}
    BY <1>1, <2>1
  <2>3. \A i \in DOMAIN accepted : accepted[i] # c.cer
    BY Zenon, <2>1 DEF CeremoniesApart
  <2>4. \A u \in Tabs : calls'[u].stage = "consumed" => calls'[u] = calls[u] /\ u # t
    BY Zenon, <1>2
  <2>5. \A u \in Tabs : calls'[u].stage = "consumed" => calls'[u].cer # c.cer
    BY Zenon, <2>1, <2>4 DEF CeremoniesApart
  <2> HIDE DEF c
  <2>6. \A i \in DOMAIN accepted' :
          accepted'[i] \in DOMAIN ceremonies' /\ ceremonies'[accepted'[i]].taken
    BY Zenon, <1>1, <2>1, <2>2 DEF CeremoniesApart
  <2>7. CeremonyAcceptedOnce'
    BY <2>1, <2>2, <2>3 DEF CeremoniesApart, CeremonyAcceptedOnce
  <2>8. \A u \in Tabs : calls'[u].stage = "consumed" =>
          \A i \in DOMAIN accepted' : accepted'[i] # calls'[u].cer
    BY <2>1, <2>2, <2>4, <2>5 DEF CeremoniesApart
  <2>9. \A u, v \in Tabs : /\ calls'[u].stage = "consumed" /\ calls'[v].stage = "consumed"
                           /\ calls'[u].cer = calls'[v].cer
                           => u = v
    BY <2>1, <2>4 DEF CeremoniesApart
  <2> QED BY Zenon, <2>2, <2>6, <2>7, <2>8, <2>9 DEF CeremoniesApart
<1> QED BY Zenon, <1>3, <1>4, ConfirmedRowsStay DEF AInv

LEMMA StepRegister ==
  ASSUME AInv, NEW t \in Tabs, finishRegistration(t)
  PROVE  AInv'
<1> DEFINE c == calls[t]
           email == ceremonies[c.cer].email
           row == [type |-> "webauthn", user |-> Len(users) + 1, count |-> 0, revoked |-> FALSE,
                   confirmed |-> FALSE, by |-> 0, before |-> 0]
           n == [c EXCEPT !.stage = "created", !.pass = Len(credentials) + 1,
                          !.target = Len(users) + 1]
<1>1. /\ c \in Call /\ CallOK(c, ceremonies, credentials, sessions) /\ c.stage = "consumed"
      /\ c.cer \in DOMAIN ceremonies /\ UNCHANGED <<now, ceremonies, sessions, cookies>>
  BY Zenon, CallOf DEF finishRegistration, CallOK
<1>2. email \in Emails \cup {0} /\ users \in Seq(Emails \cup {0, 1}) /\ Len(users) + 1 \in Nat
      /\ Len(credentials) + 1 \in Nat
  BY <1>1, RowTypes DEF AInv, AccountsTypes, Ceremony
<1>3. CASE End(t) /\ UNCHANGED <<users, credentials, devices, accepted>>
  <2>1. AccountsTypes' /\ RowsLast /\ NoneConfirmed
    BY Zenon, <1>1, <1>3, Same DEF AInv, AccountsTypes, RowsLast
  <2> QED BY Zenon, <1>3, <2>1, OneEnd
<1>4. CASE /\ users' = Append(users, email) /\ credentials' = Append(credentials, row)
           /\ devices' = [p \in DOMAIN devices \cup {Len(credentials) + 1} |->
                            IF p \in DOMAIN devices THEN devices[p] ELSE 0]
           /\ accepted' = Append(accepted, c.cer) /\ Update(t, n)
  <2>1. row \in Credential /\ row.by = 0
    BY Zenon, <1>2 DEF Credential
  <2>2. credentials' \in Seq(Credential) /\ CredentialsLast /\ NoneConfirmed
    <3> HIDE DEF row
    <3> QED BY Zenon, <1>4, <2>1, CredentialAdded
  <2>3. users' \in Seq(Emails \cup {0, 1})
    <3> HIDE DEF email
    <3>1. email \in Emails \cup {0, 1}
      BY Zenon, <1>2
    <3> QED BY <1>2, <1>4, <3>1
  <2>4. DOMAIN devices' \subseteq DOMAIN credentials' /\ \A p \in DOMAIN devices' : devices'[p] \in Nat
    <3>1. DOMAIN credentials' = DOMAIN credentials \cup {Len(credentials) + 1}
      <4> HIDE DEF row
      <4> QED BY <1>4, <2>1 DEF AInv, AccountsTypes
    <3> QED BY Zenon, <1>2, <1>4, <3>1 DEF AInv, AccountsTypes
  <2>5. AccountsTypes' /\ RowsLast
    BY Zenon, <1>1, <2>2, <2>3, <2>4, Same DEF AInv, AccountsTypes, RowsLast
  <2>6. n \in Call /\ n.stage = "created" /\ n.ses = c.ses
    <3>1. "created" \in CallStages
      BY Zenon DEF CallStages
    <3> QED BY <1>1, <1>2, <3>1, Zenon DEF Call
  <2>7. calls' = [calls EXCEPT ![t] = n]
    BY Zenon, <1>4 DEF Update
  <2> HIDE DEF n
  <2>8. CallOK(n, ceremonies', credentials', sessions')
    BY Zenon, <1>1, <2>6 DEF CallOK
  <2> QED BY Zenon, <1>1, <1>4, <2>2, <2>5, <2>6, <2>7, <2>8, StepAccept
<1> QED BY Zenon, <1>3, <1>4 DEF finishRegistration, createWebAuthn

LEMMA StepAuthenticate ==
  ASSUME AInv, NEW t \in Tabs, finishAuthentication(t)
  PROVE  AInv'
<1> DEFINE c == calls[t]
           n == [c EXCEPT !.stage = "verified"]
<1>1. /\ c \in Call /\ CallOK(c, ceremonies, credentials, sessions) /\ c.stage = "consumed"
      /\ UNCHANGED <<now, ceremonies, users, credentials, devices, sessions, cookies>>
  BY Zenon, CallOf DEF finishAuthentication
<1>2. AccountsTypes' /\ RowsLast /\ NoneConfirmed
  BY Zenon, <1>1, Same DEF AInv, AccountsTypes, RowsLast
<1>3. CASE End(t) /\ UNCHANGED accepted
  BY Zenon, <1>2, <1>3, OneEnd
<1>4. CASE accepted' = Append(accepted, c.cer) /\ Update(t, n)
  <2>1. n \in Call /\ n.stage = "verified" /\ n.ses = c.ses /\ n.pass = c.pass /\ n.flow = c.flow
    <3>1. "verified" \in CallStages
      BY Zenon DEF CallStages
    <3> QED BY <1>1, <3>1, Zenon DEF Call
  <2>2. calls' = [calls EXCEPT ![t] = n]
    BY Zenon, <1>4 DEF Update
  <2> HIDE DEF n
  <2>3. CallOK(n, ceremonies', credentials', sessions')
    BY Zenon, <1>1, <2>1 DEF CallOK
  <2> QED BY Zenon, <1>1, <1>2, <1>4, <2>1, <2>2, <2>3, StepAccept
<1> QED BY Zenon, <1>3, <1>4 DEF finishAuthentication

\* The cookie of a new session.
LEMMA StepIssue ==
  ASSUME AInv, NEW t \in Tabs, issueRegistered(t) \/ finishLogin(t)
  PROVE  AInv'
<1> DEFINE c == calls[t]
           new == Len(sessions) + 1
           Minted(user) == /\ sessions' = mint(user)
                           /\ cookies' = [cookies EXCEPT ![Browser[t]] = new]
<1>1. /\ End(t) /\ UNCHANGED <<now, ceremonies, users, devices, accepted>>
      /\ c.pass \in Nat /\ c.count \in Nat /\ c.target \in Nat
  BY Zenon, CallOf DEF issueRegistered, finishLogin
<1>2. /\ credentials' = credentials \/ credentials' = recordUse(c.pass, c.count)
      /\ UNCHANGED <<sessions, cookies>> \/ (\E user \in Nat : Minted(user))
  <2>1. CASE issueRegistered(t)
    BY Zenon, <1>1, <2>1 DEF issueRegistered
  <2>2. CASE finishLogin(t) /\ findWebAuthnByCredentialId(c.pass)
    <3>1. /\ credentials' = recordUse(c.pass, c.count)
          /\ Minted(credentials[c.pass].user)
      BY Zenon, <2>2 DEF finishLogin
    <3>2. credentials[c.pass].user \in Nat
      <4>1. c.pass \in DOMAIN credentials
        BY Zenon, <2>2, CallOf DEF finishLogin, CallOK
      <4> QED BY Zenon, <4>1, RowTypes DEF AInv
    <3> QED BY Zenon, <3>1, <3>2
  <2>3. CASE finishLogin(t) /\ ~findWebAuthnByCredentialId(c.pass)
    BY Zenon, <2>3 DEF finishLogin
  <2> QED BY Zenon, <2>1, <2>2, <2>3
<1>3. /\ credentials' \in Seq(Credential) /\ CredentialsLast /\ NoneConfirmed
  BY Zenon, <1>1, <1>2, RecordUseKeeps, Same DEF AInv, AccountsTypes
<1>4. /\ sessions' \in Seq(Session) /\ SessionsLast
      /\ cookies' \in [Browsers -> Nat] /\ \A b \in Browsers : cookies'[b] <= Len(sessions')
  <2>1. /\ cookies \in [Browsers -> Nat] /\ \A b \in Browsers : cookies[b] <= Len(sessions)
        /\ Len(sessions) \in Nat /\ sessions \in Seq(Session)
    BY Zenon, RowTypes DEF AInv, AccountsTypes
  <2>2. CASE UNCHANGED <<sessions, cookies>>
    BY Zenon, <2>1, <2>2, Same
  <2>3. ASSUME NEW user \in Nat, Minted(user)
        PROVE  /\ sessions' \in Seq(Session) /\ SessionsLast
               /\ cookies' \in [Browsers -> Nat] /\ \A b \in Browsers : cookies'[b] <= Len(sessions')
    <3>1. sessions' \in Seq(Session) /\ SessionsLast /\ Len(sessions') = Len(sessions) + 1
      BY Zenon, <2>3, MintKeeps
    <3>2. cookies' = [cookies EXCEPT ![Browser[t]] = Len(sessions) + 1]
      BY Zenon, <2>3
    <3>3. cookies' \in [Browsers -> Nat]
      <4>1. Len(sessions) + 1 \in Nat
        BY <2>1
      <4> QED BY <2>1, <3>2, <4>1, Zenon
    <3>4. ASSUME NEW b \in Browsers PROVE cookies'[b] <= Len(sessions')
      <4>1. cookies'[b] = cookies[b] \/ cookies'[b] = Len(sessions) + 1
        BY Zenon, <2>1, <3>2
      <4>2. cookies[b] \in Nat /\ cookies[b] <= Len(sessions)
        BY Zenon, <2>1
      <4> QED BY <2>1, <3>1, <4>1, <4>2
    <3> QED BY Zenon, <3>1, <3>3, <3>4
  <2> QED BY Zenon, <1>2, <2>2, <2>3
<1>5. AccountsTypes' /\ RowsLast
  BY Zenon, <1>1, <1>3, <1>4, Same DEF AInv, AccountsTypes, RowsLast, CredentialsLast
<1> QED BY Zenon, <1>1, <1>3, <1>5, OneEnd

LEMMA StepStamp ==
  ASSUME AInv, NEW t \in Tabs, finishStepUp(t)
  PROVE  AInv'
<1> DEFINE c == calls[t]
           n == [c EXCEPT !.stage = "ask", !.tries = 1, !.cer = 0, !.pass = 0, !.count = 0]
<1>1. /\ c \in Call /\ CallOK(c, ceremonies, credentials, sessions)
      /\ c.ses \in Nat /\ c.pass \in Nat /\ c.count \in Nat
      /\ UNCHANGED <<now, ceremonies, users, devices, cookies, accepted>>
      /\ calls' = [calls EXCEPT ![t] = n]
  BY Zenon, CallOf DEF finishStepUp, Update
<1>2. credentials' \in Seq(Credential) /\ CredentialsLast /\ NoneConfirmed
  <2>1. credentials' = credentials \/ credentials' = recordUse(c.pass, c.count)
    BY Zenon DEF finishStepUp
  <2> QED BY Zenon, <1>1, <2>1, RecordUseKeeps, Same DEF AInv, AccountsTypes
<1>3. sessions' \in Seq(Session) /\ SessionsLast /\ Len(sessions') = Len(sessions)
  <2>1. sessions' = [sessions EXCEPT ![c.ses].stepUp = now] /\ sessions \in Seq(Session)
        /\ now \in Nat
    BY Zenon DEF finishStepUp, stampStepUp, AInv, AccountsTypes
  <2>2. CASE c.ses \in DOMAIN sessions
    <3> DEFINE row == [sessions[c.ses] EXCEPT !.stepUp = now]
    <3>1. sessions[c.ses] \in Session
      BY Zenon, <2>2, RowTypes DEF AInv
    <3>2. row \in Session /\ row.user = sessions[c.ses].user
          /\ row.revoked = sessions[c.ses].revoked
      BY Zenon, <2>1, <3>1 DEF Session
    <3>3. sessions' = [sessions EXCEPT ![c.ses] = row]
      BY Zenon, <2>1
    <3> HIDE DEF row
    <3> QED BY Zenon, <2>2, <3>2, <3>3, SessionWritten
  <2>3. CASE c.ses \notin DOMAIN sessions
    <3>1. sessions' = sessions
      BY <2>1, <2>3
    <3> QED BY Zenon, <2>1, <3>1, Same
  <2> QED BY Zenon, <2>2, <2>3
<1>4. AccountsTypes' /\ RowsLast
  BY Zenon, <1>1, <1>2, <1>3, Same DEF AInv, AccountsTypes, RowsLast, CredentialsLast
<1>5. n \in Call /\ n.stage = "ask" /\ n.ses = c.ses
  <2>1. "ask" \in CallStages /\ 1 \in {0, 1} /\ 0 \in Nat
    BY Zenon DEF CallStages
  <2> QED BY <1>1, <2>1, Zenon DEF Call
<1>6. CallOK(n, ceremonies', credentials', sessions')
  <2> HIDE DEF n
  <2> QED BY Zenon, <1>1, <1>3, <1>5 DEF CallOK
<1> QED BY Zenon, <1>1, <1>2, <1>4, <1>5, <1>6, OneCall

LEMMA StepAsk ==
  ASSUME AInv, NEW t \in Tabs, Ask(t)
  PROVE  AInv'
<1> DEFINE c == calls[t]
           s == cookies[Browser[t]]
<1>1. /\ c \in Call /\ CallOK(c, ceremonies, credentials, sessions) /\ c.ses \in Nat
      /\ s \in Nat /\ s <= Len(sessions) /\ sessions' = resolve(s)
      /\ UNCHANGED <<now, ceremonies, users, credentials, devices, cookies, accepted>>
  BY Zenon, CallOf DEF Ask, sessionGuard
<1>2. sessions' \in Seq(Session) /\ SessionsLast /\ Len(sessions') = Len(sessions)
  BY Zenon, <1>1, ResolveKeeps
<1>3. AccountsTypes' /\ RowsLast /\ NoneConfirmed
  BY Zenon, <1>1, <1>2, Same DEF AInv, AccountsTypes, RowsLast
<1>4. CASE End(t)
  BY Zenon, <1>1, <1>3, <1>4, OneEnd
<1>5. CASE Resolved(s) /\ Update(t, [c EXCEPT !.stage = "granted", !.ses = s,
                                              !.user = sessions[s].user])
  <2> DEFINE user == sessions[s].user
             n == [c EXCEPT !.stage = "granted", !.ses = s, !.user = user]
  <2>1. user \in Nat
    BY Zenon, <1>1, <1>5, LiveUser
  <2>2. n \in Call /\ n.stage = "granted" /\ n.ses = s
    <3>1. "granted" \in CallStages
      BY Zenon DEF CallStages
    <3> HIDE DEF user
    <3> QED BY <1>1, <2>1, <3>1, Zenon DEF Call
  <2>3. calls' = [calls EXCEPT ![t] = n]
    BY Zenon, <1>5 DEF Update
  <2> HIDE DEF n
  <2>4. CallOK(n, ceremonies', credentials', sessions')
    BY Zenon, <1>1, <1>2, <2>2 DEF CallOK
  <2> QED BY Zenon, <1>1, <1>3, <2>2, <2>3, <2>4, OneCall
<1>6. CASE Update(t, [c EXCEPT !.stage = "stepup"])
  <2> DEFINE n == [c EXCEPT !.stage = "stepup"]
  <2>1. n \in Call /\ n.stage = "stepup" /\ n.ses = c.ses
    <3>1. "stepup" \in CallStages
      BY Zenon DEF CallStages
    <3> QED BY <1>1, <3>1, Zenon DEF Call
  <2>2. calls' = [calls EXCEPT ![t] = n]
    BY Zenon, <1>6 DEF Update
  <2> HIDE DEF n
  <2>3. CallOK(n, ceremonies', credentials', sessions')
    BY Zenon, <1>1, <1>2, <2>1 DEF CallOK
  <2> QED BY Zenon, <1>1, <1>3, <2>1, <2>2, <2>3, OneCall
<1> QED BY Zenon, <1>4, <1>5, <1>6 DEF Ask

LEMMA StepAskAgain ==
  ASSUME AInv, NEW t \in Tabs, beginStepUp(t)
  PROVE  AInv'
<1> DEFINE c == calls[t]
           s == cookies[Browser[t]]
           k == Len(ceremonies) + 1
           n == [c EXCEPT !.stage = "begun", !.cer = k]
<1>1. /\ c \in Call /\ CallOK(c, ceremonies, credentials, sessions) /\ c.ses \in Nat
      /\ s \in Nat /\ s <= Len(sessions) /\ sessions' = resolve(s)
      /\ UNCHANGED <<now, users, credentials, devices, cookies, accepted>>
  BY Zenon, CallOf DEF beginStepUp, sessionGuard
<1>2. sessions' \in Seq(Session) /\ SessionsLast /\ Len(sessions') = Len(sessions)
  BY Zenon, <1>1, ResolveKeeps
<1>3. CASE End(t) /\ UNCHANGED ceremonies
  <2>1. AccountsTypes' /\ RowsLast /\ NoneConfirmed
    BY Zenon, <1>1, <1>2, <1>3, Same DEF AInv, AccountsTypes, RowsLast
  <2> QED BY Zenon, <1>1, <1>3, <2>1, OneEnd
<1>4. CASE Resolved(s) /\ put("stepup", sessions[s].user, 0) /\ Update(t, n)
  <2>1. /\ ceremonies' \in Seq(Ceremony) /\ CeremoniesLast
        /\ k \in DOMAIN ceremonies' /\ k \in Nat
    <3>1. sessions[s].user \in Nat
      BY Zenon, <1>1, <1>4, LiveUser
    <3> QED BY Zenon, <1>4, <3>1, PutKeeps
  <2>2. AccountsTypes' /\ RowsLast /\ NoneConfirmed
    BY Zenon, <1>1, <1>2, <2>1, Same DEF AInv, AccountsTypes, RowsLast
  <2>3. calls' = [calls EXCEPT ![t] = n]
    BY Zenon, <1>4 DEF Update
  <2> HIDE DEF k
  <2>4. n \in Call /\ n.stage = "begun" /\ n.cer = k /\ n.ses = c.ses
    <3>1. "begun" \in CallStages
      BY Zenon DEF CallStages
    <3> QED BY <1>1, <2>1, <3>1, Zenon DEF Call
  <2> HIDE DEF n
  <2>5. CallOK(n, ceremonies', credentials', sessions')
    BY Zenon, <1>1, <1>2, <2>1, <2>4 DEF CallOK
  <2> QED BY Zenon, <1>1, <2>2, <2>3, <2>4, <2>5, OneCall
<1> QED BY Zenon, <1>3, <1>4 DEF beginStepUp

\* Operations that were granted and end with their handler.
LEMMA StepGranted ==
  ASSUME AInv, NEW t \in Tabs,
         \/ revokeSession(t) \/ revokeCredential(t) \/ \E e \in Emails : updateUser(t, e)
         \/ enrollTotp(t) \/ disable(t)
  PROVE  AInv'
<1> DEFINE c == calls[t]
<1>1. /\ c \in Call /\ CallOK(c, ceremonies, credentials, sessions) /\ c.user \in Nat
      /\ c.target \in Nat /\ c.ses \in Nat /\ Browser[t] \in Browsers
  BY Zenon, CallOf
<1>2. End(t) /\ UNCHANGED <<now, ceremonies, devices, accepted>>
  BY Zenon DEF revokeSession, revokeCredential, updateUser, enrollTotp, disable
<1>3. users' \in Seq(Emails \cup {0, 1})
  <2>1. users \in Seq(Emails \cup {0, 1})
    BY Zenon DEF AInv, AccountsTypes
  <2>2. users' = users \/ \E e \in Emails : users' = [users EXCEPT ![c.user] = e]
    BY Zenon DEF revokeSession, revokeCredential, updateUser, enrollTotp, disable
  <2> QED BY <2>1, <2>2
<1>4. credentials' \in Seq(Credential) /\ CredentialsLast /\ NoneConfirmed
  <2>1. \/ credentials' = credentials
        \/ \E r \in DOMAIN credentials : credentials' = revokeRow(r)
        \/ credentials' = createTotp(c.user)
    BY Zenon DEF revokeSession, revokeCredential, updateUser, enrollTotp, disable, findConfirmedTotp
  <2>2. CASE credentials' = credentials
    BY Zenon, <2>2, Same DEF AInv, AccountsTypes
  <2>3. CASE \E r \in DOMAIN credentials : credentials' = revokeRow(r)
    BY Zenon, <2>3, RevokeRowKeeps
  <2>4. CASE credentials' = createTotp(c.user)
    <3> DEFINE row == [type |-> "totp", user |-> c.user, count |-> 0, revoked |-> FALSE,
                       confirmed |-> FALSE, by |-> 0, before |-> 0]
    <3>1. row \in Credential /\ row.by = 0
      BY Zenon, <1>1 DEF Credential
    <3>2. credentials' = Append(credentials, row)
      BY Zenon, <2>4 DEF createTotp
    <3> HIDE DEF row
    <3> QED BY Zenon, <3>1, <3>2, CredentialAdded
  <2> QED BY Zenon, <2>1, <2>2, <2>3, <2>4
<1>5. sessions' \in Seq(Session) /\ SessionsLast /\ Len(sessions') = Len(sessions)
  <2>1. sessions' = sessions \/ \E s \in DOMAIN sessions : sessions' = revoke(s, c.user)
    BY Zenon DEF revokeSession, revokeCredential, updateUser, enrollTotp, disable
  <2>2. CASE sessions' = sessions
    BY Zenon, <2>2, Same DEF AInv, AccountsTypes
  <2>3. ASSUME NEW s \in DOMAIN sessions, sessions' = revoke(s, c.user)
        PROVE  sessions' \in Seq(Session) /\ SessionsLast /\ Len(sessions') = Len(sessions)
    <3> DEFINE end == sessions[s].revoked \/ sessions[s].user = c.user
               row == [sessions[s] EXCEPT !.revoked = end]
    <3>1. sessions[s] \in Session /\ sessions \in Seq(Session)
      BY Zenon, RowTypes DEF AInv, AccountsTypes
    <3>2. end \in BOOLEAN
      BY Zenon, <3>1 DEF Session
    <3>3. row \in Session /\ row.user = sessions[s].user /\ row.revoked = end
      <4> HIDE DEF end
      <4> QED BY <3>1, <3>2, Zenon DEF Session
    <3>4. sessions' = [sessions EXCEPT ![s] = row]
      BY Zenon, <2>3, <3>1 DEF revoke
    <3>5. sessions[s].revoked => row.revoked
      BY Zenon, <3>3
    <3> HIDE DEF row
    <3> QED BY Zenon, <3>3, <3>4, <3>5, SessionWritten
  <2> QED BY Zenon, <2>1, <2>2, <2>3
<1>6. cookies' \in [Browsers -> Nat] /\ \A b \in Browsers : cookies'[b] <= Len(sessions')
  <2>1. cookies' = cookies \/ cookies' = [cookies EXCEPT ![Browser[t]] = 0]
    BY Zenon DEF revokeSession, revokeCredential, updateUser, enrollTotp, disable, ClearCookie
  <2>2. /\ cookies \in [Browsers -> Nat] /\ \A b \in Browsers : cookies[b] <= Len(sessions)
        /\ Len(sessions) \in Nat
    BY Zenon, RowTypes DEF AInv, AccountsTypes
  <2> QED BY <1>5, <2>1, <2>2
<1>7. AccountsTypes' /\ RowsLast
  BY Zenon, <1>2, <1>3, <1>4, <1>5, <1>6, Same DEF AInv, AccountsTypes, RowsLast, CredentialsLast
<1> QED BY Zenon, <1>2, <1>4, <1>7, OneEnd

\* An app is confirmed once, and by a call of its user.
LEMMA StepConfirm ==
  ASSUME AInv, NEW t \in Tabs, confirm(t)
  PROVE  AInv'
<1> DEFINE c == calls[t]
           n == [c EXCEPT !.stage = "confirmed"]
<1>1. /\ c \in Call /\ CallOK(c, ceremonies, credentials, sessions)
      /\ UNCHANGED <<now, ceremonies, users, devices, sessions, cookies, accepted>>
  BY Zenon, CallOf DEF confirm
<1>2. CASE End(t) /\ UNCHANGED credentials
  <2>1. AccountsTypes' /\ RowsLast /\ NoneConfirmed
    BY Zenon, <1>1, <1>2, Same DEF AInv, AccountsTypes, RowsLast
  <2> QED BY Zenon, <1>1, <1>2, <2>1, OneEnd
<1>3. CASE /\ findUnconfirmedTotp(c.target, c.user) /\ credentials' = confirmTotp(c.target)
           /\ Update(t, n)
  <2> DEFINE row == [credentials[c.target] EXCEPT !.confirmed = TRUE, !.before = Len(sessions)]
  <2>1. /\ c.target \in DOMAIN credentials /\ credentials[c.target].user = c.user
        /\ ~credentials[c.target].confirmed
    BY Zenon, <1>3 DEF findUnconfirmedTotp
  <2>2. /\ credentials[c.target] \in Credential /\ credentials \in Seq(Credential)
        /\ Len(sessions) \in Nat
    BY Zenon, <2>1, RowTypes DEF AInv, AccountsTypes
  <2>3. /\ row \in Credential /\ row.user = credentials[c.target].user /\ row.confirmed = TRUE
        /\ row.before = Len(sessions) /\ row.by = credentials[c.target].by
    BY <2>2, Zenon DEF Credential
  <2>4. row.by = 0
    BY Zenon, <2>1, <2>3 DEF AInv, ConfirmedRows
  <2>5. credentials' = [credentials EXCEPT ![c.target] = row]
    BY Zenon, <1>3, <2>1, <2>2 DEF confirmTotp
  <2> HIDE DEF row
  <2>6. credentials' \in Seq(Credential) /\ CredentialsLast /\ NoneConfirmed
    BY Zenon, <2>1, <2>3, <2>4, <2>5, CredentialWritten
  <2>7. AccountsTypes' /\ RowsLast
    BY Zenon, <1>1, <2>6, Same DEF AInv, AccountsTypes, RowsLast, CredentialsLast
  <2>8. /\ n \in Call /\ n.stage = "confirmed" /\ n.ses = c.ses /\ n.target = c.target
        /\ n.user = c.user
    <3>1. "confirmed" \in CallStages
      BY Zenon DEF CallStages
    <3> QED BY <1>1, <3>1, Zenon DEF Call
  <2>9. calls' = [calls EXCEPT ![t] = n]
    BY Zenon, <1>3 DEF Update
  <2> HIDE DEF n
  <2>10. CallOK(n, ceremonies', credentials', sessions')
    <3>1. credentials'[c.target] = row /\ c.target \in DOMAIN credentials'
      BY Zenon, <2>1, <2>2, <2>5
    <3> QED BY <1>1, <2>1, <2>2, <2>3, <2>8, <3>1 DEF CallOK
  <2> QED BY Zenon, <1>1, <2>6, <2>7, <2>8, <2>9, <2>10, OneCall
<1> QED BY Zenon, <1>2, <1>3 DEF confirm

\* The other sessions of the user end.
LEMMA StepOthers ==
  ASSUME AInv, NEW t \in Tabs, revokeAllOthers(t)
  PROVE  AInv'
<1> DEFINE c == calls[t]
           row == [credentials[c.target] EXCEPT !.by = c.ses]
           Ended(s) == sessions[s].revoked \/ (sessions[s].user = c.user /\ s # c.ses)
<1>1. /\ c \in Call /\ CallOK(c, ceremonies, credentials, sessions) /\ c.stage = "confirmed"
      /\ c.ses \in Nat
      /\ UNCHANGED <<now, ceremonies, users, devices, cookies, accepted>>
      /\ calls' = [calls EXCEPT ![t] = NoCall]
  BY Zenon, CallOf DEF revokeAllOthers, End, Update
<1>2. /\ c.target \in DOMAIN credentials /\ credentials[c.target].user = c.user
      /\ credentials[c.target].confirmed /\ credentials[c.target].before <= Len(sessions)
  BY Zenon, <1>1 DEF CallOK
<1>3. /\ credentials[c.target] \in Credential /\ credentials \in Seq(Credential)
      /\ Len(sessions) \in Nat /\ sessions \in Seq(Session) /\ DOMAIN sessions = 1..Len(sessions)
      /\ credentials[c.target].before \in Nat
  BY Zenon, <1>2, RowTypes DEF AInv, AccountsTypes
<1>4. /\ row \in Credential /\ row.user = c.user /\ row.confirmed /\ row.by = c.ses
      /\ row.before = credentials[c.target].before
  BY <1>1, <1>2, <1>3, Zenon DEF Credential
<1>5. credentials' = [credentials EXCEPT ![c.target] = row]
  BY Zenon, <1>2, <1>3 DEF revokeAllOthers
<1> HIDE DEF row
<1>6. /\ credentials' \in Seq(Credential) /\ DOMAIN credentials' = DOMAIN credentials
      /\ \A d \in DOMAIN credentials :
           credentials'[d] = IF d = c.target THEN row ELSE credentials[d]
  <2> DEFINE target == c.target
  <2>1. /\ credentials \in Seq(Credential) /\ row \in Credential /\ target \in DOMAIN credentials
        /\ credentials' = [credentials EXCEPT ![target] = row]
    BY Zenon, <1>2, <1>3, <1>4, <1>5
  <2> HIDE DEF target
  <2>2. /\ credentials' \in Seq(Credential) /\ DOMAIN credentials' = DOMAIN credentials
        /\ \A d \in DOMAIN credentials :
             credentials'[d] = IF d = target THEN row ELSE credentials[d]
    BY <2>1
  <2> QED BY Zenon, <2>2 DEF target
<1>7. CredentialsLast /\ BeforeStays
  BY Zenon, <1>2, <1>4, <1>6 DEF CredentialsLast, BeforeStays
<1>8. /\ sessions' = [s \in DOMAIN sessions |-> [sessions[s] EXCEPT !.revoked = Ended(s)]]
      /\ \A s \in DOMAIN sessions : sessions[s] \in Session
  <2>1. \A s \in DOMAIN sessions : sessions[s] \in Session
    BY Zenon, RowTypes DEF AInv
  <2>2. sessions' = revokeAllForUser(c.user, c.ses)
    BY Zenon DEF revokeAllOthers
  <2> QED BY Zenon, <2>1, <2>2 DEF revokeAllForUser
<1>9. \A s \in DOMAIN sessions :
        /\ sessions'[s] \in Session /\ sessions'[s].user = sessions[s].user
        /\ sessions'[s].revoked = Ended(s)
  <2> SUFFICES ASSUME NEW s \in DOMAIN sessions
               PROVE  /\ sessions'[s] \in Session /\ sessions'[s].user = sessions[s].user
                      /\ sessions'[s].revoked = Ended(s)
    BY Zenon
  <2>1. Ended(s) \in BOOLEAN
    BY Zenon, <1>8 DEF Session
  <2>2. sessions'[s] = [sessions[s] EXCEPT !.revoked = Ended(s)] /\ sessions[s] \in Session
    BY Zenon, <1>8
  <2> HIDE DEF Ended
  <2> QED BY <2>1, <2>2, Zenon DEF Session
<1>10. sessions' \in Seq(Session) /\ Len(sessions') = Len(sessions) /\ DOMAIN sessions' = DOMAIN sessions
  <2>1. DOMAIN sessions' = 1..Len(sessions)
    BY Zenon, <1>3, <1>8
  <2>2. sessions' = [s \in 1..Len(sessions) |-> sessions'[s]]
    BY Zenon, <1>3, <1>8
  <2>3. sessions' \in [1..Len(sessions) -> Session]
    BY Zenon, <1>3, <1>9, <2>2
  <2> QED BY <1>3, <2>1, <2>3
<1>11. SessionsLast
  <2>1. \A s \in DOMAIN sessions : sessions[s].revoked => sessions'[s].revoked
    BY Zenon, <1>9
  <2>2. Len(sessions) <= Len(sessions')
    BY <1>3, <1>10
  <2> QED BY Zenon, <1>9, <2>1, <2>2 DEF SessionsLast
<1>12. AccountsTypes' /\ RowsLast
  BY Zenon, <1>1, <1>6, <1>7, <1>10, <1>11, Same DEF AInv, AccountsTypes, RowsLast
<1>13. ConfirmedRows'
  <2> SUFFICES ASSUME NEW d \in DOMAIN credentials', credentials'[d].by # 0
               PROVE  /\ credentials'[d].confirmed /\ credentials'[d].before <= Len(sessions')
                      /\ \A s \in 1..credentials'[d].before :
                           sessions'[s].user = credentials'[d].user /\ s # credentials'[d].by
                             => sessions'[s].revoked
    BY Zenon DEF ConfirmedRows
  <2>1. CASE d = c.target
    <3>1. credentials'[d] = row /\ row.before \in Nat /\ row.before <= Len(sessions)
      BY Zenon, <1>2, <1>3, <1>4, <1>6, <2>1
    <3>2. \A s \in 1..row.before : s \in DOMAIN sessions
      BY <1>3, <3>1
    <3>3. \A s \in 1..row.before : sessions'[s].user = c.user /\ s # c.ses => sessions'[s].revoked
      BY Zenon, <1>9, <3>2
    <3> QED BY Zenon, <1>4, <1>10, <3>1, <3>3
  <2>2. CASE d # c.target
    <3>1. credentials'[d] = credentials[d] /\ d \in DOMAIN credentials
      BY Zenon, <1>6, <2>2
    <3>2. /\ credentials[d].confirmed /\ credentials[d].before <= Len(sessions)
          /\ \A s \in 1..credentials[d].before :
               sessions[s].user = credentials[d].user /\ s # credentials[d].by
                 => sessions[s].revoked
      BY Zenon, <3>1 DEF AInv, ConfirmedRows
    <3>3. credentials[d].before \in Nat
      BY Zenon, <3>1, RowTypes DEF AInv
    <3>4. \A s \in 1..credentials[d].before : s \in DOMAIN sessions
      BY <1>3, <3>2, <3>3
    <3> QED BY Zenon, <1>9, <1>10, <3>1, <3>2, <3>4
  <2> QED BY Zenon, <2>1, <2>2
<1>14. CallOK(NoCall, ceremonies', credentials', sessions') /\ NoCall.stage # "consumed"
  BY <1>3, <1>10, NoCallIsCall DEF CallOK
<1> QED BY Zenon, <1>1, <1>7, <1>12, <1>13, <1>14, OneCallButRows

LEMMA AccountsStart == AccountsInit => AInv
<1> SUFFICES ASSUME AccountsInit PROVE AInv
  BY Zenon
<1> DEFINE key == [type |-> "webauthn", user |-> 1, count |-> 0, revoked |-> FALSE,
                   confirmed |-> FALSE, by |-> 0, before |-> 0]
           ses == [user |-> 1, seen |-> 0, expires |-> AbsoluteTtl, stepUp |-> 0,
                   revoked |-> FALSE]
<1>1. /\ key \in Credential /\ ses \in Session /\ key.by = 0
  BY Zenon, AccountsAssumption DEF Credential, Session
<1>2. credentials = <<key>> /\ sessions = <<ses>> /\ devices = <<0>> /\ ceremonies = <<>>
      /\ users = <<1>> /\ now = 0 /\ accepted = <<>> /\ calls = [t \in Tabs |-> NoCall]
      /\ cookies = [b \in Browsers |-> IF b = 1 THEN 1 ELSE 0]
  BY Zenon DEF AccountsInit, Browsers
<1> HIDE DEF key, ses
<1>3. credentials \in Seq(Credential) /\ sessions \in Seq(Session) /\ Len(sessions) = 1
      /\ DOMAIN credentials = {1} /\ credentials[1] = key /\ DOMAIN devices = {1} /\ devices[1] = 0
  BY <1>1, <1>2
<1>4. AccountsTypes
  BY <1>2, <1>3 DEF AccountsTypes
<1>5. CallsOK
  BY <1>2, <1>3, NoCallIsCall DEF CallsOK, CallOK
<1>6. CeremoniesApart
  BY <1>2, NoCallIsCall DEF CeremoniesApart, CeremonyAcceptedOnce
<1>7. ConfirmedRows
  BY Zenon, <1>1, <1>3 DEF ConfirmedRows
<1> QED BY Zenon, <1>4, <1>5, <1>6, <1>7 DEF AInv

LEMMA AccountsStep == AInv /\ [AccountsNext]_accountVars => AInv'
<1> SUFFICES ASSUME AInv, [AccountsNext]_accountVars PROVE AInv'
  BY Zenon
<1>1. CASE \/ UNCHANGED accountVars
           \/ Tick
  <2>1. UNCHANGED <<ceremonies, users, credentials, devices, sessions, cookies, calls, accepted>>
        /\ now' \in Nat
    BY <1>1 DEF accountVars, Tick, AInv, AccountsTypes
  <2>2. AccountsTypes' /\ CallsOK' /\ ConfirmedRows'
    BY Zenon, <2>1 DEF AInv, AccountsTypes, CallsOK, ConfirmedRows
  <2>3. CeremoniesApart'
    BY Zenon, <2>1 DEF AInv, CeremoniesApart, CeremonyAcceptedOnce
  <2> QED BY Zenon, <2>2, <2>3 DEF AInv
<1>2. ASSUME NEW t \in Tabs,
             \/ \E e \in Emails : beginRegistration(t, e)
             \/ beginLogin(t)
             \/ \E op \in menu.may \cap Operations : \E target \in Targets(op) :
                  StartAction(t, op, target)
             \/ \E p \in 1 .. Len(credentials) + 1 : Sign(t, p)
             \/ Dismiss(t)
             \/ \E u \in Tabs : Resend(t, u)
             \/ FinishConsume(t)
             \/ finishRegistration(t)
             \/ issueRegistered(t)
             \/ finishAuthentication(t)
             \/ finishLogin(t)
             \/ finishStepUp(t)
             \/ Ask(t)
             \/ beginStepUp(t)
             \/ revokeSession(t)
             \/ revokeCredential(t)
             \/ \E e \in Emails : updateUser(t, e)
             \/ enrollTotp(t)
             \/ confirm(t)
             \/ revokeAllOthers(t)
             \/ disable(t)
             \/ Elsewhere(t)
             \/ Lose(t)
      PROVE  AInv'
  <2>1. CASE (\E e \in Emails : beginRegistration(t, e)) \/ beginLogin(t)
    BY Zenon, <2>1, StepBegin
  <2>2. CASE \/ \E op \in menu.may \cap Operations : \E target \in Targets(op) :
                  StartAction(t, op, target)
             \/ \E p \in 1 .. Len(credentials) + 1 : Sign(t, p)
             \/ Dismiss(t)
             \/ \E u \in Tabs : Resend(t, u)
             \/ Elsewhere(t)
             \/ Lose(t)
    BY Zenon, <2>2, StepAside
  <2>3. CASE \/ revokeSession(t) \/ revokeCredential(t) \/ \E e \in Emails : updateUser(t, e)
             \/ enrollTotp(t) \/ disable(t)
    BY Zenon, <2>3, StepGranted
  <2> QED BY Zenon, <1>2, <2>1, <2>2, <2>3, StepConsume, StepRegister, StepIssue, StepAuthenticate,
             StepStamp, StepAsk, StepAskAgain, StepConfirm, StepOthers
<1> QED BY Zenon, <1>1, <1>2 DEF AccountsNext

(* However many tabs of however many browsers run ceremonies, send their     *)
(* answers twice, lose their handlers or sign out, a ceremony is accepted at *)
(* most once, and once an app is confirmed and the handler has ended the     *)
(* other sessions, none of the sessions the user had when it was confirmed   *)
(* comes back: for every number of tabs, calls and ticks, and all lifetimes  *)
(* (packages/auth/src/challenge/store.ts, consume; totp.service.ts, confirm).*)
THEOREM SignInIsSoundAlways == AccountsSpec => []SignInIsSound
<1>1. AInv => SignInIsSound
  BY Zenon DEF AInv, CeremoniesApart, ConfirmedRows, SignInIsSound, ConfirmationEndsOthers
<1> QED BY <1>1, AccountsStart, AccountsStep, PTL DEF AccountsSpec

-----------------------------------------------------------------------------
(* The account screen.                                                       *)

LEMMA LowestNat ==
  ASSUME NEW S \in SUBSET Nat, S # {}
  PROVE  \E n \in S : \A m \in S : n <= m
<1> DEFINE R == {p \in Nat \X Nat : p[1] < p[2]}
<1>1. \E n \in S : \A m \in S : ~(<<m, n>> \in R)
  <2>1. IsWellFoundedOn(R, Nat)
    BY Zenon, NatLessThanWellFounded DEF OpToRel
  <2> HIDE DEF R
  <2> QED BY Zenon, <2>1, WFMin
<1>2. PICK n \in S : \A m \in S : ~(<<m, n>> \in R)
  BY Zenon, <1>1
<1>3. ASSUME NEW m \in S PROVE n <= m
  <2>1. ~(<<m, n>> \in R) /\ m \in Nat /\ n \in Nat
    BY Zenon, <1>2
  <2> QED BY <2>1
<1> QED BY Zenon, <1>3

LEMMA HighestNat ==
  ASSUME NEW S \in SUBSET Nat, S # {}, NEW n \in Nat, \A x \in S : x <= n
  PROVE  Max(S) \in S /\ \A x \in S : x <= Max(S)
<1> DEFINE T == {n - x : x \in S}
<1>0. \A x \in S : x \in Nat /\ n - x \in Nat
  OBVIOUS
<1>1. T \in SUBSET Nat /\ T # {}
  <2>1. \A t \in T : t \in Nat
    BY Zenon, <1>0
  <2> QED BY Zenon, <2>1
<1>2. PICK k \in T : \A m \in T : k <= m
  BY Zenon, <1>1, LowestNat
<1>3. PICK x \in S : k = n - x
  BY Zenon, <1>2
<1>4. ASSUME NEW y \in S PROVE x >= y
  <2>1. n - x <= n - y
    BY Zenon, <1>2, <1>3
  <2> QED BY <2>1, <1>0
<1>5. \E z \in S : \A y \in S : z >= y
  BY Zenon, <1>4
<1> QED BY Zenon, <1>5 DEF Max

ScreenSpec == ScreenInit /\ [][ScreenNext]_screenVars

RequestKinds == {"refresh", "more", "balances", "poll"}
RowMessages == {"order", "fill"}
Messages == [type : RowMessages \cup {"balances.changed"}, id : Nat, at : Nat]
RowLists == UNION {[D -> Nat] : D \in SUBSET Nat}
Pages == [rows : RowLists, cursor : Nat]
IsRequest(r) ==
  /\ DOMAIN r = {"n", "kind", "cluster", "before", "got", "overtaken"}
  /\ r.kind \in RequestKinds /\ r.cluster \in Clusters /\ r.before \in Nat
  /\ r.overtaken \in BOOLEAN
  /\ DOMAIN r.got \subseteq partsOf(r.kind)
  /\ "rows" \in DOMAIN r.got => r.got["rows"] \in Pages
  /\ "money" \in DOMAIN r.got => r.got["money"] \in Int
  /\ r.kind # "more" => r.before = NoCursor
  /\ (r.kind = "poll") = ~account
Records == [orders : Seq(Nat), fills : Seq({1}), money : Nat]

ScreenTypes ==
  /\ hook \in Lists \cup Polled /\ network \in Clusters
  /\ record \in [Clusters -> Records]
  /\ socket \in [open : BOOLEAN, queue : Seq(Messages)]
  /\ account \/ socket.queue = << >>
  /\ screen \in [list : Pages, money : Int, loading : BOOLEAN, error : BOOLEAN]
  /\ \A r \in flight : IsRequest(r)
  /\ doubt \in BOOLEAN

rowsNow == record[network][hook]

\* A reply that no change has overtaken holds what the record says now.
RepliesAreCurrent ==
  \A r \in flight : ~r.overtaken => \A p \in DOMAIN r.got : r.got[p] = answerOf(r, p)

\* A row of which a message is on its way.
RowPending(i) ==
  \E k \in DOMAIN socket.queue : socket.queue[k].type \in RowMessages /\ socket.queue[k].id = i

\* A message carries the row as the record has it, or a later one does.
MessagesConverge ==
  \A k \in DOMAIN socket.queue :
    LET m == socket.queue[k]
    IN  m.type \in RowMessages =>
          /\ m.id \in DOMAIN rowsNow /\ (m.type = "fill" => hook # "orders")
          /\ \/ m.at = rowsNow[m.id]
             \/ /\ hook = "orders"
                /\ \E j \in DOMAIN socket.queue :
                     j > k /\ socket.queue[j].type \in RowMessages /\ socket.queue[j].id = m.id

Reloading == \E r \in flight : r.kind = "refresh" /\ r.cluster = network

\* The balance is the ledger's, or is about to be asked for or received.
MoneyFollows ==
  \/ screen.money = record[network].money
  \/ \E k \in DOMAIN socket.queue : socket.queue[k].type = "balances.changed"
  \/ \E r \in flight : /\ r.cluster = network /\ "money" \in partsOf(r.kind)
                       /\ "money" \in DOMAIN r.got => r.got["money"] = record[network].money

\* The list agrees with the record but for the rows a message is on its way
\* for.
ListFollows ==
  /\ \A i \in DOMAIN screen.list.rows :
       /\ i \in DOMAIN rowsNow
       /\ screen.list.rows[i] = rowsNow[i] \/ (hook = "orders" /\ RowPending(i))
  /\ \A i \in DOMAIN rowsNow :
       i >= screen.list.cursor => i \in DOMAIN screen.list.rows \/ RowPending(i)

\* A page of history continues the list.
PagesContinue ==
  \A r \in flight : r.kind = "more" /\ ~r.overtaken /\ r.cluster = network =>
                      r.before = screen.list.cursor \/ Reloading

ScreenInv ==
  /\ ScreenTypes
  /\ RepliesAreCurrent
  /\ account /\ socket.open => MessagesConverge
  /\ account /\ ~doubt => PagesContinue
  /\ account /\ socket.open /\ ~doubt => MoneyFollows /\ (ListFollows \/ Reloading)

-----------------------------------------------------------------------------
\* What a page of history holds: the record's rows, and all of them from its
\* cursor up to the row it was asked to start before.
LEMMA PageIsWhole ==
  ASSUME NEW rows \in Seq(Nat), NEW before \in Nat
  PROVE  /\ pageOf(rows, before) \in Pages
         /\ \A i \in DOMAIN pageOf(rows, before).rows :
              i \in DOMAIN rows /\ pageOf(rows, before).rows[i] = rows[i]
         /\ \A i \in DOMAIN rows :
              i >= pageOf(rows, before).cursor /\ (before = NoCursor \/ i < before)
                => i \in DOMAIN pageOf(rows, before).rows
  <1> DEFINE E == {i \in DOMAIN rows : before = NoCursor \/ i < before}
             Above(i) == {j \in E : j > i}
             P == {i \in E : Cardinality(Above(i)) < PageSize}
             c == IF Cardinality(P) = PageSize THEN Min(P) ELSE NoCursor
             R == [i \in P |-> rows[i]]
  <1>1. pageOf(rows, before) = [rows |-> R, cursor |-> c]
    BY Zenon DEF pageOf
  <1>2. DOMAIN rows = 1 .. Len(rows) /\ Len(rows) \in Nat /\ \A i \in DOMAIN rows : rows[i] \in Nat
    OBVIOUS
  <1>3. E \in SUBSET Nat /\ (\A i \in E : i <= Len(rows)) /\ E \subseteq DOMAIN rows
    BY <1>2, SMT
  <1>4. IsFiniteSet(E)
    BY <1>2, <1>3, FS_BoundedSetOfNaturals, Zenon
  <1>5. \A i : IsFiniteSet(Above(i)) /\ Cardinality(Above(i)) \in Nat
    <2> TAKE i
    <2>1. Above(i) \in SUBSET E
      BY Zenon
    <2> HIDE DEF E, Above
    <2> QED
      BY <1>4, <2>1, FS_Subset, FS_CardinalityType, Zenon
  <1>6. P \in SUBSET E /\ IsFiniteSet(P) /\ Cardinality(P) \in Nat
    <2>1. P \in SUBSET E
      BY Zenon
    <2> HIDE DEF E, P
    <2> QED
      BY <1>4, <2>1, FS_Subset, FS_CardinalityType, Zenon
  <1>7. PageSize \in Nat /\ PageSize > 0 /\ Cardinality({}) = 0
    <2>1. Cardinality({}) = 0
      BY FS_EmptySet, Zenon
    <2> QED
      BY <2>1, PageAssumption, SMT
  <1>8. P # {} => Min(P) \in P /\ \A x \in P : Min(P) <= x
    <2> SUFFICES ASSUME P # {} PROVE Min(P) \in P /\ \A x \in P : Min(P) <= x
      OBVIOUS
    <2>1. P \in SUBSET Nat
      BY <1>3, <1>6, Zenon
    <2> HIDE DEF P
    <2>2. PICK n \in P : \A m \in P : n <= m
      BY <2>1, LowestNat, Zenon
    <2> QED
      BY <2>2, Zenon DEF Min
  \* A page is never longer than its size.
  <1>9. Cardinality(P) <= PageSize
    <2>1. CASE P = {}
      <3> HIDE DEF P
      <3> QED
        BY <1>7, <2>1, SMT
    <2>2. CASE P # {}
      <3> DEFINE m == Min(P)
      <3>1. m \in P /\ \A x \in P : m <= x
        BY <1>8, <2>2, Zenon
      <3>2. P \ {m} \in SUBSET Above(m)
        <4> SUFFICES ASSUME NEW x \in P, x # m PROVE x \in E /\ x > m
          BY Zenon
        <4>1. x \in E /\ x \in Nat /\ m \in Nat /\ m <= x
          BY <1>3, <1>6, <3>1, Zenon
        <4> QED
          BY <4>1, SMT
      <3>3. Cardinality(Above(m)) < PageSize
        BY <3>1, Zenon
      <3> HIDE DEF E, P, Above, m
      <3>4. Cardinality(P \ {m}) <= Cardinality(Above(m))
        BY <1>5, <3>2, FS_Subset, Zenon
      <3>5. Cardinality(P \ {m}) = Cardinality(P) - 1
        BY <1>6, <3>1, FS_RemoveElement, Zenon
      <3> QED
        BY <1>5, <1>6, <1>7, <3>3, <3>4, <3>5, SMT
    <2> QED
      BY <2>1, <2>2
  \* One that is shorter is everything.
  <1>10. Cardinality(P) # PageSize => P = E
    <2> SUFFICES ASSUME Cardinality(P) # PageSize, E \ P # {} PROVE FALSE
      BY <1>6, Zenon
    <2> DEFINE out == E \ P
               i == Max(out)
    <2>1. out # {} /\ out \in SUBSET Nat /\ \A x \in out : x <= Len(rows)
      BY <1>3, Zenon
    <2>2. i \in out /\ \A x \in out : x <= i
      <3> HIDE DEF out
      <3> QED
        BY <1>2, <2>1, HighestNat, Zenon
    <2>3. Above(i) \in SUBSET P
      <3> SUFFICES ASSUME NEW j \in E, j > i, j \notin P PROVE FALSE
        BY Zenon
      <3>1. j \in out /\ j \in Nat /\ i \in Nat /\ j <= i
        BY <1>3, <2>2, Zenon
      <3> QED
        BY <3>1, SMT
    <2>4. ~(Cardinality(Above(i)) < PageSize)
      BY <2>2, Zenon
    <2> HIDE DEF E, P, Above, i, out
    <2>5. Cardinality(Above(i)) <= Cardinality(P)
      BY <1>6, <2>3, FS_Subset, Zenon
    <2> QED
      BY <1>5, <1>6, <1>7, <1>9, <2>4, <2>5, SMT
  <1>11. c \in Nat
    <2>1. CASE Cardinality(P) = PageSize
      <3>1. P # {}
        <4> HIDE DEF P
        <4>1. ASSUME P = {} PROVE FALSE
          <5>1. Cardinality(P) = 0
            BY <1>7, <4>1, Zenon
          <5> QED
            BY <1>7, <2>1, <5>1, SMT
        <4> QED
          BY <4>1
      <3>2. Min(P) \in Nat
        BY <1>3, <1>6, <1>8, <3>1, Zenon
      <3> QED
        BY <2>1, <3>2, Zenon
    <2>2. CASE Cardinality(P) # PageSize
      BY <2>2, SMT DEF NoCursor
    <2> QED
      BY <2>1, <2>2
  <1>12. R \in RowLists
    <2>1. P \in SUBSET Nat /\ \A i \in P : rows[i] \in Nat
      BY <1>2, <1>3, <1>6, Zenon
    <2> HIDE DEF P
    <2>2. R \in [P -> Nat]
      BY <2>1, Zenon
    <2> HIDE DEF R
    <2> QED
      BY <2>1, <2>2, Zenon DEF RowLists
  <1>13. ASSUME NEW i \in E, i >= c PROVE i \in P
    <2>1. CASE Cardinality(P) = PageSize
      <3> DEFINE m == Min(P)
      <3>1. P # {}
        <4> HIDE DEF P
        <4>1. ASSUME P = {} PROVE FALSE
          <5>1. Cardinality(P) = 0
            BY <1>7, <4>1, Zenon
          <5> QED
            BY <1>7, <2>1, <5>1, SMT
        <4> QED
          BY <4>1
      <3>2. m \in P /\ m \in Nat /\ i \in Nat /\ i >= m
        BY <1>3, <1>6, <1>8, <1>13, <2>1, <3>1, Zenon
      <3>3. Above(i) \in SUBSET Above(m)
        <4> SUFFICES ASSUME NEW j \in E, j > i PROVE j > m
          BY Zenon
        <4>1. j \in Nat
          BY <1>3, Zenon
        <4> HIDE DEF m
        <4> QED
          BY <3>2, <4>1, SMT
      <3>4. Cardinality(Above(m)) < PageSize
        BY <3>2, Zenon
      <3>5. Cardinality(Above(i)) <= Cardinality(Above(m))
        <4> HIDE DEF Above, m
        <4> QED
          BY <1>5, <3>3, FS_Subset, Zenon
      <3>6. Cardinality(Above(i)) < PageSize
        <4> HIDE DEF Above, m
        <4> QED
          BY <1>5, <1>7, <3>4, <3>5, SMT
      <3> QED
        BY <3>6, Zenon
    <2>2. CASE Cardinality(P) # PageSize
      BY <1>10, <2>2, Zenon
    <2> QED
      BY <2>1, <2>2
  <1>14. DOMAIN R = P /\ \A i \in P : R[i] = rows[i]
    BY Zenon
  <1>15. \A i \in DOMAIN rows : (before = NoCursor \/ i < before) => i \in E
    BY Zenon
  <1> HIDE DEF E, P, R, c
  <1>16. pageOf(rows, before) \in Pages
    BY <1>1, <1>11, <1>12, SMT DEF Pages
  <1>17. pageOf(rows, before).rows = R /\ pageOf(rows, before).cursor = c
    BY <1>1, SMT
  <1> QED
    BY <1>3, <1>6, <1>13, <1>14, <1>15, <1>16, <1>17, Zenon

-----------------------------------------------------------------------------
LEMMA ScreenInvMeans == ScreenInv => ScreenAgrees
  <1> SUFFICES ASSUME ScreenInv, account, socket.open, socket.queue = << >>, flight = {}, ~doubt
               PROVE  /\ screen.money = record[network].money
                      /\ Agrees(screen.list, record[network][hook])
    BY Zenon DEF ScreenAgrees
  <1>1. DOMAIN socket.queue = {}
    BY SMT
  <1>2. MoneyFollows /\ ListFollows
    BY Zenon DEF ScreenInv, Reloading
  <1>3. screen.money = record[network].money
    BY <1>1, <1>2, Zenon DEF MoneyFollows
  <1>4. \A i : ~RowPending(i)
    BY <1>1, Zenon DEF RowPending
  <1> QED
    BY <1>2, <1>3, <1>4, Zenon DEF ListFollows, Agrees, rowsNow

LEMMA EmptyGot == DOMAIN << >> = {}
  OBVIOUS

LEMMA InitialIsTyped ==
  INITIAL \in [list : Pages, money : Int, loading : BOOLEAN, error : BOOLEAN]
  <1>1. << >> \in [{} -> Nat]
    OBVIOUS
  <1>2. << >> \in RowLists
    BY <1>1, Zenon DEF RowLists
  <1>3. NoCursor \in Nat /\ Unknown \in Int
    BY SMT DEF NoCursor, Unknown
  <1>4. NoRows \in Pages
    BY <1>2, <1>3, Zenon DEF NoRows, Pages
  <1> QED
    BY <1>3, <1>4, Zenon DEF INITIAL

LEMMA ScreenInitInv == ScreenInit => ScreenInv
  <1> SUFFICES ASSUME ScreenInit PROVE ScreenInv
    OBVIOUS
  <1> DEFINE kind == IF account THEN "refresh" ELSE "poll"
             first == [n |-> 1, kind |-> kind, cluster |-> network, before |-> NoCursor,
                       got |-> << >>, overtaken |-> FALSE]
  <1>1. /\ hook \in Lists \cup Polled
        /\ record = [c \in Clusters |-> [orders |-> <<1>>, fills |-> << >>, money |-> 0]]
        /\ socket = [open |-> FALSE, queue |-> << >>]
        /\ screen = INITIAL /\ flight = {first} /\ doubt = FALSE
    BY Zenon DEF ScreenInit
  <1>2. network \in Clusters
    <2>1. PICK kept \in {{}, {"testnet"}} \cup {{c} : c \in Clusters}, default \in Clusters :
             network = resolved(kept, default)
      BY Zenon DEF ScreenInit
    <2>2. \E c \in Clusters : IF readStoredCluster(kept) = {} THEN c = default
                              ELSE c \in readStoredCluster(kept)
      BY Zenon DEF readStoredCluster
    <2> QED
      BY <2>1, <2>2, Zenon DEF resolved
  <1>3. /\ first.kind = kind /\ first.cluster = network /\ first.before = NoCursor
        /\ DOMAIN first.got = {} /\ first.overtaken = FALSE /\ first.n = 1 /\ first.got = << >>
    BY EmptyGot, Zenon
  <1>4. IsRequest(first)
    <2>1. kind \in RequestKinds /\ (kind = "poll") = ~account /\ NoCursor \in Nat
      BY SMT DEF RequestKinds, NoCursor
    <2>2. DOMAIN first = {"n", "kind", "cluster", "before", "got", "overtaken"}
      BY SMT
    <2> HIDE DEF first, kind
    <2> QED
      BY <1>2, <1>3, <2>1, <2>2, Zenon DEF IsRequest
  <1>5. INITIAL \in [list : Pages, money : Int, loading : BOOLEAN, error : BOOLEAN]
    BY InitialIsTyped
  <1>6. ScreenTypes
    <2>1. [orders |-> <<1>>, fills |-> << >>, money |-> 0] \in Records
      BY SMT DEF Records
    <2>2. record \in [Clusters -> Records]
      BY <1>1, <2>1, Zenon
    <2>3. << >> \in Seq(Messages)
      OBVIOUS
    <2>4. socket \in [open : BOOLEAN, queue : Seq(Messages)]
      BY <1>1, <2>3, Zenon
    <2>5. socket.queue = << >>
      BY <1>1, Zenon
    <2> HIDE DEF first
    <2> QED
      BY <1>1, <1>2, <1>4, <1>5, <2>2, <2>4, <2>5, Zenon DEF ScreenTypes
  <1>7. RepliesAreCurrent
    <2> HIDE DEF first
    <2> QED
      BY <1>1, <1>3, Zenon DEF RepliesAreCurrent
  <1>8. account => PagesContinue
    <2>1. account => first.kind # "more"
      BY <1>3, SMT
    <2> HIDE DEF first
    <2> QED
      BY <1>1, <2>1, Zenon DEF PagesContinue
  <1>9. ~socket.open
    BY <1>1, Zenon
  <1> QED
    BY <1>6, <1>7, <1>8, <1>9, Zenon DEF ScreenInv

-----------------------------------------------------------------------------
\* s is r, perhaps marked as overtaken.
Marked(s, r) ==
  /\ IsRequest(s) /\ s.kind = r.kind /\ s.cluster = r.cluster /\ s.before = r.before
  /\ s.got = r.got /\ (~s.overtaken => ~r.overtaken)

LEMMA MarkIsMarked ==
  ASSUME NEW r, IsRequest(r)
  PROVE  /\ Marked(r, r)
         /\ Marked([r EXCEPT !.overtaken = TRUE], r)
         /\ [r EXCEPT !.overtaken = TRUE].overtaken = TRUE
  <1> DEFINE s == [r EXCEPT !.overtaken = TRUE]
  <1>1. DOMAIN r = {"n", "kind", "cluster", "before", "got", "overtaken"}
    BY Zenon DEF IsRequest
  <1>2. /\ DOMAIN s = DOMAIN r /\ s.kind = r.kind /\ s.cluster = r.cluster
        /\ s.before = r.before /\ s.got = r.got /\ s.overtaken = TRUE
    BY <1>1, SMT
  <1> HIDE DEF s
  <1>4. IsRequest(s)
    BY <1>2, Zenon DEF IsRequest
  <1>5. Marked(r, r) /\ Marked(s, r) /\ s.overtaken = TRUE
    BY <1>2, <1>4, Zenon DEF Marked
  <1> QED
    BY <1>5, Zenon DEF s

LEMMA SentIsRequest ==
  ASSUME ScreenTypes, NEW kind \in RequestKinds, NEW before \in Nat,
         kind # "more" => before = NoCursor, (kind = "poll") = ~account
  PROVE  LET s == sending(kind, before)
         IN  /\ IsRequest(s) /\ s.kind = kind /\ s.before = before /\ s.cluster = network
             /\ DOMAIN s.got = {} /\ ~s.overtaken
  <1> DEFINE n == Min((1 .. MaxFlight) \ {r.n : r \in flight})
             s == [n |-> n, kind |-> kind, cluster |-> network, before |-> before,
                   got |-> << >>, overtaken |-> FALSE]
  <1>1. sending(kind, before) = s
    BY Zenon DEF sending
  <1> HIDE DEF n
  <1>2. DOMAIN s = {"n", "kind", "cluster", "before", "got", "overtaken"}
    BY SMT
  <1>3. /\ s.kind = kind /\ s.cluster = network /\ s.before = before
        /\ s.got = << >> /\ s.overtaken = FALSE
    BY Zenon
  <1> HIDE DEF s
  <1>4. network \in Clusters
    BY Zenon DEF ScreenTypes
  <1>5. IsRequest(s)
    BY <1>2, <1>3, <1>4, EmptyGot, Zenon DEF IsRequest
  <1> QED
    BY <1>1, <1>3, <1>5, EmptyGot, Zenon

LEMMA RedirectedIsRequest ==
  ASSUME NEW r, IsRequest(r), NEW c \in Clusters
  PROVE  LET s == [r EXCEPT !.cluster = c]
         IN  /\ IsRequest(s) /\ s.kind = r.kind /\ s.before = r.before /\ s.cluster = c
             /\ s.got = r.got /\ s.overtaken = r.overtaken
  <1> DEFINE s == [r EXCEPT !.cluster = c]
  <1>1. DOMAIN r = {"n", "kind", "cluster", "before", "got", "overtaken"}
    BY Zenon DEF IsRequest
  <1>2. /\ DOMAIN s = DOMAIN r /\ s.kind = r.kind /\ s.before = r.before /\ s.cluster = c
        /\ s.got = r.got /\ s.overtaken = r.overtaken
    BY <1>1, SMT
  <1> HIDE DEF s
  <1>3. IsRequest(s)
    BY <1>2, Zenon DEF IsRequest
  <1> QED
    BY <1>2, <1>3, Zenon DEF s

LEMMA TypesKept ==
  ASSUME ScreenTypes, hook' = hook, network' \in Clusters, record' \in [Clusters -> Records],
         socket' \in [open : BOOLEAN, queue : Seq(Messages)],
         account \/ socket'.queue = << >>,
         screen' \in [list : Pages, money : Int, loading : BOOLEAN, error : BOOLEAN],
         doubt' \in BOOLEAN, \A s \in flight' : IsRequest(s)
  PROVE  ScreenTypes'
  BY Zenon DEF ScreenTypes, IsRequest, account

LEMMA RepliesKept ==
  ASSUME RepliesAreCurrent, hook' = hook, record' = record,
         \A s \in flight' : DOMAIN s.got = {} \/ \E r \in flight : Marked(s, r)
  PROVE  RepliesAreCurrent'
  <1> SUFFICES ASSUME NEW s \in flight', ~s.overtaken, NEW p \in DOMAIN s.got
               PROVE  s.got[p] = answerOf(s, p)'
    BY Zenon DEF RepliesAreCurrent
  <1>1. PICK r \in flight : Marked(s, r)
    BY Zenon
  <1>2. r.got[p] = answerOf(r, p)
    BY <1>1, Zenon DEF RepliesAreCurrent, Marked
  <1> QED
    BY <1>1, <1>2, Zenon DEF Marked, answerOf

\* A request is sent and nothing else happens.
LEMMA ScreenSends ==
  ASSUME ScreenInv, NEW s, IsRequest(s), DOMAIN s.got = {}, ~s.overtaken,
         s.kind = "more" => s.before = screen.list.cursor,
         flight' = flight \cup {s},
         UNCHANGED <<hook, network, record, socket, screen, doubt>>
  PROVE  ScreenInv'
  <1>0. /\ hook' = hook /\ network' = network /\ record' = record /\ socket' = socket
        /\ screen' = screen /\ doubt' = doubt /\ flight \subseteq flight'
        /\ account' = account /\ rowsNow' = rowsNow
    BY Zenon DEF account, rowsNow
  <1>1. ScreenTypes'
    BY <1>0, TypesKept, Zenon DEF ScreenInv, ScreenTypes
  <1>2. RepliesAreCurrent'
    <2>1. \A r \in flight : Marked(r, r)
      BY MarkIsMarked, Zenon DEF ScreenInv, ScreenTypes
    <2> QED
      BY <1>0, <2>1, RepliesKept, Zenon DEF ScreenInv
  <1>3. account /\ socket.open => MessagesConverge'
    BY <1>0, Zenon DEF ScreenInv, MessagesConverge
  <1>4. Reloading => Reloading'
    BY <1>0, Zenon DEF Reloading
  <1>5. account /\ ~doubt => PagesContinue'
    BY <1>0, <1>4, Zenon DEF ScreenInv, PagesContinue
  <1>6. MoneyFollows => MoneyFollows'
    BY <1>0, Zenon DEF MoneyFollows
  <1>7. ListFollows => ListFollows'
    BY <1>0, Zenon DEF ListFollows, RowPending
  <1>8. (account' <=> account) /\ (socket'.open <=> socket.open) /\ (doubt' <=> doubt)
    BY <1>0 DEF account
  <1>9. account /\ socket.open /\ ~doubt => MoneyFollows' /\ (ListFollows' \/ Reloading')
    BY <1>4, <1>6, <1>7, Zenon DEF ScreenInv
  <1> QED
    BY <1>0, <1>1, <1>2, <1>3, <1>5, <1>8, <1>9, Zenon DEF ScreenInv

LEMMA RowsAreASequence ==
  ASSUME ScreenTypes, account, NEW c \in Clusters
  PROVE  record[c][hook] \in Seq(Nat) /\ record[c].money \in Nat
  <1>1. record[c] \in Records
    BY Zenon DEF ScreenTypes
  <1>2. /\ record[c].orders \in Seq(Nat) /\ record[c].fills \in Seq({1})
        /\ record[c].money \in Nat
    BY <1>1, Zenon DEF Records
  <1>3. Seq({1}) \subseteq Seq(Nat)
    OBVIOUS
  <1>4. hook = "orders" \/ hook = "fills"
    BY Zenon DEF account, Lists
  <1> QED
    BY <1>2, <1>3, <1>4, Zenon

\* An answer has the type of its part.
LEMMA AnswerIsTyped ==
  ASSUME ScreenTypes, NEW r \in flight, NEW p \in partsOf(r.kind)
  PROVE  /\ p \in {"rows", "money"}
         /\ p = "money" => answerOf(r, p) \in Int
         /\ p = "rows" => answerOf(r, p) \in Pages
  <1>0. r.kind \in RequestKinds /\ r.cluster \in Clusters /\ r.before \in Nat
        /\ (r.kind = "poll") = ~account
    BY Zenon DEF ScreenTypes, IsRequest
  <1>1. p \in {"rows", "money"} /\ (p = "rows" => r.kind # "poll")
    BY <1>0, SMT DEF partsOf, RequestKinds
  <1>2. CASE p = "money"
    <2>1. record[r.cluster] \in Records
      BY <1>0, Zenon DEF ScreenTypes
    <2>2. record[r.cluster].money \in Nat
      BY <2>1, Zenon DEF Records
    <2> QED
      BY <1>2, <2>2, SMT DEF answerOf
  <1>3. CASE p = "rows"
    <2>1. account
      BY <1>0, <1>1, <1>3, Zenon
    <2>2. answerOf(r, p) = pageOf(record[r.cluster][hook], r.before)
      BY <1>3, SMT DEF answerOf
    <2> QED
      BY <1>0, <1>3, <2>1, <2>2, RowsAreASequence, PageIsWhole, SMT
  <1> QED
    BY <1>1, <1>2, <1>3, Zenon

\* The part of a request is answered.
LEMMA ScreenAnswers ==
  ASSUME ScreenInv, answer
  PROVE  ScreenInv'
  <1>a. PICK r \in flight : \E p \in partsOf(r.kind) \ DOMAIN r.got :
          /\ flight' = (flight \ {r}) \cup
               {[r EXCEPT !.got = [q \in DOMAIN r.got \cup {p} |->
                                     IF q = p THEN answerOf(r, p) ELSE r.got[q]]]}
          /\ UNCHANGED <<hook, network, record, socket, screen, doubt>>
    BY Zenon DEF answer
  <1>1. PICK p \in partsOf(r.kind) \ DOMAIN r.got :
          /\ flight' = (flight \ {r}) \cup
               {[r EXCEPT !.got = [q \in DOMAIN r.got \cup {p} |->
                                     IF q = p THEN answerOf(r, p) ELSE r.got[q]]]}
          /\ UNCHANGED <<hook, network, record, socket, screen, doubt>>
    BY <1>a, Zenon
  <1> DEFINE got == [q \in DOMAIN r.got \cup {p} |-> IF q = p THEN answerOf(r, p) ELSE r.got[q]]
             s == [r EXCEPT !.got = got]
  <1>2. flight' = (flight \ {r}) \cup {s}
    BY <1>1, Zenon
  <1>0. /\ hook' = hook /\ network' = network /\ record' = record /\ socket' = socket
        /\ screen' = screen /\ doubt' = doubt
        /\ account' = account /\ rowsNow' = rowsNow
    BY <1>1, Zenon DEF account, rowsNow
  <1>3. /\ DOMAIN got = DOMAIN r.got \cup {p} /\ got[p] = answerOf(r, p)
        /\ \A q \in DOMAIN r.got : got[q] = r.got[q]
    BY <1>1, Zenon
  <1>4. IsRequest(r)
    BY Zenon DEF ScreenInv, ScreenTypes
  <1> HIDE DEF got
  <1>5. /\ DOMAIN s = DOMAIN r /\ s.kind = r.kind /\ s.cluster = r.cluster
        /\ s.before = r.before /\ s.got = got /\ s.overtaken = r.overtaken
    <2>1. DOMAIN r = {"n", "kind", "cluster", "before", "got", "overtaken"}
      BY <1>4, Zenon DEF IsRequest
    <2> QED
      BY <2>1, SMT
  <1> HIDE DEF s
  <1>6. IsRequest(s)
    <2>1. /\ p = "money" => answerOf(r, p) \in Int
          /\ p = "rows" => answerOf(r, p) \in Pages
      BY <1>1, AnswerIsTyped, Zenon DEF ScreenInv
    <2>2. "rows" \in DOMAIN got => got["rows"] \in Pages
      BY <1>3, <1>4, <2>1, Zenon DEF IsRequest
    <2>3. "money" \in DOMAIN got => got["money"] \in Int
      BY <1>3, <1>4, <2>1, Zenon DEF IsRequest
    <2>4. DOMAIN got \subseteq partsOf(r.kind)
      BY <1>1, <1>3, <1>4, Zenon DEF IsRequest
    <2> QED
      BY <1>4, <1>5, <2>2, <2>3, <2>4, Zenon DEF IsRequest
  <1>7. ScreenTypes'
    BY <1>0, <1>2, <1>6, TypesKept, Zenon DEF ScreenInv, ScreenTypes
  <1>8. RepliesAreCurrent'
    <2> SUFFICES ASSUME NEW t \in flight', ~t.overtaken, NEW q \in DOMAIN t.got
                 PROVE  t.got[q] = answerOf(t, q)'
      BY Zenon DEF RepliesAreCurrent
    <2>1. answerOf(t, q)' = answerOf(t, q)
      BY <1>0, Zenon DEF answerOf
    <2>2. CASE t = s
      <3>1. answerOf(s, q) = answerOf(r, q)
        BY <1>5, Zenon DEF answerOf
      <3>2. ~r.overtaken
        BY <1>5, <2>2, Zenon
      <3>3. got[q] = answerOf(r, q)
        BY <1>3, <1>5, <2>2, <3>2, Zenon DEF ScreenInv, RepliesAreCurrent
      <3> QED
        BY <1>5, <2>1, <2>2, <3>1, <3>3, Zenon
    <2>3. CASE t \in flight
      BY <2>1, <2>3, Zenon DEF ScreenInv, RepliesAreCurrent
    <2> QED
      BY <1>2, <2>2, <2>3, Zenon
  <1>9. account /\ socket.open => MessagesConverge'
    BY <1>0, Zenon DEF ScreenInv, MessagesConverge
  <1>10. Reloading => Reloading'
    BY <1>0, <1>2, <1>5, Zenon DEF Reloading
  <1>11. account /\ ~doubt => PagesContinue'
    BY <1>0, <1>2, <1>5, <1>10, Zenon DEF ScreenInv, PagesContinue
  <1>12. MoneyFollows => MoneyFollows'
    <2>1. answerOf(r, "money") = record[r.cluster].money
      BY SMT DEF answerOf
    <2>2. ASSUME r.cluster = network, "money" \in partsOf(r.kind),
                 "money" \in DOMAIN r.got => r.got["money"] = record[network].money
          PROVE  MoneyFollows'
      BY <1>0, <1>2, <1>3, <1>5, <2>1, <2>2, Zenon DEF MoneyFollows
    <2> QED
      BY <1>0, <1>2, <2>2, Zenon DEF MoneyFollows
  <1>13. ListFollows => ListFollows'
    BY <1>0, Zenon DEF ListFollows, RowPending
  <1>14. (account' <=> account) /\ (socket'.open <=> socket.open) /\ (doubt' <=> doubt)
    BY <1>0 DEF account
  <1>15. account /\ socket.open /\ ~doubt => MoneyFollows' /\ (ListFollows' \/ Reloading')
    BY <1>10, <1>12, <1>13, Zenon DEF ScreenInv
  <1> QED
    BY <1>7, <1>8, <1>9, <1>11, <1>14, <1>15, Zenon DEF ScreenInv

\* The requests that are sent by hand or by a timer.
LEMMA ScreenAsks ==
  ASSUME ScreenInv, refresh \/ loadMore \/ poll
  PROVE  ScreenInv'
  <1>0. ScreenTypes /\ network \in Clusters /\ NoCursor \in Nat
    BY SMT DEF ScreenInv, ScreenTypes, NoCursor
  <1>1. CASE refresh
    <2>1. "refresh" \in RequestKinds /\ ("refresh" = "poll") = ~account
      BY <1>1, SMT DEF RequestKinds, refresh
    <2> DEFINE s == sending("refresh", NoCursor)
    <2>2. IsRequest(s) /\ s.kind = "refresh" /\ DOMAIN s.got = {} /\ ~s.overtaken
      BY <1>0, <2>1, SentIsRequest, Zenon
    <2>3. flight' = flight \cup {s} /\ UNCHANGED <<hook, network, record, socket, screen, doubt>>
      BY <1>1, Zenon DEF refresh
    <2> HIDE DEF s
    <2>4. s.kind # "more"
      BY <2>2, SMT
    <2> QED
      BY <2>2, <2>3, <2>4, ScreenSends, Zenon
  <1>2. CASE loadMore
    <2>1. "more" \in RequestKinds /\ ("more" = "poll") = ~account
      BY <1>2, SMT DEF RequestKinds, loadMore
    <2>2. screen.list.cursor \in Nat
      BY Zenon DEF ScreenInv, ScreenTypes, Pages
    <2> DEFINE s == sending("more", screen.list.cursor)
    <2>3. /\ IsRequest(s) /\ s.kind = "more" /\ DOMAIN s.got = {} /\ ~s.overtaken
          /\ s.before = screen.list.cursor
      BY <1>0, <2>1, <2>2, SentIsRequest
    <2>4. flight' = flight \cup {s} /\ UNCHANGED <<hook, network, record, socket, screen, doubt>>
      BY <1>2, Zenon DEF loadMore
    <2> HIDE DEF s
    <2> QED
      BY <2>3, <2>4, ScreenSends, Zenon
  <1>3. CASE poll
    <2>1. "poll" \in RequestKinds /\ ("poll" = "poll") = ~account
      BY <1>3, SMT DEF RequestKinds, poll, useBalances, useDeposits, useWithdrawals, account, Lists
    <2> DEFINE s == sending("poll", NoCursor)
    <2>2. IsRequest(s) /\ s.kind = "poll" /\ DOMAIN s.got = {} /\ ~s.overtaken
      BY <1>0, <2>1, SentIsRequest, Zenon
    <2>3. flight' = flight \cup {s} /\ UNCHANGED <<hook, network, record, socket, screen, doubt>>
      BY <1>3, Zenon DEF poll
    <2> HIDE DEF s
    <2>4. s.kind # "more"
      BY <2>2, SMT
    <2> QED
      BY <2>2, <2>3, <2>4, ScreenSends, Zenon
  <1> QED
    BY <1>1, <1>2, <1>3, Zenon

\* A request fails.
LEMMA ScreenFails ==
  ASSUME ScreenInv, requestFails
  PROVE  ScreenInv'
  <1>1. PICK r \in flight : /\ screen' = failedWith(r) /\ flight' = flight \ {r}
                            /\ doubt' = TRUE /\ UNCHANGED <<hook, network, record, socket>>
    BY Zenon DEF requestFails
  <1>2. screen' \in [list : Pages, money : Int, loading : BOOLEAN, error : BOOLEAN]
    <2>0. screen \in [list : Pages, money : Int, loading : BOOLEAN, error : BOOLEAN]
      BY Zenon DEF ScreenInv, ScreenTypes
    <2>1. CASE r.kind = "refresh"
      <3>1. screen' = [screen EXCEPT !.loading = FALSE, !.error = TRUE]
        BY <1>1, <2>1, Zenon DEF failedWith
      <3> QED
        BY <2>0, <3>1, Zenon
    <2>2. CASE r.kind = "poll"
      <3> DEFINE m == IF hook = "withdrawals" THEN screen.money ELSE Unknown
      <3>1. screen' = [screen EXCEPT !.money = m, !.loading = FALSE, !.error = TRUE]
        <4>1. r.kind # "refresh"
          BY <2>2, SMT
        <4> QED
          BY <1>1, <2>2, <4>1, Zenon DEF failedWith
      <3>2. Unknown \in Int
        BY SMT DEF Unknown
      <3>3. m \in Int
        BY <2>0, <3>2, Zenon
      <3> HIDE DEF m
      <3> QED
        BY <2>0, <3>1, <3>3, Zenon
    <2>3. CASE r.kind # "refresh" /\ r.kind # "poll"
      BY <1>1, <2>0, <2>3, Zenon DEF failedWith
    <2> QED
      BY <2>1, <2>2, <2>3, Zenon
  <1>0. hook' = hook /\ network' = network /\ record' = record /\ socket' = socket
        /\ rowsNow' = rowsNow
    BY <1>1, Zenon DEF rowsNow
  <1>3. ScreenTypes'
    BY <1>0, <1>1, <1>2, TypesKept, Zenon DEF ScreenInv, ScreenTypes
  <1>4. RepliesAreCurrent'
    <2>1. \A s \in flight : Marked(s, s)
      BY MarkIsMarked, Zenon DEF ScreenInv, ScreenTypes
    <2> QED
      BY <1>0, <1>1, <2>1, RepliesKept, Zenon DEF ScreenInv
  <1>5. account /\ socket.open => MessagesConverge'
    BY <1>0, Zenon DEF ScreenInv, MessagesConverge
  <1>6. (account' <=> account) /\ (socket'.open <=> socket.open) /\ doubt'
    BY <1>0, <1>1 DEF account
  <1> QED
    BY <1>3, <1>4, <1>5, <1>6, Zenon DEF ScreenInv

\* Everything is forgotten and asked for again, with nothing on its way.
LEMMA ScreenReloads ==
  ASSUME ScreenInv, NEW c \in Clusters, reload(c), network' = c, ~doubt',
         hook' = hook, record' = record, doubt' \in BOOLEAN,
         socket' \in [open : BOOLEAN, queue : Seq(Messages)], socket'.queue = << >>
  PROVE  ScreenInv'
  <1> DEFINE kind == IF account THEN "refresh" ELSE "poll"
             r == sending(kind, NoCursor)
             s == [r EXCEPT !.cluster = c]
  <1>1. kind \in RequestKinds /\ (kind = "poll") = ~account /\ NoCursor \in Nat /\ kind # "more"
    BY SMT DEF RequestKinds, NoCursor
  <1>2. screen' = INITIAL /\ flight' = flight \cup {s}
    BY Zenon DEF reload
  <1> HIDE DEF kind
  <1>3. IsRequest(s) /\ s.kind = kind /\ s.cluster = c /\ DOMAIN s.got = {} /\ ~s.overtaken
    <2>1. IsRequest(r) /\ r.kind = kind /\ DOMAIN r.got = {} /\ ~r.overtaken
      BY <1>1, SentIsRequest, Zenon DEF ScreenInv
    <2> HIDE DEF r
    <2> QED
      BY <2>1, RedirectedIsRequest, Zenon
  <1> HIDE DEF s
  <1>4. INITIAL \in [list : Pages, money : Int, loading : BOOLEAN, error : BOOLEAN]
    BY InitialIsTyped
  <1>5. ScreenTypes'
    BY <1>2, <1>3, <1>4, TypesKept, Zenon DEF ScreenInv, ScreenTypes
  <1>6. RepliesAreCurrent'
    <2>1. \A t \in flight : Marked(t, t)
      BY MarkIsMarked, Zenon DEF ScreenInv, ScreenTypes
    <2> QED
      BY <1>2, <1>3, <2>1, RepliesKept, Zenon DEF ScreenInv
  <1>7. MessagesConverge'
    <2>1. DOMAIN socket'.queue = {}
      BY EmptyGot, Zenon
    <2> QED
      BY <2>1, Zenon DEF MessagesConverge
  <1>8. account => Reloading'
    BY <1>2, <1>3, Zenon DEF Reloading, kind
  <1>9. account => PagesContinue'
    BY <1>8, Zenon DEF PagesContinue
  <1>10. account => MoneyFollows'
    <2>1. account => "money" \in partsOf(s.kind)
      BY <1>3, SMT DEF partsOf, kind
    <2> QED
      BY <1>2, <1>3, <2>1, Zenon DEF MoneyFollows
  <1>11. account' <=> account
    BY DEF account
  <1> QED
    BY <1>5, <1>6, <1>7, <1>8, <1>9, <1>10, <1>11, Zenon DEF ScreenInv

\* The socket opens: the account starts afresh, a polled hook does nothing.
LEMMA ScreenOpens ==
  ASSUME ScreenInv, onOpen
  PROVE  ScreenInv'
  <1>1. /\ socket' = [open |-> TRUE, queue |-> << >>]
        /\ hook' = hook /\ network' = network /\ record' = record
    BY Zenon DEF onOpen
  <1>2. socket' \in [open : BOOLEAN, queue : Seq(Messages)] /\ socket'.queue = << >>
    <2>1. << >> \in Seq(Messages)
      OBVIOUS
    <2> QED
      BY <1>1, <2>1, Zenon
  <1>3. CASE account
    <2>1. reload(network) /\ doubt' = FALSE
      BY <1>3, Zenon DEF onOpen
    <2>2. network \in Clusters
      BY Zenon DEF ScreenInv, ScreenTypes
    <2> QED
      BY <1>1, <1>2, <2>1, <2>2, ScreenReloads, Zenon
  <1>4. CASE ~account
    <2>1. screen' = screen /\ flight' = flight /\ doubt' = doubt
      BY <1>4, Zenon DEF onOpen
    <2>2. ScreenTypes'
      BY <1>1, <1>2, <2>1, TypesKept, Zenon DEF ScreenInv, ScreenTypes
    <2>3. RepliesAreCurrent'
      <3>1. \A r \in flight : Marked(r, r)
        BY MarkIsMarked, Zenon DEF ScreenInv, ScreenTypes
      <3> QED
        BY <1>1, <2>1, <3>1, RepliesKept, Zenon DEF ScreenInv
    <2>4. ~account'
      BY <1>1, <1>4 DEF account
    <2> QED
      BY <2>2, <2>3, <2>4, Zenon DEF ScreenInv
  <1> QED
    BY <1>3, <1>4, Zenon

\* The socket drops, with what it carried.
LEMMA ScreenDrops ==
  ASSUME ScreenInv, onDrop
  PROVE  ScreenInv'
  <1>1. /\ socket' = [open |-> FALSE, queue |-> << >>] /\ hook' = hook /\ network' = network
        /\ record' = record /\ screen' = screen /\ flight' = flight /\ doubt' = doubt
    BY Zenon DEF onDrop
  <1>2. /\ socket' \in [open : BOOLEAN, queue : Seq(Messages)] /\ ~socket'.open
        /\ socket'.queue = << >>
    <2>1. << >> \in Seq(Messages)
      OBVIOUS
    <2> QED
      BY <1>1, <2>1, Zenon
  <1>3. ScreenTypes'
    BY <1>1, <1>2, TypesKept, Zenon DEF ScreenInv, ScreenTypes
  <1>4. RepliesAreCurrent'
    <2>1. \A r \in flight : Marked(r, r)
      BY MarkIsMarked, Zenon DEF ScreenInv, ScreenTypes
    <2> QED
      BY <1>1, <2>1, RepliesKept, Zenon DEF ScreenInv
  <1>5. account /\ ~doubt => PagesContinue'
    BY <1>1, Zenon DEF ScreenInv, PagesContinue, Reloading
  <1>6. (account' <=> account) /\ (doubt' <=> doubt)
    BY <1>1 DEF account
  <1> QED
    BY <1>2, <1>3, <1>4, <1>5, <1>6, Zenon DEF ScreenInv

\* Another network is chosen.
LEMMA ScreenSwitches ==
  ASSUME ScreenInv, switchTo
  PROVE  ScreenInv'
  <1>1. PICK next \in Clusters \ {network} :
          /\ network' = next /\ socket' = [socket EXCEPT !.queue = << >>]
          /\ reload(next) /\ doubt' = FALSE /\ UNCHANGED <<hook, record>>
    BY Zenon DEF switchTo
  <1>2. socket' \in [open : BOOLEAN, queue : Seq(Messages)] /\ socket'.queue = << >>
    <2>1. << >> \in Seq(Messages)
      OBVIOUS
    <2> QED
      BY <1>1, <2>1, Zenon DEF ScreenInv, ScreenTypes
  <1> QED
    BY <1>1, <1>2, ScreenReloads, Zenon

LEMMA RowListMeans ==
  ASSUME NEW f \in RowLists
  PROVE  DOMAIN f \in SUBSET Nat /\ \A i \in DOMAIN f : f[i] \in Nat
  <1>1. PICK D \in SUBSET Nat : f \in [D -> Nat]
    BY Zenon DEF RowLists
  <1> QED
    BY <1>1, Zenon

LEMMA AppendedIsPage ==
  ASSUME NEW list \in Pages, NEW page \in Pages
  PROVE  /\ appended(list, page) \in Pages
         /\ appended(list, page).cursor = page.cursor
         /\ DOMAIN appended(list, page).rows = DOMAIN list.rows \cup DOMAIN page.rows
         /\ \A i \in DOMAIN list.rows : appended(list, page).rows[i] = list.rows[i]
         /\ \A i \in DOMAIN page.rows \ DOMAIN list.rows :
              appended(list, page).rows[i] = page.rows[i]
  <1> DEFINE D == DOMAIN list.rows \cup DOMAIN page.rows
             R == [i \in D |-> IF i \in DOMAIN list.rows THEN list.rows[i] ELSE page.rows[i]]
  <1>1. appended(list, page) = [rows |-> R, cursor |-> page.cursor]
    BY Zenon DEF appended
  <1>2. list.rows \in RowLists /\ page.rows \in RowLists /\ page.cursor \in Nat
    BY Zenon DEF Pages
  <1>3. /\ DOMAIN list.rows \in SUBSET Nat /\ DOMAIN page.rows \in SUBSET Nat
        /\ \A i \in DOMAIN list.rows : list.rows[i] \in Nat
        /\ \A i \in DOMAIN page.rows : page.rows[i] \in Nat
    BY <1>2, RowListMeans, Zenon
  <1>4. R \in [D -> Nat] /\ D \in SUBSET Nat
    BY <1>3, Zenon
  <1>5. R \in RowLists
    BY <1>4, Zenon DEF RowLists
  <1>6. /\ DOMAIN R = D
        /\ \A i \in DOMAIN list.rows : R[i] = list.rows[i]
        /\ \A i \in DOMAIN page.rows \ DOMAIN list.rows : R[i] = page.rows[i]
    BY Zenon
  <1> HIDE DEF R
  <1>7. appended(list, page) \in Pages
    <2>1. [rows |-> R, cursor |-> page.cursor] \in Pages
      BY <1>2, <1>5, Zenon DEF Pages
    <2> QED
      BY <1>1, <2>1, Zenon
  <1>8. appended(list, page).rows = R /\ appended(list, page).cursor = page.cursor
    BY <1>1, SMT
  <1> QED
    BY <1>6, <1>7, <1>8, Zenon

\* What a reply leaves in flight: every other request, perhaps marked.
LEMMA OthersStay ==
  ASSUME ScreenTypes, NEW r \in flight, flight' = overtakenBy(r)
  PROVE  /\ \A s \in flight' : \E t \in flight \ {r} :
              Marked(s, t) /\ (s.kind = "more" /\ r.kind \in {"more", "refresh"} => s.overtaken)
         /\ \A t \in flight \ {r} : \E s \in flight' : Marked(s, t)
  <1> DEFINE f(t) == IF t.kind = "more" /\ r.kind \in {"more", "refresh"}
                     THEN [t EXCEPT !.overtaken = TRUE] ELSE t
  <1>1. flight' = {f(t) : t \in flight \ {r}}
    BY Zenon DEF overtakenBy
  <1>2. ASSUME NEW t \in flight
        PROVE  /\ Marked(f(t), t)
               /\ f(t).kind = "more" /\ r.kind \in {"more", "refresh"} => f(t).overtaken
    <2>1. IsRequest(t)
      BY Zenon DEF ScreenTypes
    <2>2. Marked(t, t) /\ Marked([t EXCEPT !.overtaken = TRUE], t)
          /\ [t EXCEPT !.overtaken = TRUE].overtaken
      BY <2>1, MarkIsMarked, Zenon
    <2>3. CASE t.kind = "more" /\ r.kind \in {"more", "refresh"}
      BY <2>2, <2>3, Zenon
    <2>4. CASE ~(t.kind = "more" /\ r.kind \in {"more", "refresh"})
      BY <2>2, <2>4, Zenon
    <2> QED
      BY <2>3, <2>4, Zenon
  <1> HIDE DEF f
  <1> QED
    BY <1>1, <1>2, Zenon

\* What a reply does to the screen.
LEMMA ReplyIsTyped ==
  ASSUME ScreenTypes, NEW r \in flight, DOMAIN r.got = partsOf(r.kind)
  PROVE  /\ applied(r) \in [list : Pages, money : Int, loading : BOOLEAN, error : BOOLEAN]
         /\ r.kind = "refresh" => applied(r).list = r.got["rows"] /\ applied(r).money = r.got["money"]
         /\ r.kind = "more" => /\ applied(r).money = screen.money
                               /\ applied(r).list = appended(screen.list, r.got["rows"])
         /\ r.kind = "balances" => /\ applied(r).list = screen.list
                                   /\ applied(r).money = r.got["money"]
  <1>0. screen \in [list : Pages, money : Int, loading : BOOLEAN, error : BOOLEAN]
    BY Zenon DEF ScreenTypes
  <1>1. /\ r.kind \in RequestKinds
        /\ "rows" \in DOMAIN r.got => r.got["rows"] \in Pages
        /\ "money" \in DOMAIN r.got => r.got["money"] \in Int
    BY Zenon DEF ScreenTypes, IsRequest
  <1>2. /\ r.kind = "refresh" => "rows" \in DOMAIN r.got /\ "money" \in DOMAIN r.got
        /\ r.kind = "more" => "rows" \in DOMAIN r.got
        /\ r.kind \in {"balances", "poll"} => "money" \in DOMAIN r.got
    BY SMT DEF partsOf
  <1>3. CASE r.kind = "refresh"
    <2>1. applied(r) = [list |-> r.got["rows"], money |-> r.got["money"], loading |-> FALSE, error |-> FALSE]
      BY <1>3, Zenon DEF applied
    <2>2. r.kind # "more" /\ r.kind # "balances"
      BY <1>3, SMT
    <2>3. r.got["rows"] \in Pages /\ r.got["money"] \in Int
      BY <1>1, <1>2, <1>3, Zenon
    <2>4. applied(r) \in [list : Pages, money : Int, loading : BOOLEAN, error : BOOLEAN]
      <3>1. [list |-> r.got["rows"], money |-> r.got["money"], loading |-> FALSE, error |-> FALSE]
              \in [list : Pages, money : Int, loading : BOOLEAN, error : BOOLEAN]
        BY <2>3, Zenon
      <3> QED
        BY <2>1, <3>1, Zenon
    <2>5. applied(r).list = r.got["rows"] /\ applied(r).money = r.got["money"]
      BY <2>1, SMT
    <2> QED
      BY <2>2, <2>4, <2>5, Zenon
  <1>4. CASE r.kind = "more"
    <2> DEFINE l == appended(screen.list, r.got["rows"])
    <2>1. l \in Pages
      BY <1>0, <1>1, <1>2, <1>4, AppendedIsPage, Zenon
    <2>2. r.kind # "refresh" /\ r.kind # "balances"
      BY <1>4, SMT
    <2>3. applied(r) = [screen EXCEPT !.list = l]
      BY <1>4, <2>2, Zenon DEF applied
    <2> HIDE DEF l
    <2>4. applied(r) \in [list : Pages, money : Int, loading : BOOLEAN, error : BOOLEAN]
          /\ applied(r).money = screen.money /\ applied(r).list = l
      BY <1>0, <2>1, <2>3, Zenon
    <2> QED
      BY <2>2, <2>4, Zenon DEF l
  <1>5. CASE r.kind = "balances"
    <2>1. r.kind # "refresh" /\ r.kind # "more" /\ r.got["money"] \in Int
      BY <1>1, <1>2, <1>5, SMT
    <2>2. applied(r) = [screen EXCEPT !.money = r.got["money"]]
      BY <1>5, <2>1, Zenon DEF applied
    <2> QED
      BY <1>0, <2>1, <2>2, Zenon
  <1>6. CASE r.kind = "poll"
    <2>1. /\ r.kind # "refresh" /\ r.kind # "more" /\ r.kind # "balances"
          /\ r.got["money"] \in Int
      BY <1>1, <1>2, <1>6, SMT
    <2>2. applied(r) = [screen EXCEPT !.money = r.got["money"], !.loading = FALSE, !.error = FALSE]
      BY <2>1, Zenon DEF applied
    <2> QED
      BY <1>0, <2>1, <2>2, Zenon
  <1> QED
    BY <1>1, <1>3, <1>4, <1>5, <1>6, Zenon DEF RequestKinds

\* A reply that nothing overtook leaves the screen following the record.
LEMMA ReplyFollows ==
  ASSUME ScreenInv, NEW r \in flight, DOMAIN r.got = partsOf(r.kind), screen' = applied(r),
         flight' = overtakenBy(r), UNCHANGED <<hook, network, record, socket>>,
         account, ~doubt, ~r.overtaken, r.cluster = network
  PROVE  /\ PagesContinue'
         /\ socket.open => MoneyFollows' /\ (ListFollows' \/ Reloading')
  <1>0. /\ hook' = hook /\ network' = network /\ record' = record /\ socket' = socket
        /\ rowsNow' = rowsNow /\ account' = account
    BY Zenon DEF rowsNow, account
  <1>1. ScreenTypes /\ network \in Clusters /\ IsRequest(r)
    BY Zenon DEF ScreenInv, ScreenTypes
  <1>2. r.kind = "refresh" \/ r.kind = "more" \/ r.kind = "balances"
    BY <1>1, Zenon DEF IsRequest, RequestKinds
  <1>3. /\ r.kind = "refresh" => screen'.list = r.got["rows"] /\ screen'.money = r.got["money"]
        /\ r.kind = "more" => /\ screen'.money = screen.money
                              /\ screen'.list = appended(screen.list, r.got["rows"])
        /\ r.kind = "balances" => screen'.list = screen.list /\ screen'.money = r.got["money"]
    BY <1>1, ReplyIsTyped, Zenon
  <1>4. /\ "money" \in partsOf("refresh") /\ "rows" \in partsOf("refresh")
        /\ "money" \in partsOf("balances") /\ "rows" \in partsOf("more")
        /\ "money" \notin partsOf("more")
    BY SMT DEF partsOf
  <1>5. /\ "money" \in DOMAIN r.got => r.got["money"] = record[network].money
        /\ "rows" \in DOMAIN r.got => r.got["rows"] = pageOf(rowsNow, r.before)
    <2>1. \A p \in DOMAIN r.got : r.got[p] = answerOf(r, p)
      BY Zenon DEF ScreenInv, RepliesAreCurrent
    <2>2. answerOf(r, "money") = record[network].money
      BY SMT DEF answerOf
    <2>3. answerOf(r, "rows") = pageOf(rowsNow, r.before)
      BY SMT DEF answerOf, rowsNow
    <2> QED
      BY <2>1, <2>2, <2>3, Zenon
  <1>6. /\ \A s \in flight' : \E t \in flight \ {r} :
             Marked(s, t) /\ (s.kind = "more" /\ r.kind \in {"more", "refresh"} => s.overtaken)
        /\ \A t \in flight \ {r} : \E s \in flight' : Marked(s, t)
    BY <1>1, OthersStay, Zenon
  <1>7. r.kind # "refresh" /\ Reloading => Reloading'
    <2> SUFFICES ASSUME r.kind # "refresh", NEW t \in flight, t.kind = "refresh", t.cluster = network
                 PROVE  Reloading'
      BY Zenon DEF Reloading
    <2>1. PICK s \in flight' : Marked(s, t)
      BY <1>6, Zenon
    <2> QED
      BY <1>0, <2>1, Zenon DEF Reloading, Marked
  <1>8. PagesContinue'
    <2> SUFFICES ASSUME NEW s \in flight', s.kind = "more", ~s.overtaken, s.cluster = network'
                 PROVE  s.before = screen'.list.cursor \/ Reloading'
      BY Zenon DEF PagesContinue
    <2>1. PICK t \in flight \ {r} :
            Marked(s, t) /\ (s.kind = "more" /\ r.kind \in {"more", "refresh"} => s.overtaken)
      BY <1>6, Zenon
    <2>2. r.kind = "balances" /\ r.kind # "refresh"
      BY <1>2, <2>1, SMT
    <2>3. t.kind = "more" /\ ~t.overtaken /\ t.cluster = network /\ t.before = s.before
      BY <1>0, <2>1, Zenon DEF Marked
    <2>4. t.before = screen.list.cursor \/ Reloading
      BY <2>3, Zenon DEF ScreenInv, PagesContinue
    <2> QED
      BY <1>3, <1>7, <2>2, <2>3, <2>4, Zenon
  <1>9. ASSUME socket.open
        PROVE  MoneyFollows'
    <2>1. CASE r.kind = "refresh" \/ r.kind = "balances"
      BY <1>0, <1>3, <1>4, <1>5, <2>1, Zenon DEF MoneyFollows
    <2>2. CASE r.kind = "more"
      <3>1. MoneyFollows
        BY <1>9, Zenon DEF ScreenInv
      <3>2. CASE screen.money = record[network].money
        BY <1>0, <1>3, <2>2, <3>2, Zenon DEF MoneyFollows
      <3>3. CASE \E k \in DOMAIN socket.queue : socket.queue[k].type = "balances.changed"
        BY <1>0, <3>3, Zenon DEF MoneyFollows
      <3>4. CASE \E t \in flight : /\ t.cluster = network /\ "money" \in partsOf(t.kind)
                                   /\ "money" \in DOMAIN t.got => t.got["money"] = record[network].money
        <4>1. PICK t \in flight : /\ t.cluster = network /\ "money" \in partsOf(t.kind)
                                  /\ "money" \in DOMAIN t.got => t.got["money"] = record[network].money
          BY <3>4, Zenon
        <4>2. t # r
          BY <1>4, <2>2, <4>1, Zenon
        <4>3. PICK s \in flight' : Marked(s, t)
          BY <1>6, <4>2, Zenon
        <4>4. /\ s.cluster = network' /\ "money" \in partsOf(s.kind)
              /\ "money" \in DOMAIN s.got => s.got["money"] = record'[network'].money
          BY <1>0, <4>1, <4>3, Zenon DEF Marked
        <4> QED
          BY <4>4, Zenon DEF MoneyFollows
      <3> QED
        BY <3>1, <3>2, <3>3, <3>4, Zenon DEF MoneyFollows
    <2> QED
      BY <1>2, <2>1, <2>2, Zenon
  <1>10. ASSUME socket.open
         PROVE  ListFollows' \/ Reloading'
    <2>0. rowsNow \in Seq(Nat) /\ r.before \in Nat
      BY <1>1, RowsAreASequence, Zenon DEF rowsNow, IsRequest
    <2>1. CASE r.kind = "refresh"
      <3>1. r.before = NoCursor
        <4>1. r.kind # "more"
          BY <2>1, SMT
        <4> QED
          BY <1>1, <4>1, Zenon DEF IsRequest
      <3>2. screen'.list = pageOf(rowsNow, NoCursor)
        BY <1>3, <1>4, <1>5, <2>1, <3>1, Zenon
      <3>3. /\ \A i \in DOMAIN screen'.list.rows :
                 i \in DOMAIN rowsNow /\ screen'.list.rows[i] = rowsNow[i]
            /\ \A i \in DOMAIN rowsNow : i >= screen'.list.cursor => i \in DOMAIN screen'.list.rows
        <4> DEFINE page == pageOf(rowsNow, NoCursor)
        <4>1. /\ \A i \in DOMAIN page.rows : i \in DOMAIN rowsNow /\ page.rows[i] = rowsNow[i]
              /\ \A i \in DOMAIN rowsNow : i >= page.cursor => i \in DOMAIN page.rows
          BY <2>0, <3>1, PageIsWhole, Zenon
        <4> HIDE DEF page
        <4> QED
          BY <3>2, <4>1, Zenon DEF page
      <3> QED
        BY <1>0, <3>3, Zenon DEF ListFollows
    <2>2. CASE r.kind = "balances"
      <3>1. r.kind # "refresh" /\ (ListFollows \/ Reloading)
        <4>1. r.kind # "refresh"
          BY <2>2, SMT
        <4> QED
          BY <1>10, <4>1, Zenon DEF ScreenInv
      <3>2. ListFollows => ListFollows'
        <4>1. screen'.list = screen.list
          BY <1>3, <2>2, Zenon
        <4>2. \A i : RowPending(i)' <=> RowPending(i)
          BY <1>0 DEF RowPending
        <4> QED
          BY <1>0, <4>1, <4>2, Zenon DEF ListFollows
      <3> QED
        BY <1>7, <3>1, <3>2, Zenon
    <2>3. CASE r.kind = "more"
      <3>1. r.kind # "refresh"
        BY <2>3, SMT
      <3>2. CASE Reloading
        BY <1>7, <3>1, <3>2, Zenon
      <3>3. CASE ~Reloading
        <4>1. ListFollows /\ r.before = screen.list.cursor
          BY <1>10, <2>3, <3>3, Zenon DEF ScreenInv, PagesContinue
        <4> DEFINE page == pageOf(rowsNow, r.before)
                   list == screen.list
        <4>2. /\ page \in Pages
              /\ \A i \in DOMAIN page.rows : i \in DOMAIN rowsNow /\ page.rows[i] = rowsNow[i]
              /\ \A i \in DOMAIN rowsNow : i >= page.cursor /\ (r.before = NoCursor \/ i < r.before)
                                             => i \in DOMAIN page.rows
          BY <2>0, PageIsWhole, Zenon
        <4>3. list \in Pages /\ list.cursor \in Nat
          BY <1>1, Zenon DEF ScreenTypes, Pages
        <4>4. screen'.list = appended(list, page)
          BY <1>3, <1>4, <1>5, <2>3, Zenon
        <4> HIDE DEF page
        <4>5. /\ screen'.list.cursor = page.cursor
              /\ DOMAIN screen'.list.rows = DOMAIN list.rows \cup DOMAIN page.rows
              /\ \A i \in DOMAIN list.rows : screen'.list.rows[i] = list.rows[i]
              /\ \A i \in DOMAIN page.rows \ DOMAIN list.rows : screen'.list.rows[i] = page.rows[i]
          <5> DEFINE both == appended(list, page)
          <5>1. /\ both.cursor = page.cursor
                /\ DOMAIN both.rows = DOMAIN list.rows \cup DOMAIN page.rows
                /\ \A i \in DOMAIN list.rows : both.rows[i] = list.rows[i]
                /\ \A i \in DOMAIN page.rows \ DOMAIN list.rows : both.rows[i] = page.rows[i]
            BY <4>2, <4>3, AppendedIsPage, Zenon
          <5> HIDE DEF both
          <5> QED
            BY <4>4, <5>1, Zenon DEF both
        <4>6. \A i : RowPending(i)' <=> RowPending(i)
          BY <1>0 DEF RowPending
        <4>7. ASSUME NEW i \in DOMAIN screen'.list.rows
              PROVE  i \in DOMAIN rowsNow /\ (screen'.list.rows[i] = rowsNow[i]
                                              \/ (hook = "orders" /\ RowPending(i)))
          BY <4>1, <4>2, <4>5, Zenon DEF ListFollows
        <4>8. ASSUME NEW i \in DOMAIN rowsNow, i >= screen'.list.cursor
              PROVE  i \in DOMAIN screen'.list.rows \/ RowPending(i)
          <5>1. i \in Nat
            BY <2>0, SMT
          <5>2. i >= list.cursor \/ i < r.before
            BY <4>1, <4>3, <5>1, SMT
          <5> QED
            BY <4>1, <4>2, <4>5, <4>8, <5>2, Zenon DEF ListFollows
        <4> QED
          BY <1>0, <4>6, <4>7, <4>8, Zenon DEF ListFollows
      <3> QED
        BY <3>2, <3>3, Zenon
    <2> QED
      BY <1>2, <2>1, <2>2, <2>3, Zenon
  <1> QED
    BY <1>8, <1>9, <1>10, Zenon

\* A reply is applied.
LEMMA ScreenReplies ==
  ASSUME ScreenInv, reply
  PROVE  ScreenInv'
  <1>1. PICK r \in flight : /\ DOMAIN r.got = partsOf(r.kind)
                            /\ screen' = applied(r) /\ flight' = overtakenBy(r)
                            /\ doubt' = (doubt \/ r.overtaken \/ r.cluster # network)
                            /\ UNCHANGED <<hook, network, record, socket>>
    BY Zenon DEF reply
  <1>0. hook' = hook /\ network' = network /\ record' = record /\ socket' = socket
        /\ rowsNow' = rowsNow
    BY <1>1, Zenon DEF rowsNow
  <1>2. ScreenTypes /\ RepliesAreCurrent
    BY Zenon DEF ScreenInv
  <1>3. screen' \in [list : Pages, money : Int, loading : BOOLEAN, error : BOOLEAN]
    BY <1>1, <1>2, ReplyIsTyped, Zenon
  <1>4. \A s \in flight' : \E t \in flight : Marked(s, t)
    BY <1>1, <1>2, OthersStay, Zenon
  <1>5. ScreenTypes'
    <2>1. \A s \in flight' : IsRequest(s)
      BY <1>4, Zenon DEF Marked
    <2>2. doubt' \in BOOLEAN
      BY <1>1, Zenon
    <2> QED
      BY <1>0, <1>2, <1>3, <2>1, <2>2, TypesKept, Zenon DEF ScreenTypes
  <1>6. RepliesAreCurrent'
    BY <1>0, <1>2, <1>4, RepliesKept, Zenon
  <1>7. account /\ socket.open => MessagesConverge'
    BY <1>0, Zenon DEF ScreenInv, MessagesConverge
  <1>8. /\ (account' <=> account) /\ (socket'.open <=> socket.open)
        /\ ~doubt' => ~doubt /\ ~r.overtaken /\ r.cluster = network
    BY <1>0, <1>1 DEF account
  <1>9. account /\ ~doubt' => /\ PagesContinue'
                              /\ socket.open => MoneyFollows' /\ (ListFollows' \/ Reloading')
    BY <1>1, <1>8, ReplyFollows, Zenon
  <1> QED
    BY <1>5, <1>6, <1>7, <1>8, <1>9, Zenon DEF ScreenInv

\* One change of a cluster's record: the rows stay, the value of one may grow,
\* and one may be added.
Grows(old, new, o, fills) ==
  /\ new \in Records
  /\ DOMAIN old.orders \subseteq DOMAIN new.orders /\ o \in DOMAIN new.orders
  /\ new.orders[o] \in Nat
  /\ DOMAIN new.orders \subseteq DOMAIN old.orders \cup {o}
  /\ \A i \in DOMAIN old.orders : i # o => new.orders[i] = old.orders[i]
  /\ DOMAIN old.fills \subseteq DOMAIN new.fills
  /\ \A i \in DOMAIN old.fills : new.fills[i] = old.fills[i]
  /\ Len(new.fills) \in Nat
  /\ fills => Len(new.fills) \in DOMAIN new.fills /\ new.fills[Len(new.fills)] = 1
  /\ DOMAIN new.fills \subseteq DOMAIN old.fills \cup (IF fills THEN {Len(new.fills)} ELSE {})

LEMMA ChangeGrows ==
  ASSUME NEW old \in Records, NEW fills \in BOOLEAN, NEW o \in Nat,
         o \in 1 .. Len(old.orders) + 1,
         NEW orders, orders = IF o \in DOMAIN old.orders THEN [old.orders EXCEPT ![o] = @ + 1]
                              ELSE Append(old.orders, 1),
         NEW new, new = [orders |-> orders, money |-> old.money + 1,
                         fills |-> IF fills THEN Append(old.fills, 1) ELSE old.fills]
  PROVE  Grows(old, new, o, fills)
  <1>1. old.orders \in Seq(Nat) /\ old.fills \in Seq({1}) /\ old.money \in Nat
    BY Zenon DEF Records
  <1>2. /\ orders \in Seq(Nat) /\ DOMAIN old.orders \subseteq DOMAIN orders /\ o \in DOMAIN orders
        /\ DOMAIN orders \subseteq DOMAIN old.orders \cup {o}
        /\ \A i \in DOMAIN old.orders : i # o => orders[i] = old.orders[i]
        /\ orders[o] \in Nat
    <2>1. CASE o \in DOMAIN old.orders
      BY <1>1, <2>1, SMT
    <2>2. CASE o \notin DOMAIN old.orders
      BY <1>1, <2>2, SMT
    <2> QED
      BY <2>1, <2>2, Zenon
  <1> DEFINE list == IF fills THEN Append(old.fills, 1) ELSE old.fills
  <1>3. /\ list \in Seq({1}) /\ DOMAIN old.fills \subseteq DOMAIN list
        /\ \A i \in DOMAIN old.fills : list[i] = old.fills[i]
        /\ Len(list) \in Nat
        /\ fills => Len(list) \in DOMAIN list /\ list[Len(list)] = 1
        /\ DOMAIN list \subseteq DOMAIN old.fills \cup (IF fills THEN {Len(list)} ELSE {})
    <2>1. CASE fills
      <3>1. list = Append(old.fills, 1)
        BY <2>1, Zenon
      <3> HIDE DEF list
      <3>2. /\ list \in Seq({1}) /\ DOMAIN old.fills \subseteq DOMAIN list
            /\ \A i \in DOMAIN old.fills : list[i] = old.fills[i]
            /\ Len(list) \in Nat
            /\ Len(list) \in DOMAIN list /\ list[Len(list)] = 1
            /\ DOMAIN list \subseteq DOMAIN old.fills \cup {Len(list)}
        <4>1. /\ list \in Seq({1}) /\ Len(list) = Len(old.fills) + 1 /\ Len(old.fills) \in Nat
              /\ DOMAIN list = 1 .. Len(old.fills) + 1 /\ DOMAIN old.fills = 1 .. Len(old.fills)
              /\ list[Len(old.fills) + 1] = 1
          BY <1>1, <3>1
        <4>2. \A i \in DOMAIN old.fills : list[i] = old.fills[i]
          BY <1>1, <3>1
        <4> QED
          BY <4>1, <4>2, SMT
      <3> QED
        BY <2>1, <3>2, Zenon
    <2>2. CASE ~fills
      <3>1. list = old.fills
        BY <2>2, Zenon
      <3> HIDE DEF list
      <3>2. Len(list) \in Nat
        BY <1>1, <3>1, SMT
      <3> QED
        BY <1>1, <2>2, <3>1, <3>2, Zenon
    <2> QED
      BY <2>1, <2>2, Zenon
  <1>4. new = [orders |-> orders, money |-> old.money + 1, fills |-> list]
    BY Zenon
  <1> HIDE DEF list
  <1>5. old.money + 1 \in Nat
    BY <1>1, SMT
  <1>6. new.orders = orders /\ new.fills = list
    BY <1>4, SMT
  <1>7. new \in Records
    <2>1. [orders |-> orders, money |-> old.money + 1, fills |-> list] \in Records
      BY <1>2, <1>3, <1>5, Zenon DEF Records
    <2> QED
      BY <1>4, <2>1, Zenon
  <1> QED
    BY <1>2, <1>3, <1>6, <1>7, Zenon DEF Grows

LEMMA Joined ==
  ASSUME NEW q \in Seq(Messages), NEW ms \in Seq(Messages)
  PROVE  /\ q \o ms \in Seq(Messages) /\ Len(q) \in Nat
         /\ \A k \in DOMAIN q : k \in DOMAIN (q \o ms) /\ (q \o ms)[k] = q[k] /\ k <= Len(q) /\ k \in Nat
         /\ \A k \in DOMAIN ms : Len(q) + k \in DOMAIN (q \o ms) /\ (q \o ms)[Len(q) + k] = ms[k]
         /\ \A k \in DOMAIN (q \o ms) :
              k \in DOMAIN q \/ \E j \in DOMAIN ms : k = Len(q) + j /\ (q \o ms)[k] = ms[j]
         /\ \A k \in DOMAIN ms, j \in DOMAIN q : Len(q) + k > j
  <1>1. /\ q \o ms \in Seq(Messages) /\ Len(q) \in Nat /\ Len(ms) \in Nat
        /\ DOMAIN q = 1 .. Len(q) /\ DOMAIN ms = 1 .. Len(ms)
        /\ DOMAIN (q \o ms) = 1 .. (Len(q) + Len(ms))
    OBVIOUS
  <1>2. \A k \in 1 .. Len(q) + Len(ms) : (q \o ms)[k] = IF k <= Len(q) THEN q[k] ELSE ms[k - Len(q)]
    OBVIOUS
  <1>3. \A k \in DOMAIN q : k \in DOMAIN (q \o ms) /\ (q \o ms)[k] = q[k] /\ k <= Len(q) /\ k \in Nat
    BY <1>1, <1>2, SMT
  <1>4. \A k \in DOMAIN ms : Len(q) + k \in DOMAIN (q \o ms) /\ (q \o ms)[Len(q) + k] = ms[k]
    BY <1>1, <1>2, SMT
  <1>5. ASSUME NEW k \in DOMAIN (q \o ms), k \notin DOMAIN q
        PROVE  \E j \in DOMAIN ms : k = Len(q) + j /\ (q \o ms)[k] = ms[j]
    <2>1. k - Len(q) \in DOMAIN ms /\ k = Len(q) + (k - Len(q)) /\ (q \o ms)[k] = ms[k - Len(q)]
      BY <1>1, <1>2, <1>5, SMT
    <2> QED
      BY <2>1, Zenon
  <1>6. \A k \in DOMAIN ms, j \in DOMAIN q : Len(q) + k > j
    BY <1>1, SMT
  <1> QED
    BY <1>1, <1>3, <1>4, <1>5, <1>6, Zenon

\* What is said of a change: of the row it touched, and of the balance.
Said(ms, new, o, fills) ==
  /\ ms \in Seq(Messages)
  /\ \E k \in DOMAIN ms : ms[k].type = "balances.changed"
  /\ \A k \in DOMAIN ms : ms[k].type \in RowMessages =>
       \/ hook = "orders" /\ ms[k].type = "order" /\ ms[k].id = o /\ ms[k].at = new.orders[o]
       \/ /\ hook = "fills" /\ fills /\ ms[k].type = "fill"
          /\ ms[k].id = Len(new.fills) /\ ms[k].at = 1
  /\ hook = "orders" => \E k \in DOMAIN ms : ms[k].type \in RowMessages /\ ms[k].id = o
  /\ hook = "fills" /\ fills =>
       \E k \in DOMAIN ms : ms[k].type \in RowMessages /\ ms[k].id = Len(new.fills)

LEMMA MessagesAreSaid ==
  ASSUME account, socket.open, NEW o \in Nat, NEW fills \in BOOLEAN, NEW new,
         new.orders[o] \in Nat, Len(new.fills) \in Nat,
         NEW ms, ms = messagesFor(network, o, fills, new)
  PROVE  Said(ms, new, o, fills)
  <1> DEFINE order == [type |-> "order", id |-> o, at |-> new.orders[o]]
             fill == [type |-> "fill", id |-> Len(new.fills), at |-> 1]
             money == [type |-> "balances.changed", id |-> 0, at |-> 0]
  <1>0. hook = "orders" \/ hook = "fills"
    BY Zenon DEF account, Lists
  <1>1. order \in Messages /\ fill \in Messages /\ money \in Messages
    <2>1. 0 \in Nat /\ 1 \in Nat
      BY SMT
    <2> QED
      BY <2>1, Zenon DEF Messages, RowMessages
  <1>2. /\ order.type = "order" /\ order.id = o /\ order.at = new.orders[o]
        /\ fill.type = "fill" /\ fill.id = Len(new.fills) /\ fill.at = 1
        /\ money.type = "balances.changed"
    BY Zenon
  <1>3. "order" \in RowMessages /\ "fill" \in RowMessages /\ "balances.changed" \notin RowMessages
    BY SMT DEF RowMessages
  <1>4. ms = (IF hook = "orders" THEN <<order>> ELSE IF fills THEN <<fill>> ELSE << >>) \o <<money>>
    BY Zenon DEF messagesFor
  <1> HIDE DEF order, fill, money
  <1>5. CASE hook = "orders"
    <2>1. ms = <<order>> \o <<money>>
      BY <1>4, <1>5, Zenon
    <2>2. ms \in Seq(Messages) /\ DOMAIN ms = {1, 2} /\ ms[1] = order /\ ms[2] = money
      BY <1>1, <2>1, SMT
    <2>3. hook # "fills"
      BY <1>5, SMT
    <2>4. 1 \in DOMAIN ms /\ 2 \in DOMAIN ms /\ \A k \in DOMAIN ms : k = 1 \/ k = 2
      BY <2>2, Zenon
    <2>5. \A k \in DOMAIN ms : ms[k].type \in RowMessages => k = 1
      BY <1>2, <1>3, <2>2, <2>4, Zenon
    <2>6. /\ ms[1].type = "order" /\ ms[1].id = o /\ ms[1].at = new.orders[o]
          /\ ms[2].type = "balances.changed"
      BY <1>2, <2>2, Zenon
    <2> QED
      BY <1>3, <1>5, <2>2, <2>3, <2>4, <2>5, <2>6, Zenon DEF Said
  <1>6. CASE hook = "fills" /\ fills
    <2>0. hook # "orders"
      BY <1>6, SMT
    <2>1. ms = <<fill>> \o <<money>>
      BY <1>4, <1>6, <2>0, Zenon
    <2>2. ms \in Seq(Messages) /\ DOMAIN ms = {1, 2} /\ ms[1] = fill /\ ms[2] = money
      BY <1>1, <2>1, SMT
    <2>4. 1 \in DOMAIN ms /\ 2 \in DOMAIN ms /\ \A k \in DOMAIN ms : k = 1 \/ k = 2
      BY <2>2, Zenon
    <2>5. \A k \in DOMAIN ms : ms[k].type \in RowMessages => k = 1
      BY <1>2, <1>3, <2>2, <2>4, Zenon
    <2>6. /\ ms[1].type = "fill" /\ ms[1].id = Len(new.fills) /\ ms[1].at = 1
          /\ ms[2].type = "balances.changed"
      BY <1>2, <2>2, Zenon
    <2> QED
      BY <1>3, <1>6, <2>0, <2>2, <2>4, <2>5, <2>6, Zenon DEF Said
  <1>7. CASE hook = "fills" /\ ~fills
    <2>0. hook # "orders"
      BY <1>7, SMT
    <2>1. ms = << >> \o <<money>>
      BY <1>4, <1>7, <2>0, Zenon
    <2> DEFINE none == << >>
               one == <<money>>
    <2>2. /\ none \in Seq(Messages) /\ Len(none) = 0
          /\ one \in Seq(Messages) /\ Len(one) = 1 /\ one[1] = money
      BY <1>1, SMT
    <2> HIDE DEF none, one
    <2>3. ms = none \o one
      BY <2>1 DEF none, one
    <2>4. ms \in Seq(Messages) /\ DOMAIN ms = {1} /\ ms[1] = money
      <3>1. ms \in Seq(Messages) /\ Len(ms) = 1
        BY <2>2, <2>3, SMT
      <3>2. DOMAIN ms = 1 .. 1
        BY <3>1, SMT
      <3>3. ms[1] = one[1]
        <4>1. 1 \in DOMAIN one
          BY <2>2, SMT
        <4>2. (none \o one)[Len(none) + 1] = one[1]
          BY <2>2, <4>1, Joined, Zenon
        <4>3. Len(none) + 1 = 1
          BY <2>2, SMT
        <4> QED
          BY <2>3, <4>2, <4>3, Zenon
      <3> QED
        BY <2>2, <3>1, <3>2, <3>3, SMT
    <2> QED
      BY <1>2, <1>3, <1>7, <2>0, <2>4, Zenon DEF Said
  <1> QED
    BY <1>0, <1>5, <1>6, <1>7, Zenon

\* The requests in flight when cluster c's record changes: those that hold
\* part of its answer are marked.
LEMMA ChangeMarks ==
  ASSUME ScreenTypes, NEW c,
         flight' = {IF r.cluster = c /\ r.got # << >> THEN [r EXCEPT !.overtaken = TRUE]
                    ELSE r : r \in flight}
  PROVE  /\ \A s \in flight' : \E t \in flight :
              Marked(s, t) /\ (t.cluster = c /\ t.got # << >> => s.overtaken)
         /\ \A t \in flight : \E s \in flight' : Marked(s, t)
  <1> DEFINE f(t) == IF t.cluster = c /\ t.got # << >> THEN [t EXCEPT !.overtaken = TRUE] ELSE t
  <1>1. flight' = {f(t) : t \in flight}
    BY Zenon
  <1>2. ASSUME NEW t \in flight
        PROVE  Marked(f(t), t) /\ (t.cluster = c /\ t.got # << >> => f(t).overtaken)
    <2>1. IsRequest(t)
      BY Zenon DEF ScreenTypes
    <2>2. Marked(t, t) /\ Marked([t EXCEPT !.overtaken = TRUE], t)
          /\ [t EXCEPT !.overtaken = TRUE].overtaken
      BY <2>1, MarkIsMarked, Zenon
    <2>3. CASE t.cluster = c /\ t.got # << >>
      BY <2>2, <2>3, Zenon
    <2>4. CASE ~(t.cluster = c /\ t.got # << >>)
      BY <2>2, <2>4, Zenon
    <2> QED
      BY <2>3, <2>4, Zenon
  <1> HIDE DEF f
  <1> QED
    BY <1>1, <1>2, Zenon

\* What is said of a change of the network's record makes up for it.
LEMMA NewsFollows ==
  ASSUME ScreenInv, account, socket.open, NEW new, NEW o \in Nat, NEW fills \in BOOLEAN, NEW ms,
         Grows(record[network], new, o, fills), Said(ms, new, o, fills),
         socket'.queue = socket.queue \o ms,
         record'[network] = new, hook' = hook, network' = network, screen' = screen
  PROVE  MessagesConverge' /\ MoneyFollows' /\ (ListFollows => ListFollows')
  <1>0. hook = "orders" \/ (hook = "fills" /\ hook # "orders")
    BY SMT DEF account, Lists
  <1> DEFINE rows == rowsNow
             rows2 == new[hook]
             q == socket.queue
             q2 == socket'.queue
  <1>1. rowsNow' = rows2 /\ rows = record[network][hook]
    BY Zenon DEF rowsNow
  <1>3. /\ \A k \in DOMAIN q : k \in DOMAIN q2 /\ q2[k] = q[k]
        /\ \A k \in DOMAIN ms : Len(q) + k \in DOMAIN q2 /\ q2[Len(q) + k] = ms[k]
        /\ \A k \in DOMAIN q2 : k \in DOMAIN q \/ \E j \in DOMAIN ms : k = Len(q) + j /\ q2[k] = ms[j]
        /\ \A k \in DOMAIN ms, j \in DOMAIN q : Len(q) + k > j
    <2> DEFINE j2 == q \o ms
    <2>1. q \in Seq(Messages) /\ ms \in Seq(Messages)
      BY Zenon DEF ScreenInv, ScreenTypes, Said
    <2>2. /\ \A k \in DOMAIN q : k \in DOMAIN j2 /\ j2[k] = q[k]
          /\ \A k \in DOMAIN ms : Len(q) + k \in DOMAIN j2 /\ j2[Len(q) + k] = ms[k]
          /\ \A k \in DOMAIN j2 : k \in DOMAIN q \/ \E j \in DOMAIN ms : k = Len(q) + j /\ j2[k] = ms[j]
          /\ \A k \in DOMAIN ms, j \in DOMAIN q : Len(q) + k > j
      BY <2>1, Joined, Zenon
    <2>3. q2 = j2
      BY Zenon
    <2> HIDE DEF j2
    <2> QED
      BY <2>2, <2>3, Zenon
  <1>5. \A i : RowPending(i) => RowPending(i)'
    BY <1>3, Zenon DEF RowPending
  <1>6. hook = "orders" => RowPending(o)'
    <2> SUFFICES ASSUME hook = "orders" PROVE RowPending(o)'
      OBVIOUS
    <2>1. PICK k \in DOMAIN ms : ms[k].type \in RowMessages /\ ms[k].id = o
      BY Zenon DEF Said
    <2> QED
      BY <1>3, <2>1, Zenon DEF RowPending
  <1>7. \A n : hook = "fills" /\ fills /\ n = Len(new.fills) => RowPending(n)'
    <2> SUFFICES ASSUME hook = "fills", fills, NEW n, n = Len(new.fills) PROVE RowPending(n)'
      OBVIOUS
    <2>1. PICK k \in DOMAIN ms : ms[k].type \in RowMessages /\ ms[k].id = n
      BY Zenon DEF Said
    <2>2. PICK j \in DOMAIN q2 : q2[j] = ms[k]
      BY <1>3, Zenon
    <2>3. q2[j].type \in RowMessages /\ q2[j].id = n
      BY <2>1, <2>2, Zenon
    <2> QED
      BY <2>3, Zenon DEF RowPending
  <1>8. /\ DOMAIN rows \subseteq DOMAIN rows2
        /\ \A i \in DOMAIN rows : rows2[i] = rows[i] \/ (hook = "orders" /\ i = o)
        /\ \A i \in DOMAIN rows2 : i \in DOMAIN rows \/ RowPending(i)'
    <2>1. CASE hook = "orders"
      <3>1. rows = record[network].orders /\ rows2 = new.orders
        BY <1>1, <2>1, Zenon
      <3> QED
        BY <1>6, <2>1, <3>1, Zenon DEF Grows
    <2>2. CASE hook = "fills"
      <3>1. rows = record[network].fills /\ rows2 = new.fills
        BY <1>1, <2>2, Zenon
      <3>2. \A i \in DOMAIN rows2 : i \in DOMAIN rows \/ (fills /\ i = Len(new.fills))
        BY <3>1 DEF Grows
      <3> QED
        BY <1>7, <2>2, <3>1, <3>2, Zenon DEF Grows
    <2> QED
      BY <1>0, <2>1, <2>2, Zenon
  <1>9. MoneyFollows'
    <2>1. PICK k \in DOMAIN ms : ms[k].type = "balances.changed"
      BY Zenon DEF Said
    <2> QED
      BY <1>3, <2>1, Zenon DEF MoneyFollows
  <1> HIDE DEF rows2, rows
  <1>10. ListFollows => ListFollows'
    <2> SUFFICES ASSUME ListFollows PROVE ListFollows'
      OBVIOUS
    <2>1. ASSUME NEW i \in DOMAIN screen.list.rows
          PROVE  /\ i \in DOMAIN rows2
                 /\ screen.list.rows[i] = rows2[i] \/ (hook = "orders" /\ RowPending(i)')
      <3>1. /\ i \in DOMAIN rows
            /\ screen.list.rows[i] = rows[i] \/ (hook = "orders" /\ RowPending(i))
        BY Zenon DEF ListFollows, rows
      <3> QED
        BY <1>5, <1>6, <1>8, <3>1, Zenon
    <2>2. ASSUME NEW i \in DOMAIN rows2, i >= screen.list.cursor
          PROVE  i \in DOMAIN screen.list.rows \/ RowPending(i)'
      BY <1>5, <1>8, <2>2, Zenon DEF ListFollows, rows
    <2> QED
      BY <1>1, <2>1, <2>2, Zenon DEF ListFollows
  <1>11. MessagesConverge'
    <2> SUFFICES ASSUME NEW k \in DOMAIN q2, q2[k].type \in RowMessages
                 PROVE  /\ q2[k].id \in DOMAIN rows2 /\ (q2[k].type = "fill" => hook # "orders")
                        /\ \/ q2[k].at = rows2[q2[k].id]
                           \/ /\ hook = "orders"
                              /\ \E j \in DOMAIN q2 : /\ j > k /\ q2[j].type \in RowMessages
                                                      /\ q2[j].id = q2[k].id
      BY <1>1, Zenon DEF MessagesConverge
    <2>1. CASE k \in DOMAIN q
      <3>0. q2[k] = q[k]
        BY <1>3, <2>1, Zenon
      <3>1. /\ q[k].id \in DOMAIN rows /\ (q[k].type = "fill" => hook # "orders")
            /\ \/ q[k].at = rows[q[k].id]
               \/ /\ hook = "orders"
                  /\ \E j \in DOMAIN q : /\ j > k /\ q[j].type \in RowMessages
                                         /\ q[j].id = q[k].id
        BY <2>1, <3>0, Zenon DEF ScreenInv, MessagesConverge, rows
      <3>2. CASE hook = "orders" /\ q[k].id = o
        <4>1. PICK j \in DOMAIN ms : ms[j].type \in RowMessages /\ ms[j].id = o
          BY <3>2, Zenon DEF Said
        <4>2. /\ Len(q) + j \in DOMAIN q2 /\ q2[Len(q) + j] = ms[j] /\ Len(q) + j > k
          BY <1>3, <2>1, Zenon
        <4> QED
          BY <1>8, <3>0, <3>1, <3>2, <4>1, <4>2, Zenon
      <3>3. CASE ~(hook = "orders" /\ q[k].id = o)
        <4>1. rows2[q[k].id] = rows[q[k].id]
          BY <1>8, <3>1, <3>3, Zenon
        <4>2. \A j \in DOMAIN q : j \in DOMAIN q2 /\ q2[j] = q[j]
          BY <1>3, Zenon
        <4> QED
          BY <1>8, <3>0, <3>1, <4>1, <4>2, Zenon
      <3> QED
        BY <3>2, <3>3, Zenon
    <2>2. CASE k \notin DOMAIN q
      <3>1. PICK j \in DOMAIN ms : k = Len(q) + j /\ q2[k] = ms[j]
        BY <1>3, <2>2, Zenon
      <3>2. CASE hook = "orders"
        <4>1. ms[j].type = "order" /\ ms[j].id = o /\ ms[j].at = new.orders[o]
          <5>1. hook # "fills"
            BY <3>2, SMT
          <5> QED
            BY <3>1, <5>1, Zenon DEF Said
        <4>2. rows2 = new.orders
          BY <3>2, Zenon DEF rows2
        <4>3. ms[j].type # "fill"
          BY <4>1, SMT
        <4> QED
          BY <3>1, <4>1, <4>2, <4>3, Zenon DEF Grows
      <3>3. CASE hook = "fills"
        <4>1. hook # "orders"
          BY <3>3, SMT
        <4>2. fills /\ ms[j].id = Len(new.fills) /\ ms[j].at = 1
          BY <3>1, <4>1, Zenon DEF Said
        <4>3. rows2 = new.fills
          BY <3>3, Zenon DEF rows2
        <4>4. ms[j].id \in DOMAIN rows2 /\ ms[j].at = rows2[ms[j].id]
          BY <4>2, <4>3, Zenon DEF Grows
        <4> QED
          BY <3>1, <4>1, <4>4, Zenon
      <3> QED
        BY <1>0, <3>2, <3>3, Zenon
    <2> QED
      BY <2>1, <2>2, Zenon
  <1> QED
    BY <1>9, <1>10, <1>11, Zenon

\* A cluster's record changes, on the network shown or on another.
LEMMA ScreenRecords ==
  ASSUME ScreenInv, recordChanges
  PROVE  ScreenInv'
  <1>0. hook' = hook /\ network' = network /\ screen' = screen /\ doubt' = doubt
    BY Zenon DEF recordChanges
  <1>1. PICK c \in Clusters, fills \in IF hook = "fills" THEN BOOLEAN ELSE {FALSE} :
          \E o \in IF hook = "orders" THEN 1 .. Len(record[c].orders) + 1 ELSE {1} :
            LET old == record[c]
                orders == IF o \in DOMAIN old.orders THEN [old.orders EXCEPT ![o] = @ + 1]
                          ELSE Append(old.orders, 1)
                new == [orders |-> orders, money |-> old.money + 1,
                        fills |-> IF fills THEN Append(old.fills, 1) ELSE old.fills]
            IN  /\ old.money < MaxChanges
                /\ record' = [record EXCEPT ![c] = new]
                /\ socket' = [socket EXCEPT !.queue = @ \o messagesFor(c, o, fills, new)]
                /\ flight' = {IF r.cluster = c /\ r.got # << >> THEN [r EXCEPT !.overtaken = TRUE]
                              ELSE r : r \in flight}
    BY Zenon DEF recordChanges
  <1> DEFINE old == record[c]
             ordersAfter(o) == IF o \in DOMAIN old.orders THEN [old.orders EXCEPT ![o] = @ + 1]
                               ELSE Append(old.orders, 1)
             newAfter(o) == [orders |-> ordersAfter(o), money |-> old.money + 1,
                             fills |-> IF fills THEN Append(old.fills, 1) ELSE old.fills]
  <1>2. PICK o \in IF hook = "orders" THEN 1 .. Len(old.orders) + 1 ELSE {1} :
          /\ record' = [record EXCEPT ![c] = newAfter(o)]
          /\ socket' = [socket EXCEPT !.queue = @ \o messagesFor(c, o, fills, newAfter(o))]
          /\ flight' = {IF r.cluster = c /\ r.got # << >> THEN [r EXCEPT !.overtaken = TRUE]
                        ELSE r : r \in flight}
    BY <1>1, Zenon
  <1> DEFINE new == newAfter(o)
             orders == ordersAfter(o)
             ms == messagesFor(c, o, fills, new)
             q == socket.queue
  <1>3. old \in Records /\ ScreenTypes /\ network \in Clusters /\ q \in Seq(Messages)
    BY Zenon DEF ScreenInv, ScreenTypes
  <1>4. o \in Nat /\ o \in 1 .. Len(old.orders) + 1 /\ fills \in BOOLEAN
    <2>1. old.orders \in Seq(Nat)
      BY <1>3, Zenon DEF Records
    <2>2. Len(old.orders) \in Nat
      BY <2>1, SMT
    <2>3. fills \in BOOLEAN
      BY Zenon
    <2>4. o \in 1 .. Len(old.orders) + 1
      BY <2>2, SMT
    <2> QED
      BY <2>2, <2>3, <2>4, SMT
  <1>5. Grows(old, new, o, fills)
    <2>1. orders = IF o \in DOMAIN old.orders THEN [old.orders EXCEPT ![o] = @ + 1]
                   ELSE Append(old.orders, 1)
      BY Zenon
    <2>2. new = [orders |-> orders, money |-> old.money + 1,
                 fills |-> IF fills THEN Append(old.fills, 1) ELSE old.fills]
      BY Zenon
    <2> HIDE DEF new, orders, old
    <2> QED
      BY <1>3, <1>4, <2>1, <2>2, ChangeGrows, Zenon
  <1>6. /\ record' = [record EXCEPT ![c] = new]
        /\ socket' = [socket EXCEPT !.queue = q \o ms]
    BY <1>2, Zenon
  <1> HIDE DEF new, orders, old, newAfter, ordersAfter, ms
  <1>7. /\ record' \in [Clusters -> Records] /\ record'[c] = new
        /\ \A d \in Clusters : d # c => record'[d] = record[d]
    BY <1>3, <1>5, <1>6, Zenon DEF ScreenTypes, Grows
  <1>8. /\ \A s \in flight' : \E t \in flight :
              Marked(s, t) /\ (t.cluster = c /\ t.got # << >> => s.overtaken)
        /\ \A t \in flight : \E s \in flight' : Marked(s, t)
    BY <1>2, <1>3, ChangeMarks, Zenon
  <1>a. account /\ socket.open /\ c = network => Said(ms, new, o, fills)
    <2> SUFFICES ASSUME account, socket.open, c = network PROVE Said(ms, new, o, fills)
      OBVIOUS
    <2>1. ms = messagesFor(network, o, fills, new)
      BY Zenon DEF ms
    <2>2. new.orders[o] \in Nat /\ Len(new.fills) \in Nat
      BY <1>5, Zenon DEF Grows
    <2> QED
      BY <1>4, <2>1, <2>2, MessagesAreSaid, Zenon
  <1>9. ms \in Seq(Messages)
    <2>1. CASE ~account \/ ~socket.open \/ c # network
      <3>1. ms = << >>
        BY <2>1, Zenon DEF messagesFor, ms
      <3> QED
        BY <3>1
    <2>2. CASE account /\ socket.open /\ c = network
      BY <1>a, <2>2, Zenon DEF Said
    <2> QED
      BY <2>1, <2>2, Zenon
  <1>10. /\ socket' \in [open : BOOLEAN, queue : Seq(Messages)]
         /\ socket'.open = socket.open /\ socket'.queue = q \o ms
    <2>1. q \o ms \in Seq(Messages)
      BY <1>3, <1>9, Joined, Zenon
    <2>2. socket \in [open : BOOLEAN, queue : Seq(Messages)]
      BY <1>3, Zenon DEF ScreenTypes
    <2> QED
      BY <1>6, <2>1, <2>2, Zenon
  <1>11. ScreenTypes'
    <2>1. \A s \in flight' : IsRequest(s)
      BY <1>8, Zenon DEF Marked
    <2>2. account \/ socket'.queue = << >>
      <3> SUFFICES ASSUME ~account PROVE socket'.queue = << >>
        OBVIOUS
      <3>1. q = << >> /\ ms = << >>
        BY <1>3, Zenon DEF messagesFor, ms, ScreenTypes
      <3> QED
        BY <1>10, <3>1
    <2> QED
      BY <1>0, <1>3, <1>7, <1>10, <2>1, <2>2, TypesKept, Zenon DEF ScreenTypes
  <1>12. RepliesAreCurrent'
    <2> SUFFICES ASSUME NEW s \in flight', ~s.overtaken, NEW p \in DOMAIN s.got
                 PROVE  s.got[p] = answerOf(s, p)'
      BY Zenon DEF RepliesAreCurrent
    <2>1. PICK t \in flight : Marked(s, t) /\ (t.cluster = c /\ t.got # << >> => s.overtaken)
      BY <1>8, Zenon
    <2>2. s.got = t.got /\ s.cluster = t.cluster /\ s.before = t.before /\ ~t.overtaken
      BY <2>1, Zenon DEF Marked
    <2>3. t.got # << >>
      BY <2>2, EmptyGot, Zenon
    <2>4. s.cluster # c /\ s.cluster \in Clusters
      BY <2>1, <2>2, <2>3, Zenon DEF Marked, IsRequest
    <2>5. t.got[p] = answerOf(t, p)
      BY <2>2, Zenon DEF ScreenInv, RepliesAreCurrent
    <2>6. record'[s.cluster] = record[t.cluster]
      BY <1>7, <2>2, <2>4, Zenon
    <2> QED
      BY <1>0, <2>2, <2>5, <2>6, Zenon DEF answerOf
  <1>13. Reloading => Reloading'
    <2> SUFFICES ASSUME NEW t \in flight, t.kind = "refresh", t.cluster = network
                 PROVE  Reloading'
      BY Zenon DEF Reloading
    <2>1. PICK s \in flight' : Marked(s, t)
      BY <1>8, Zenon
    <2> QED
      BY <1>0, <2>1, Zenon DEF Reloading, Marked
  <1>14. account /\ ~doubt => PagesContinue'
    <2> SUFFICES ASSUME account, ~doubt,
                        NEW s \in flight', s.kind = "more", ~s.overtaken, s.cluster = network
                 PROVE  s.before = screen.list.cursor \/ Reloading'
      BY <1>0, Zenon DEF PagesContinue
    <2>1. PICK t \in flight : Marked(s, t)
      BY <1>8, Zenon
    <2>2. t.kind = "more" /\ ~t.overtaken /\ t.cluster = network /\ t.before = s.before
      BY <2>1, Zenon DEF Marked
    <2> QED
      BY <1>13, <2>2, Zenon DEF ScreenInv, PagesContinue
  <1>15. (account' <=> account) /\ (socket'.open <=> socket.open) /\ (doubt' <=> doubt)
    BY <1>0, <1>10 DEF account
  <1>16. ASSUME account, socket.open, c # network
         PROVE  /\ MessagesConverge'
                /\ ~doubt => MoneyFollows' /\ (ListFollows' \/ Reloading')
    <2>1. ms = << >>
      BY <1>16, Zenon DEF messagesFor, ms
    <2>2. socket'.queue = q
      BY <1>3, <1>10, <2>1
    <2>3. record'[network] = record[network] /\ rowsNow' = rowsNow
      BY <1>0, <1>3, <1>7, <1>16, Zenon DEF rowsNow
    <2>4. MessagesConverge'
      BY <1>0, <1>16, <2>2, <2>3, Zenon DEF ScreenInv, MessagesConverge
    <2>5. MoneyFollows => MoneyFollows'
      <3>1. ASSUME NEW t \in flight, t.cluster = network, "money" \in partsOf(t.kind),
                   "money" \in DOMAIN t.got => t.got["money"] = record[network].money
            PROVE  MoneyFollows'
        <4>1. PICK s \in flight' : Marked(s, t)
          BY <1>8, Zenon
        <4>2. /\ s.cluster = network' /\ "money" \in partsOf(s.kind)
              /\ "money" \in DOMAIN s.got => s.got["money"] = record'[network'].money
          BY <1>0, <2>3, <3>1, <4>1, Zenon DEF Marked
        <4> QED
          BY <4>2, Zenon DEF MoneyFollows
      <3> QED
        BY <1>0, <2>2, <2>3, <3>1, Zenon DEF MoneyFollows
    <2>6. ListFollows => ListFollows'
      <3>1. \A i : RowPending(i)' <=> RowPending(i)
        BY <2>2 DEF RowPending
      <3> QED
        BY <1>0, <2>3, <3>1, Zenon DEF ListFollows
    <2> QED
      BY <1>13, <1>16, <2>4, <2>5, <2>6, Zenon DEF ScreenInv
  <1>17. ASSUME account, socket.open, c = network
         PROVE  /\ MessagesConverge'
                /\ ~doubt => MoneyFollows' /\ (ListFollows' \/ Reloading')
    <2>1. Grows(record[network], new, o, fills) /\ record'[network] = new
      BY <1>5, <1>7, <1>17, Zenon DEF old
    <2>2. MessagesConverge' /\ MoneyFollows' /\ (ListFollows => ListFollows')
      BY <1>0, <1>4, <1>a, <1>10, <1>17, <2>1, NewsFollows, Zenon
    <2> QED
      BY <1>13, <1>17, <2>2, Zenon DEF ScreenInv
  <1> QED
    BY <1>11, <1>12, <1>14, <1>15, <1>16, <1>17, Zenon DEF ScreenInv

\* What is left in the queue when its first message is taken.
IsRest(rest, q) ==
  /\ 1 \in DOMAIN q /\ Head(q) = q[1]
  /\ \A k \in DOMAIN q : k # 1 => k - 1 \in DOMAIN rest /\ rest[k - 1] = q[k]
  /\ \A k \in DOMAIN rest : k + 1 \in DOMAIN q /\ k + 1 # 1 /\ rest[k] = q[k + 1]
  /\ \A k \in DOMAIN rest, j \in DOMAIN q : j > k + 1 => j # 1 /\ j - 1 > k
  /\ \A j \in DOMAIN q : j > 1 => j # 1

LEMMA Taken ==
  ASSUME NEW q \in Seq(Messages), q # << >>
  PROVE  Tail(q) \in Seq(Messages) /\ IsRest(Tail(q), q)
  <1>1. /\ Tail(q) \in Seq(Messages) /\ Len(q) \in Nat /\ Len(q) >= 1 /\ Head(q) = q[1]
        /\ DOMAIN q = 1 .. Len(q) /\ DOMAIN Tail(q) = 1 .. Len(q) - 1
    OBVIOUS
  <1>2. \A k \in 1 .. Len(q) - 1 : Tail(q)[k] = q[k + 1]
    OBVIOUS
  <1>3. \A k \in DOMAIN q : k # 1 => k - 1 \in DOMAIN Tail(q) /\ Tail(q)[k - 1] = q[k]
    BY <1>1, <1>2, SMT
  <1>4. \A k \in DOMAIN Tail(q) : k + 1 \in DOMAIN q /\ k + 1 # 1 /\ Tail(q)[k] = q[k + 1]
    BY <1>1, <1>2, SMT
  <1>5. \A k \in DOMAIN Tail(q), j \in DOMAIN q : j > k + 1 => j # 1 /\ j - 1 > k
    BY <1>1, SMT
  <1>6. 1 \in DOMAIN q /\ \A j \in DOMAIN q : j > 1 => j # 1
    BY <1>1, SMT
  <1> QED
    BY <1>1, <1>3, <1>4, <1>5, <1>6, Zenon DEF IsRest

LEMMA ReplacedIsPage ==
  ASSUME NEW list \in Pages, NEW m \in Messages
  PROVE  /\ replaced(list, m) \in Pages
         /\ replaced(list, m).cursor = list.cursor
         /\ DOMAIN replaced(list, m).rows = DOMAIN list.rows \cup {m.id}
         /\ replaced(list, m).rows[m.id] = m.at
         /\ \A i \in DOMAIN list.rows : i # m.id => replaced(list, m).rows[i] = list.rows[i]
  <1> DEFINE D == DOMAIN list.rows \cup {m.id}
             R == [i \in D |-> IF i = m.id THEN m.at ELSE list.rows[i]]
             both == replaced(list, m)
  <1>1. both = [list EXCEPT !.rows = R]
    BY Zenon DEF replaced
  <1>2. list.rows \in RowLists /\ list.cursor \in Nat /\ m.id \in Nat /\ m.at \in Nat
    BY Zenon DEF Pages, Messages
  <1>3. DOMAIN list.rows \in SUBSET Nat /\ \A i \in DOMAIN list.rows : list.rows[i] \in Nat
    BY <1>2, RowListMeans, Zenon
  <1>4. R \in [D -> Nat] /\ D \in SUBSET Nat
    BY <1>2, <1>3, Zenon
  <1>5. R \in RowLists
    BY <1>4, Zenon DEF RowLists
  <1>6. DOMAIN R = D /\ R[m.id] = m.at /\ \A i \in DOMAIN list.rows : i # m.id => R[i] = list.rows[i]
    BY Zenon
  <1> HIDE DEF R, both
  <1>7. both \in Pages /\ both.rows = R /\ both.cursor = list.cursor
    BY <1>1, <1>5, Zenon DEF Pages
  <1>8. /\ both \in Pages /\ both.cursor = list.cursor
        /\ DOMAIN both.rows = DOMAIN list.rows \cup {m.id} /\ both.rows[m.id] = m.at
        /\ \A i \in DOMAIN list.rows : i # m.id => both.rows[i] = list.rows[i]
    BY <1>6, <1>7, Zenon
  <1> QED
    BY <1>8, Zenon DEF both

\* The messages behind the first one keep their meaning when it is taken.
LEMMA MessagesMove ==
  ASSUME MessagesConverge, NEW m, m = Head(socket.queue), IsRest(socket'.queue, socket.queue),
         hook' = hook, network' = network, record' = record
  PROVE  /\ MessagesConverge'
         /\ \A i : RowPending(i) => RowPending(i)' \/ (m.type \in RowMessages /\ i = m.id)
  <1> DEFINE q == socket.queue
             rest == socket'.queue
  <1>0. rowsNow' = rowsNow
    BY Zenon DEF rowsNow
  <1>4. \A i : RowPending(i) => RowPending(i)' \/ (m.type \in RowMessages /\ i = m.id)
    <2> SUFFICES ASSUME NEW i, NEW k \in DOMAIN q, q[k].type \in RowMessages, q[k].id = i,
                        ~(m.type \in RowMessages /\ i = m.id)
                 PROVE  RowPending(i)'
      BY Zenon DEF RowPending
    <2>0. m = q[1]
      BY Zenon DEF IsRest
    <2>1. k # 1
      BY <2>0, Zenon
    <2> QED
      BY <2>1, Zenon DEF RowPending, IsRest
  <1>5. MessagesConverge'
    <2> SUFFICES ASSUME NEW k \in DOMAIN rest, rest[k].type \in RowMessages
                 PROVE  /\ rest[k].id \in DOMAIN rowsNow /\ (rest[k].type = "fill" => hook # "orders")
                        /\ \/ rest[k].at = rowsNow[rest[k].id]
                           \/ /\ hook = "orders"
                              /\ \E j \in DOMAIN rest : /\ j > k /\ rest[j].type \in RowMessages
                                                        /\ rest[j].id = rest[k].id
      BY <1>0, Zenon DEF MessagesConverge
    <2>1. k + 1 \in DOMAIN q /\ rest[k] = q[k + 1]
      BY Zenon DEF IsRest
    <2>2. /\ rest[k].id \in DOMAIN rowsNow /\ (rest[k].type = "fill" => hook # "orders")
          /\ \/ rest[k].at = rowsNow[rest[k].id]
             \/ /\ hook = "orders"
                /\ \E j \in DOMAIN q : /\ j > k + 1 /\ q[j].type \in RowMessages
                                       /\ q[j].id = rest[k].id
      BY <2>1, Zenon DEF MessagesConverge
    <2>3. ASSUME NEW j \in DOMAIN q, j > k + 1, q[j].type \in RowMessages, q[j].id = rest[k].id
          PROVE  \E i \in DOMAIN rest : i > k /\ rest[i].type \in RowMessages /\ rest[i].id = rest[k].id
      <3>1. j # 1 /\ j - 1 > k
        BY <2>3, Zenon DEF IsRest
      <3>2. j - 1 \in DOMAIN rest /\ rest[j - 1] = q[j]
        BY <3>1, Zenon DEF IsRest
      <3> QED
        BY <2>3, <3>1, <3>2, Zenon
    <2> QED
      BY <2>2, <2>3, Zenon
  <1> QED
    BY <1>4, <1>5, Zenon

\* A message about a row is handled: the row is put on screen, or was there.
LEMMA RowArrives ==
  ASSUME ScreenInv, account, socket.open, socket.queue # << >>,
         NEW m, m = Head(socket.queue), m.type \in RowMessages,
         socket'.queue = Tail(socket.queue), UNCHANGED <<hook, network, record, flight>>,
         screen'.money = screen.money, screen'.list.cursor = screen.list.cursor,
         DOMAIN screen'.list.rows = DOMAIN screen.list.rows \cup {m.id},
         \A i \in DOMAIN screen.list.rows : i # m.id => screen'.list.rows[i] = screen.list.rows[i],
         \/ screen'.list.rows[m.id] = m.at
         \/ m.type = "fill" /\ m.id \in DOMAIN screen.list.rows /\ screen' = screen
  PROVE  /\ MessagesConverge'
         /\ MoneyFollows => MoneyFollows'
         /\ ListFollows => ListFollows'
  <1> DEFINE q == socket.queue
             rest == socket'.queue
  <1>0. /\ hook' = hook /\ network' = network /\ record' = record /\ flight' = flight
        /\ rowsNow' = rowsNow
    BY Zenon DEF rowsNow
  <1>1. q \in Seq(Messages)
    BY Zenon DEF ScreenInv, ScreenTypes
  <1>2. IsRest(rest, q) /\ m = q[1]
    <2>1. IsRest(Tail(q), q)
      BY <1>1, Taken, Zenon
    <2> QED
      BY <2>1, Zenon DEF IsRest
  <1>3. MessagesConverge
    BY Zenon DEF ScreenInv
  <1>4. /\ MessagesConverge'
        /\ \A i : RowPending(i) => RowPending(i)' \/ i = m.id
    BY <1>0, <1>2, <1>3, MessagesMove, Zenon
  <1>6. MoneyFollows => MoneyFollows'
    <2>1. ASSUME NEW k \in DOMAIN q, q[k].type = "balances.changed"
          PROVE  MoneyFollows'
      <3>1. q[1].type # "balances.changed"
        BY <1>2, SMT DEF RowMessages
      <3>2. k - 1 \in DOMAIN rest /\ rest[k - 1] = q[k]
        BY <1>2, <2>1, <3>1, Zenon DEF IsRest
      <3> QED
        BY <2>1, <3>2, Zenon DEF MoneyFollows
    <2> QED
      BY <1>0, <2>1, Zenon DEF MoneyFollows
  <1>7. ListFollows => ListFollows'
    <2> SUFFICES ASSUME ListFollows PROVE ListFollows'
      OBVIOUS
    <2>1. /\ m.id \in DOMAIN rowsNow /\ (m.type = "fill" => hook # "orders")
          /\ \/ m.at = rowsNow[m.id]
             \/ /\ hook = "orders"
                /\ \E j \in DOMAIN q : j > 1 /\ q[j].type \in RowMessages /\ q[j].id = m.id
      <3>1. 1 \in DOMAIN q /\ q[1].type \in RowMessages
        BY <1>2, Zenon DEF IsRest
      <3>2. /\ q[1].id \in DOMAIN rowsNow /\ (q[1].type = "fill" => hook # "orders")
            /\ \/ q[1].at = rowsNow[q[1].id]
               \/ /\ hook = "orders"
                  /\ \E j \in DOMAIN q : j > 1 /\ q[j].type \in RowMessages /\ q[j].id = q[1].id
        BY <1>3, <3>1, Zenon DEF MessagesConverge
      <3> QED
        BY <1>2, <3>2, Zenon
    <2>2. screen'.list.rows[m.id] = rowsNow[m.id] \/ (hook = "orders" /\ RowPending(m.id)')
      <3>1. CASE m.type = "fill" /\ m.id \in DOMAIN screen.list.rows /\ screen' = screen
        BY <2>1, <3>1, Zenon DEF ListFollows
      <3>2. CASE screen'.list.rows[m.id] = m.at
        <4>1. ASSUME NEW j \in DOMAIN q, j > 1, q[j].type \in RowMessages, q[j].id = m.id
              PROVE  RowPending(m.id)'
          <5>1. j - 1 \in DOMAIN rest /\ rest[j - 1] = q[j]
            BY <1>2, <4>1, Zenon DEF IsRest
          <5>2. m.id' = m.id
            OBVIOUS
          <5> QED
            BY <4>1, <5>1, <5>2, Zenon DEF RowPending
        <4> QED
          BY <2>1, <3>2, <4>1, Zenon
      <3> QED
        BY <3>1, <3>2, Zenon
    <2>3. ASSUME NEW i \in DOMAIN screen'.list.rows
          PROVE  /\ i \in DOMAIN rowsNow
                 /\ screen'.list.rows[i] = rowsNow[i] \/ (hook = "orders" /\ RowPending(i)')
      <3>1. CASE i = m.id
        BY <2>1, <2>2, <3>1, Zenon
      <3>2. CASE i # m.id
        <4>1. i \in DOMAIN screen.list.rows /\ screen'.list.rows[i] = screen.list.rows[i]
          BY <3>2, Zenon
        <4>2. /\ i \in DOMAIN rowsNow
              /\ screen.list.rows[i] = rowsNow[i] \/ (hook = "orders" /\ RowPending(i))
          BY <4>1, Zenon DEF ListFollows
        <4> QED
          BY <1>4, <3>2, <4>1, <4>2, Zenon
      <3> QED
        BY <3>1, <3>2, Zenon
    <2>4. ASSUME NEW i \in DOMAIN rowsNow, i >= screen'.list.cursor
          PROVE  i \in DOMAIN screen'.list.rows \/ RowPending(i)'
      BY <1>4, <2>4, Zenon DEF ListFollows
    <2> QED
      BY <1>0, <2>3, <2>4, Zenon DEF ListFollows
  <1> QED
    BY <1>4, <1>6, <1>7, Zenon

\* A message is handled.
LEMMA ScreenHears ==
  ASSUME ScreenInv, onMessage
  PROVE  ScreenInv'
  <1> DEFINE q == socket.queue
             m == Head(q)
  <1>0. /\ hook' = hook /\ network' = network /\ record' = record /\ q # << >>
        /\ socket' = [socket EXCEPT !.queue = Tail(q)]
        /\ \/ /\ m.type = "order" /\ screen' = [screen EXCEPT !.list = replaced(@, m)]
              /\ flight' = flight /\ doubt' = doubt
           \/ /\ m.type = "fill"
              /\ screen' = IF m.id \in DOMAIN screen.list.rows THEN screen
                           ELSE [screen EXCEPT !.list = replaced(@, m)]
              /\ flight' = flight /\ doubt' = doubt
           \/ /\ m.type = "balances.changed"
              /\ flight' = flight \cup {sending("balances", NoCursor)}
              /\ screen' = screen /\ doubt' = doubt
    BY Zenon DEF onMessage
  <1>1. /\ ScreenTypes /\ q \in Seq(Messages) /\ network \in Clusters
        /\ screen \in [list : Pages, money : Int, loading : BOOLEAN, error : BOOLEAN]
        /\ socket \in [open : BOOLEAN, queue : Seq(Messages)] /\ doubt \in BOOLEAN
    BY Zenon DEF ScreenInv, ScreenTypes
  <1>2. Tail(q) \in Seq(Messages) /\ IsRest(Tail(q), q) /\ m = q[1] /\ 1 \in DOMAIN q
    BY <1>0, <1>1, Taken, Zenon DEF IsRest
  <1>3. m \in Messages
    <2>1. q[1] \in Messages
      BY <1>1, <1>2, SMT
    <2> QED
      BY <1>2, <2>1, Zenon
  <1>4. /\ socket' \in [open : BOOLEAN, queue : Seq(Messages)]
        /\ socket'.queue = Tail(q) /\ socket'.open = socket.open
    BY <1>0, <1>1, <1>2, Zenon
  <1> HIDE DEF m
  <1>a. account
    BY <1>0, <1>1, Zenon DEF ScreenTypes
  <1>5. (account' <=> account) /\ (socket'.open <=> socket.open) /\ (doubt' <=> doubt)
    BY <1>0, <1>4 DEF account
  <1>6. CASE m.type \in RowMessages
    <2>1. m.type # "balances.changed" /\ (m.type = "order" \/ m.type = "fill")
      BY <1>6, SMT DEF RowMessages
    <2> DEFINE list == replaced(screen.list, m)
    <2>2. /\ list \in Pages /\ list.cursor = screen.list.cursor
          /\ DOMAIN list.rows = DOMAIN screen.list.rows \cup {m.id} /\ list.rows[m.id] = m.at
          /\ \A i \in DOMAIN screen.list.rows : i # m.id => list.rows[i] = screen.list.rows[i]
      BY <1>1, <1>3, ReplacedIsPage, Zenon
    <2>3. /\ flight' = flight /\ doubt' = doubt
          /\ \/ screen' = [screen EXCEPT !.list = list]
             \/ m.type = "fill" /\ m.id \in DOMAIN screen.list.rows /\ screen' = screen
      BY <1>0, <2>1, Zenon
    <2> HIDE DEF list
    <2>4. /\ screen' \in [list : Pages, money : Int, loading : BOOLEAN, error : BOOLEAN]
          /\ screen'.money = screen.money /\ screen'.list.cursor = screen.list.cursor
          /\ DOMAIN screen'.list.rows = DOMAIN screen.list.rows \cup {m.id}
          /\ \A i \in DOMAIN screen.list.rows : i # m.id => screen'.list.rows[i] = screen.list.rows[i]
          /\ \/ screen'.list.rows[m.id] = m.at
             \/ m.type = "fill" /\ m.id \in DOMAIN screen.list.rows /\ screen' = screen
      <3>1. CASE screen' = [screen EXCEPT !.list = list]
        <4>1. /\ screen' \in [list : Pages, money : Int, loading : BOOLEAN, error : BOOLEAN]
              /\ screen'.money = screen.money /\ screen'.list = list
          BY <1>1, <2>2, <3>1, Zenon
        <4> QED
          BY <2>2, <4>1, Zenon
      <3>2. CASE m.type = "fill" /\ m.id \in DOMAIN screen.list.rows /\ screen' = screen
        <4>1. DOMAIN screen.list.rows = DOMAIN screen.list.rows \cup {m.id}
          BY <3>2, Zenon
        <4> QED
          BY <1>1, <3>2, <4>1, Zenon
      <3> QED
        BY <2>3, <3>1, <3>2, Zenon
    <2>5. ScreenTypes'
      BY <1>a, <1>0, <1>1, <1>4, <2>3, <2>4, TypesKept, Zenon DEF ScreenTypes
    <2>6. RepliesAreCurrent'
      <3>1. \A r \in flight : Marked(r, r)
        BY MarkIsMarked, Zenon DEF ScreenInv, ScreenTypes
      <3> QED
        BY <1>0, <2>3, <3>1, RepliesKept, Zenon DEF ScreenInv
    <2>7. Reloading => Reloading'
      BY <1>0, <2>3, Zenon DEF Reloading
    <2>8. account /\ ~doubt => PagesContinue'
      BY <1>0, <2>3, <2>4, <2>7, Zenon DEF ScreenInv, PagesContinue
    <2>9. account /\ socket.open => /\ MessagesConverge' /\ (MoneyFollows => MoneyFollows')
                                    /\ ListFollows => ListFollows'
      <3>1. m = Head(socket.queue)
        BY Zenon DEF m
      <3> QED
        BY <1>0, <1>4, <1>6, <2>3, <2>4, <3>1, RowArrives, Zenon
    <2> QED
      BY <1>5, <2>5, <2>6, <2>7, <2>8, <2>9, Zenon DEF ScreenInv
  <1>7. CASE m.type \notin RowMessages
    <2>1. m.type # "order" /\ m.type # "fill"
      BY <1>7, SMT DEF RowMessages
    <2>2. /\ flight' = flight \cup {sending("balances", NoCursor)}
          /\ screen' = screen /\ doubt' = doubt
      BY <1>0, <2>1, Zenon
    <2> DEFINE s == sending("balances", NoCursor)
    <2>3. IsRequest(s) /\ s.kind = "balances" /\ s.cluster = network /\ DOMAIN s.got = {}
      <3>1. /\ "balances" \in RequestKinds /\ NoCursor \in Nat
            /\ ("balances" = "poll") = ~account
        BY <1>a, SMT DEF RequestKinds, NoCursor
      <3>2. ScreenTypes
        BY <1>1, Zenon
      <3> QED
        BY <3>1, <3>2, SentIsRequest
    <2> HIDE DEF s
    <2>4. ScreenTypes'
      <3>1. \A r \in flight' : IsRequest(r)
        BY <1>1, <2>2, <2>3, Zenon DEF ScreenTypes, s
      <3> QED
        BY <1>a, <1>0, <1>1, <1>4, <2>2, <3>1, TypesKept, Zenon DEF ScreenTypes
    <2>5. flight' = flight \cup {s}
      BY <2>2, Zenon DEF s
    <2>6. RepliesAreCurrent'
      <3>1. \A r \in flight : Marked(r, r)
        BY MarkIsMarked, Zenon DEF ScreenInv, ScreenTypes
      <3> QED
        BY <1>0, <2>3, <2>5, <3>1, RepliesKept, Zenon DEF ScreenInv
    <2>7. Reloading => Reloading'
      BY <1>0, <2>5, Zenon DEF Reloading
    <2>8. account /\ ~doubt => PagesContinue'
      <3>1. s.kind # "more"
        BY <2>3, SMT
      <3> QED
        BY <1>0, <2>2, <2>5, <2>7, <3>1, Zenon DEF ScreenInv, PagesContinue
    <2>9. MoneyFollows'
      <3>1. "money" \in partsOf(s.kind)
        BY <2>3, SMT DEF partsOf
      <3> QED
        BY <1>0, <2>3, <2>5, <3>1, Zenon DEF MoneyFollows
    <2>10. ASSUME socket.open
           PROVE  MessagesConverge' /\ (ListFollows => ListFollows')
      <3>1. MessagesConverge /\ IsRest(socket'.queue, socket.queue) /\ m = Head(socket.queue)
        BY <1>2, <1>4, <1>a, <2>10, Zenon DEF ScreenInv, m
      <3>2. MessagesConverge' /\ \A i : RowPending(i) => RowPending(i)'
        BY <1>0, <1>7, <3>1, MessagesMove, Zenon
      <3>3. rowsNow' = rowsNow
        BY <1>0, Zenon DEF rowsNow
      <3> QED
        BY <1>0, <2>2, <3>2, <3>3, Zenon DEF ListFollows
    <2> QED
      BY <1>5, <2>4, <2>6, <2>7, <2>8, <2>9, <2>10, Zenon DEF ScreenInv
  <1> QED
    BY <1>6, <1>7, Zenon

LEMMA ScreenStep == ScreenInv /\ [ScreenNext]_screenVars => ScreenInv'
  <1>1. ASSUME ScreenInv, UNCHANGED screenVars PROVE ScreenInv'
    BY <1>1 DEF screenVars, ScreenInv, ScreenTypes, IsRequest, account, RepliesAreCurrent, answerOf,
              MessagesConverge, PagesContinue, MoneyFollows, ListFollows, RowPending, Reloading, rowsNow
  <1> QED
    BY <1>1, ScreenAnswers, ScreenAsks, ScreenReplies, ScreenFails, ScreenOpens, ScreenDrops,
       ScreenSwitches, ScreenRecords, ScreenHears, Zenon DEF ScreenNext

\* Once everything is answered and handled and nothing went wrong since the
\* last clean reload, the account screen shows the record: for any number of
\* networks, changes and requests, and any page size.
THEOREM ScreenAgreesAlways == ScreenSpec => []ScreenAgrees
  <1>1. ScreenInit => ScreenInv
    BY ScreenInitInv
  <1>2. ScreenInv /\ [ScreenNext]_screenVars => ScreenInv'
    BY ScreenStep
  <1>3. ScreenInv => ScreenAgrees
    BY ScreenInvMeans
  <1> QED
    BY <1>1, <1>2, <1>3, PTL DEF ScreenSpec

===============================================================================
