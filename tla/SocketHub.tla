------------------------------ MODULE SocketHub ------------------------------
(***************************************************************************)
(* The socket hub's side of one user: admission, subscriptions, heartbeat, *)
(* session checks, and the private channel, which reads the user's changed *)
(* orders and sends them.  A row carries the time its statement ran and    *)
(* becomes visible when its transaction commits; a notification follows    *)
(* the commit and tells the hub to look.                                   *)
(***************************************************************************)
EXTENDS Integers, FiniteSets, FiniteSetsExt

CONSTANTS
  Sockets,            \* connections the browser may open
  Rows,               \* the user's orders
  Overlap,            \* how far a private read reaches behind its cursor
  CommitLag,          \* longest time from a statement to its commit
  Batch,              \* rows of one private read
  MaxSocketsPerUser, MaxSubscriptions,
  MaxTime,            \* bound: clock
  MaxVersion,         \* bound: commits per order
  MaxFaults           \* bound: hints not published, reads and checks that fail

ASSUME HubAssumption ==
  /\ Overlap \in Nat /\ CommitLag \in Nat /\ Batch \in Nat
  /\ IsFiniteSet(Rows)

VARIABLES
  time, rows, writes, hints, signedIn, atEnd, socks, hubFaults

hubVars == <<time, rows, writes, hints, signedIn, atEnd, socks, hubFaults>>

Unset == -1
Channels == {"account", "book"}

Closed == [open |-> FALSE, used |-> TRUE, subs |-> {}, asking |-> {}, cursor |-> Unset,
           stage |-> "idle", again |-> FALSE, readAt |-> Unset, since |-> Unset, batch |-> {}, pings |-> 0,
           base |-> [r \in Rows |-> 0], sent |-> [r \in Rows |-> 0]]

SetSock(c, s) == socks' = [socks EXCEPT ![c] = s]

\* detach and close: the handlers still running for the connection end when
\* they next look at it.  What was sent stays, as history.
closed(s) == [Closed EXCEPT !.sent = s.sent]

(***************************************************************************)
(* Rows change: a statement, then the commit and its hint, or a rollback.  *)
(***************************************************************************)
Write(r) ==
  /\ writes[r] = Unset /\ rows[r].version < MaxVersion
  /\ writes' = [writes EXCEPT ![r] = time]
  /\ UNCHANGED <<time, rows, hints, signedIn, atEnd, socks, hubFaults>>

Commit(r) ==
  /\ writes[r] # Unset
  /\ rows' = [rows EXCEPT ![r] = [version |-> @.version + 1, stamp |-> writes[r]]]
  /\ writes' = [writes EXCEPT ![r] = Unset]
  /\ \/ hints' = hints + 1 /\ UNCHANGED hubFaults
     \/ hubFaults < MaxFaults /\ hubFaults' = hubFaults + 1 /\ UNCHANGED hints
  /\ UNCHANGED <<time, signedIn, atEnd, socks>>

Rollback(r) ==
  /\ writes[r] # Unset
  /\ writes' = [writes EXCEPT ![r] = Unset]
  /\ UNCHANGED <<time, rows, hints, signedIn, atEnd, socks, hubFaults>>

HubTick ==
  /\ time < MaxTime
  /\ \A r \in Rows : writes[r] # Unset => time + 1 - writes[r] <= CommitLag
  /\ time' = time + 1
  /\ UNCHANGED <<rows, writes, hints, signedIn, atEnd, socks, hubFaults>>

(***************************************************************************)
(* The upgrade, and a socket that goes away.                               *)
(***************************************************************************)
admit == Cardinality({c \in Sockets : socks[c].open}) < MaxSocketsPerUser

attach(c) ==
  /\ ~socks[c].used
  /\ signedIn /\ admit
  /\ SetSock(c, [Closed EXCEPT !.open = TRUE])
  /\ UNCHANGED <<time, rows, writes, hints, signedIn, atEnd, hubFaults>>

onClose(c) ==
  /\ socks[c].open
  /\ SetSock(c, closed(socks[c]))
  /\ UNCHANGED <<time, rows, writes, hints, signedIn, atEnd, hubFaults>>

(***************************************************************************)
(* A message from the browser: subscribe, which waits for the session      *)
(* check, or unsubscribe or pong, which do not.                            *)
(***************************************************************************)
onSubscribe(c, ch) ==
  /\ socks[c].open /\ ch \notin socks[c].asking
  /\ SetSock(c, [socks[c] EXCEPT !.asking = @ \cup {ch}])
  /\ UNCHANGED <<time, rows, writes, hints, signedIn, atEnd, hubFaults>>

subscribe(c, ch) ==
  LET s == socks[c]
      asked == [s EXCEPT !.asking = @ \ {ch}] IN
  /\ ch \in s.asking
  /\ SetSock(c, IF ~signedIn \/ (ch \notin s.subs /\ Cardinality(s.subs) >= MaxSubscriptions)
                THEN closed(s)
                ELSE IF ch # "account" THEN [asked EXCEPT !.subs = @ \cup {ch}]
                ELSE [asked EXCEPT !.subs = @ \cup {ch},
                                   !.cursor = IF @ = Unset THEN time ELSE @,
                                   !.base = IF ch \in s.subs THEN @
                                            ELSE [r \in Rows |-> rows[r].version]])
  /\ UNCHANGED <<time, rows, writes, hints, signedIn, atEnd, hubFaults>>

unsubscribe(c, ch) ==
  /\ ch \in socks[c].subs
  /\ SetSock(c, [socks[c] EXCEPT !.subs = @ \ {ch},
                                 !.cursor = IF ch = "account" THEN Unset ELSE @])
  /\ UNCHANGED <<time, rows, writes, hints, signedIn, atEnd, hubFaults>>

pong(c) ==
  /\ socks[c].open /\ socks[c].pings > 0
  /\ SetSock(c, [socks[c] EXCEPT !.pings = 0])
  /\ UNCHANGED <<time, rows, writes, hints, signedIn, atEnd, hubFaults>>

(***************************************************************************)
(* The private channel.  One read at a time per socket; a hint that        *)
(* arrives during one asks for exactly one more.                           *)
(***************************************************************************)
pushing(s) == s.stage # "idle"

\* The top of the loop: nothing to do without a cursor.
turnFromCursor(s) ==
  IF s.cursor = Unset THEN [s EXCEPT !.stage = "idle", !.again = FALSE, !.batch = {}]
  ELSE [s EXCEPT !.stage = "reading", !.again = FALSE, !.batch = {}, !.readAt = time,
                   !.since = s.cursor]

turn(s) ==
  IF s.cursor = Unset THEN [s EXCEPT !.stage = "idle", !.again = FALSE, !.batch = {}]
  ELSE [s EXCEPT !.stage = "reading", !.again = FALSE, !.batch = {}, !.readAt = time,
                   !.since = s.cursor - Overlap]

pushAccount(s) ==
  IF pushing(s) THEN [s EXCEPT !.again = TRUE] ELSE turn(s)

usersChanged ==
  /\ hints > 0
  /\ hints' = hints - 1
  /\ socks' = [c \in Sockets |-> IF socks[c].open /\ socks[c].cursor # Unset
                                 THEN pushAccount(socks[c]) ELSE socks[c]]
  /\ UNCHANGED <<time, rows, writes, signedIn, atEnd, hubFaults>>

Version(r) == [row |-> r, version |-> rows[r].version]

listChangedSince(since, limit) ==
  LET changed == {r \in Rows : rows[r].stamp >= since /\ rows[r].version > 0} IN
  {{Version(r) : r \in batch} : batch \in
    {b \in SUBSET changed :
       /\ Cardinality(b) = Min({limit, Cardinality(changed)})
       /\ \A r \in b, q \in changed \ b : rows[r].stamp <= rows[q].stamp}}

ReadRowsUnchecked(c) ==
  LET s == socks[c] IN
  /\ s.stage = "reading"
  /\ \E batch \in listChangedSince(s.since, Batch) :
       SetSock(c, IF s.cursor = Unset THEN [s EXCEPT !.stage = "idle", !.again = FALSE]
                  ELSE [s EXCEPT !.stage = "sending", !.batch = batch])
  /\ UNCHANGED <<time, rows, writes, hints, signedIn, atEnd, hubFaults>>

ReadRows(c) ==
  LET s == socks[c] IN
  /\ s.stage = "reading"
  /\ \E batch \in listChangedSince(s.since, Batch) :
       SetSock(c, IF s.cursor = Unset THEN [s EXCEPT !.stage = "idle", !.again = FALSE]
                  ELSE [s EXCEPT !.stage = "checking", !.batch = batch])
  /\ UNCHANGED <<time, rows, writes, hints, signedIn, atEnd, hubFaults>>

CheckSession(c) ==
  /\ socks[c].stage = "checking"
  /\ SetSock(c, IF signedIn THEN [socks[c] EXCEPT !.stage = "sending"] ELSE closed(socks[c]))
  /\ UNCHANGED <<time, rows, writes, hints, signedIn, atEnd, hubFaults>>

received(s, r) == Max({s.sent[r]} \cup {m.version : m \in {b \in s.batch : b.row = r}})

SendRows(c) ==
  LET s == socks[c]
      done == [s EXCEPT !.sent = [r \in Rows |-> received(s, r)], !.cursor = s.readAt,
                        !.stage = "idle", !.batch = {}] IN
  /\ s.stage = "sending"
  /\ SetSock(c, IF s.again THEN turn(done) ELSE done)
  /\ UNCHANGED <<time, rows, writes, hints, signedIn, atEnd, hubFaults>>

PushFails(c) ==
  /\ socks[c].stage \in {"reading", "checking"}
  /\ hubFaults < MaxFaults /\ hubFaults' = hubFaults + 1
  /\ SetSock(c, [socks[c] EXCEPT !.stage = "idle", !.again = FALSE, !.batch = {}])
  /\ UNCHANGED <<time, rows, writes, hints, signedIn, atEnd>>

(***************************************************************************)
(* The timers.                                                             *)
(***************************************************************************)
heartbeat ==
  /\ \E c \in Sockets : socks[c].open
  /\ socks' = [c \in Sockets |->
       IF ~socks[c].open THEN socks[c]
       ELSE IF socks[c].pings >= 2 THEN closed(socks[c])
       ELSE [socks[c] EXCEPT !.pings = @ + 1]]
  /\ UNCHANGED <<time, rows, writes, hints, signedIn, atEnd, hubFaults>>

recheckSessions(c) ==
  /\ socks[c].open
  /\ \/ /\ ~signedIn
        /\ SetSock(c, closed(socks[c]))
        /\ UNCHANGED hubFaults
     \/ /\ ~signedIn /\ hubFaults < MaxFaults
        /\ hubFaults' = hubFaults + 1
        /\ UNCHANGED socks
  /\ UNCHANGED <<time, rows, writes, hints, signedIn, atEnd>>

EndSession ==
  /\ signedIn
  /\ signedIn' = FALSE
  /\ atEnd' = [r \in Rows |-> rows[r].version]
  /\ UNCHANGED <<time, rows, writes, hints, socks, hubFaults>>

HubInit ==
  /\ time = 0 /\ hints = 0 /\ hubFaults = 0 /\ signedIn = TRUE
  /\ rows = [r \in Rows |-> [version |-> 0, stamp |-> 0]]
  /\ writes = [r \in Rows |-> Unset]
  /\ atEnd = [r \in Rows |-> 0]
  /\ socks = [c \in Sockets |-> [Closed EXCEPT !.used = FALSE]]

SocketStep(c) ==
  \/ attach(c) \/ onClose(c)
  \/ \E ch \in Channels : onSubscribe(c, ch) \/ subscribe(c, ch) \/ unsubscribe(c, ch)
  \/ pong(c)
  \/ ReadRows(c) \/ CheckSession(c) \/ SendRows(c) \/ PushFails(c)
  \/ recheckSessions(c)

HubNext ==
  \/ \E r \in Rows : Write(r) \/ Commit(r) \/ Rollback(r)
  \/ HubTick
  \/ usersChanged
  \/ heartbeat
  \/ EndSession
  \/ \E c \in Sockets : SocketStep(c)

HubSpec == HubInit /\ [][HubNext]_hubVars

(***************************************************************************)
(* No order version committed after the user's session ended is ever sent: *)
(* the rows are read before the session is checked, so whatever is sent    *)
(* was visible while the session lived (hub.ts, pushAccount).              *)
(***************************************************************************)
PrivateStopsWithSession ==
  ~signedIn => \A c \in Sockets, r \in Rows : socks[c].sent[r] <= atEnd[r]

(***************************************************************************)
(* While nothing failed and nothing is under way, a socket subscribed to   *)
(* the private channel has been sent the newest version of every order     *)
(* that changed since it subscribed, although rows become visible with a   *)
(* timestamp in the past and the cursor moves to the time of the last read *)
(* (hub.ts, PRIVATE_OVERLAP_MS and pushAccount).                           *)
(***************************************************************************)
RowsReachSocket ==
  \A c \in Sockets, r \in Rows :
    /\ "account" \in socks[c].subs /\ socks[c].stage = "idle"
    /\ hints = 0 /\ hubFaults = 0
    /\ rows[r].version > socks[c].base[r]
    => socks[c].sent[r] = rows[r].version

(***************************************************************************)
(* The private channel sends all it must while the session lives and       *)
(* nothing newer afterwards.                                               *)
(***************************************************************************)
PrivateFeedIsRight == PrivateStopsWithSession /\ RowsReachSocket

=============================================================================
