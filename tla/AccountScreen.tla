---------------------------- MODULE AccountScreen ----------------------------
(***************************************************************************)
(* What a signed-in person's screen holds of the record: the orders, fills *)
(* and trading balances of useAccount, and the wallet's balances, deposits *)
(* and withdrawals of the polled hooks, across requests that answer late   *)
(* and out of order, the private channel, reconnections and switches of    *)
(* network.                                                                *)
(*                                                                         *)
(* Rows are numbered by age and an order's row carries the number of its   *)
(* last update.  A page of history is PageSize rows.  A reply is read      *)
(* part by part, as the requests of one refresh are.                       *)
(***************************************************************************)
EXTENDS Integers, Sequences, FiniteSets, FiniteSetsExt

CONSTANTS Clusters,     \* the networks the deployment serves
          PageSize,     \* rows of one page of history
          MaxChanges,   \* changes of each cluster's record
          MaxFlight     \* requests in flight at once

\* A page has room for a row.
ASSUME PageAssumption == PageSize \in Nat \ {0}

VARIABLES hook,    \* the hook that is mounted
          network, \* the active cluster
          record,  \* the server's record, per cluster
          socket,  \* whether the socket is open, and what it carries
          screen,  \* the hook's state
          flight,  \* requests sent and not yet applied
          doubt    \* whether a reply was overtaken since the last clean reload

screenVars == <<hook, network, record, socket, screen, flight, doubt>>

Polled == {"balances", "deposits", "withdrawals"}
\* useAccount keeps two lists that never meet; a behaviour follows one.
Lists == {"orders", "fills"}
account == hook \in Lists

NoCursor == 0
Unknown == -1
NoRows == [rows |-> << >>, cursor |-> NoCursor]
INITIAL == [list |-> NoRows, money |-> Unknown, loading |-> TRUE, error |-> FALSE]

-----------------------------------------------------------------------------
(* The server: pages of history, newest first, and the ledger's figure.      *)

\* A page holds the newest rows before the cursor; a full page has a cursor
\* for the rest.
pageOf(rows, before) ==
  LET eligible == {i \in DOMAIN rows : before = NoCursor \/ i < before}
      page == {i \in eligible : Cardinality({j \in eligible : j > i}) < PageSize}
  IN  [rows |-> [i \in page |-> rows[i]],
       cursor |-> IF Cardinality(page) = PageSize THEN Min(page) ELSE NoCursor]

partsOf(kind) ==
  CASE kind = "refresh" -> {"rows", "money"}
    [] kind = "more" -> {"rows"}
    [] OTHER -> {"money"}

\* Part p of the answer to r, as the record of the cluster the request was
\* made against stands now.
answerOf(r, p) ==
  IF p = "money" THEN record[r.cluster].money ELSE pageOf(record[r.cluster][hook], r.before)

-----------------------------------------------------------------------------
(* Requests.                                                                 *)

canSend == Cardinality(flight) < MaxFlight

\* The header names the cluster that is active when the request is made.
sending(kind, before) ==
  [n |-> Min((1 .. MaxFlight) \ {r.n : r \in flight}), kind |-> kind, cluster |-> network, before |-> before,
   got |-> << >>, overtaken |-> FALSE]

\* The request is answered part by part.
answer ==
  \E r \in flight : \E p \in partsOf(r.kind) \ DOMAIN r.got :
    /\ flight' = (flight \ {r}) \cup
         {[r EXCEPT !.got = [q \in DOMAIN r.got \cup {p} |->
                               IF q = p THEN answerOf(r, p) ELSE r.got[q]]]}
    /\ UNCHANGED <<hook, network, record, socket, screen, doubt>>

\* Any of a reload after an order, a transfer or a cancel, and a poll.
refresh ==
  /\ canSend /\ account
  /\ flight' = flight \cup {sending("refresh", NoCursor)}
  /\ UNCHANGED <<hook, network, record, socket, screen, doubt>>

loadMore ==
  /\ canSend /\ account
  /\ screen.list.cursor # NoCursor
  /\ flight' = flight \cup {sending("more", screen.list.cursor)}
  /\ UNCHANGED <<hook, network, record, socket, screen, doubt>>

useBalances == hook = "balances" /\ canSend
useDeposits == hook = "deposits" /\ canSend
useWithdrawals == hook = "withdrawals" /\ canSend

poll ==
  /\ useBalances \/ useDeposits \/ useWithdrawals
  /\ flight' = flight \cup {sending("poll", NoCursor)}
  /\ UNCHANGED <<hook, network, record, socket, screen, doubt>>

-----------------------------------------------------------------------------
(* Replies.                                                                  *)

\* Mutation: a page of history is appended as it comes.
appendedOver(list, page) ==
  [rows |-> [i \in DOMAIN list.rows \cup DOMAIN page.rows |->
               IF i \in DOMAIN page.rows THEN page.rows[i] ELSE list.rows[i]],
   cursor |-> page.cursor]

\* Rows already on screen are left out of a page of history.
appended(list, page) ==
  [rows |-> [i \in DOMAIN list.rows \cup DOMAIN page.rows |->
               IF i \in DOMAIN list.rows THEN list.rows[i] ELSE page.rows[i]],
   cursor |-> page.cursor]

applied(r) ==
  CASE r.kind = "refresh" -> [list |-> r.got.rows, money |-> r.got.money,
                              loading |-> FALSE, error |-> FALSE]
    [] r.kind = "more" -> [screen EXCEPT !.list = appended(@, r.got.rows)]
    [] r.kind = "balances" -> [screen EXCEPT !.money = r.got.money]
    [] OTHER -> [screen EXCEPT !.money = r.got.money, !.loading = FALSE, !.error = FALSE]

\* A polled hook keeps nothing after a failure (its withdrawals excepted);
\* the account keeps what it has.
failedWith(r) ==
  CASE r.kind = "refresh" -> [screen EXCEPT !.loading = FALSE, !.error = TRUE]
    [] r.kind = "poll" -> [screen EXCEPT !.money = IF hook = "withdrawals" THEN @ ELSE Unknown,
                                         !.loading = FALSE, !.error = TRUE]
    [] OTHER -> screen

\* A page of history asked for with a cursor that a refresh has replaced.
overtakenBy(r) ==
  {IF s.kind = "more" /\ r.kind \in {"more", "refresh"} THEN [s EXCEPT !.overtaken = TRUE]
   ELSE s : s \in flight \ {r}}

\* setState with whatever came, for whatever network it came from.
reply ==
  \E r \in flight :
    /\ DOMAIN r.got = partsOf(r.kind)
    /\ screen' = applied(r)
    /\ flight' = overtakenBy(r)
    /\ doubt' = (doubt \/ r.overtaken \/ r.cluster # network)
    /\ UNCHANGED <<hook, network, record, socket>>

requestFails ==
  \E r \in flight :
    /\ screen' = failedWith(r)
    /\ flight' = flight \ {r}
    /\ doubt' = TRUE
    /\ UNCHANGED <<hook, network, record, socket>>

-----------------------------------------------------------------------------
(* The effect that runs on mount, on a switch of network and on every        *)
(* (re)connection: forget everything, and ask.                               *)

\* Mutation: what is on screen is trusted across a reconnection.
reloadKeeping(cluster) ==
  /\ screen' = screen
  /\ flight' = flight

reload(cluster) ==
  /\ screen' = INITIAL
  /\ flight' = flight \cup
       {[sending(IF account THEN "refresh" ELSE "poll", NoCursor)
           EXCEPT !.cluster = cluster]}

onOpen ==
  /\ ~socket.open /\ canSend
  /\ socket' = [open |-> TRUE, queue |-> << >>]
  /\ IF account
     THEN reload(network) /\ doubt' = FALSE
     ELSE UNCHANGED <<screen, flight, doubt>>
  /\ UNCHANGED <<hook, network, record>>

onDrop ==
  /\ socket.open
  /\ socket' = [open |-> FALSE, queue |-> << >>]
  /\ UNCHANGED <<hook, network, record, screen, flight, doubt>>

\* Another network: its subscription replaces the old one.
switchTo ==
  \E next \in Clusters \ {network} :
    /\ canSend
    /\ network' = next
    /\ socket' = [socket EXCEPT !.queue = << >>]
    /\ reload(next)
    /\ doubt' = FALSE
    /\ UNCHANGED <<hook, record>>

-----------------------------------------------------------------------------
(* The record changes, and the hub says so.                                  *)

messagesFor(cluster, order, fills, rows) ==
  IF ~account \/ ~socket.open \/ cluster # network THEN << >>
  ELSE (IF hook = "orders" THEN <<[type |-> "order", id |-> order, at |-> rows.orders[order]]>>
        ELSE IF fills THEN <<[type |-> "fill", id |-> Len(rows.fills), at |-> 1]>>
        ELSE << >>)
       \o <<[type |-> "balances.changed", id |-> 0, at |-> 0]>>

\* An order is placed or updated, perhaps by a fill; the balance moves with it.
\* What the hook does not show does not vary.
recordChanges ==
  /\ \E c \in Clusters, fills \in IF hook = "fills" THEN BOOLEAN ELSE {FALSE} :
     \E o \in IF hook = "orders" THEN 1 .. Len(record[c].orders) + 1 ELSE {1} :
       LET old == record[c]
           orders == IF o \in DOMAIN old.orders THEN [old.orders EXCEPT ![o] = @ + 1]
                     ELSE Append(old.orders, 1)
           new == [orders |-> orders, money |-> old.money + 1,
                   fills |-> IF fills THEN Append(old.fills, 1) ELSE old.fills]
       IN  /\ old.money < MaxChanges
           /\ record' = [record EXCEPT ![c] = new]
           /\ socket' = [socket EXCEPT !.queue = @ \o messagesFor(c, o, fills, new)]
           /\ flight' = {IF r.cluster = c /\ r.got # << >> THEN [r EXCEPT !.overtaken = TRUE]
                         ELSE r : r \in flight}
  /\ UNCHANGED <<hook, network, screen, doubt>>

\* An order replaces the row with its id, a fill is added if it is new.
replaced(list, message) ==
  [list EXCEPT !.rows = [i \in DOMAIN list.rows \cup {message.id} |->
                           IF i = message.id THEN message.at ELSE list.rows[i]]]

onMessage ==
  /\ socket.queue # << >>
  /\ LET message == Head(socket.queue) IN
       \/ /\ message.type = "order"
          /\ screen' = [screen EXCEPT !.list = replaced(@, message)]
          /\ UNCHANGED <<flight, doubt>>
       \/ /\ message.type = "fill"
          /\ screen' = IF message.id \in DOMAIN screen.list.rows THEN screen
                       ELSE [screen EXCEPT !.list = replaced(@, message)]
          /\ UNCHANGED <<flight, doubt>>
       \/ /\ message.type = "balances.changed" /\ canSend
          /\ flight' = flight \cup {sending("balances", NoCursor)}
          /\ UNCHANGED <<screen, doubt>>
  /\ socket' = [socket EXCEPT !.queue = Tail(@)]
  /\ UNCHANGED <<hook, network, record>>

-----------------------------------------------------------------------------

\* A stored preference counts if the deployment still serves it.
readStoredCluster(stored) == stored \cap Clusters

\* The stored preference, else the server's default.
resolved(stored, default) ==
  CHOOSE c \in Clusters :
    IF readStoredCluster(stored) = {} THEN c = default ELSE c \in readStoredCluster(stored)

\* The page is opened with a socket that is not open yet.
ScreenInit ==
  /\ hook \in Lists \cup Polled
  /\ \E stored \in {{}, {"testnet"}} \cup {{c} : c \in Clusters}, default \in Clusters :
       network = resolved(stored, default)
  /\ record = [c \in Clusters |-> [orders |-> <<1>>, fills |-> << >>, money |-> 0]]
  /\ socket = [open |-> FALSE, queue |-> << >>]
  /\ screen = INITIAL
  /\ flight = {[n |-> 1, kind |-> IF account THEN "refresh" ELSE "poll",
                cluster |-> network, before |-> NoCursor, got |-> << >>, overtaken |-> FALSE]}
  /\ doubt = FALSE

ScreenNext ==
  \/ answer \/ refresh \/ loadMore \/ poll \/ reply \/ requestFails
  \/ onOpen \/ onDrop \/ switchTo \/ recordChanges \/ onMessage

-----------------------------------------------------------------------------
(* Properties.                                                               *)

\* Every row on screen is as the record has it, and none from the list's
\* cursor on is missing.
Agrees(list, rows) ==
  /\ \A i \in DOMAIN list.rows : i \in DOMAIN rows /\ list.rows[i] = rows[i]
  /\ \A i \in DOMAIN rows : i >= list.cursor => i \in DOMAIN list.rows

\* With the socket open, every message handled and every request answered,
\* the account screen shows the record of its network: no row is stale, the
\* loaded history has no hole, and the balance is the ledger's -- unless a
\* reply was overtaken by a change after it was read, by a newer page or by a
\* switch of network, or a request failed, since the last clean reload.  (A
\* pushed update may show an older order ahead of the page it is on.)
ScreenAgrees ==
  (account /\ socket.open /\ socket.queue = << >> /\ flight = {} /\ ~doubt) =>
    /\ screen.money = record[network].money
    /\ Agrees(screen.list, record[network][hook])

=============================================================================
