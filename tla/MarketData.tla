----------------------------- MODULE MarketData ------------------------------
(***************************************************************************)
(* Public market data of one market, from the engine's stream to the book  *)
(* and the tape a browser draws.                                           *)
(*                                                                         *)
(* Two readers follow the stream at their own pace: the fan-out, which     *)
(* keeps a mirror of the book in memory and no durable position, and the   *)
(* tape consumer, which records trades and minute candles.  The hub hands  *)
(* the fan-out's messages to the subscribed sockets, and answers a new     *)
(* subscription from the mirror or from the recorded trades.  A browser    *)
(* keeps a book it may draw as live only while no sequence is missing.     *)
(***************************************************************************)
EXTENDS Integers, Sequences, FiniteSets, FiniteSetsExt, SequencesExt

CONSTANTS
  Clients,      \* browsers
  Prices,       \* prices at which an order may rest
  Scenarios,    \* channels the browsers show, the tape halted or not, and the
                \* bound on faults: sequences published again, entries lost,
                \* reads and engine calls that fail, sockets the network drops
  Moves,        \* what one engine command may do, see MarketDataAssumption
  FillAt,       \* the price, quantity and minute of fill k of sequence s
  Widths,       \* candle widths asked for, in minutes
  MaxSeq,       \* bound: engine sequences
  MaxUnread,    \* bound: stream entries the fan-out has not read
  MaxLevels,    \* levels per side in a snapshot
  MaxBuffered   \* messages a socket may have waiting

Sides == {"buy", "sell"}
Levels == Sides \X Prices

ASSUME MarketDataAssumption ==
  \A m \in Moves : /\ m.events \in Nat \ {0} /\ m.fills \in 0 .. m.events
                   /\ DOMAIN m.changes \subseteq Levels

VARIABLES
  journal,   \* the engine's sequences: the move, and the book it left
  last,      \* key of the newest stream entry
  unread,    \* entries the fan-out's next read returns
  fan,       \* the fan-out: stage, mirror, pending, idleBehind
  tape,      \* the tape consumer: next key, trades, candles
  hub,       \* subscribers of the two channels, and reads of recent trades
  wire,      \* messages on their way to each client, in order
  conn,      \* each client's socket
  view,      \* each client's book
  shown,     \* trades each client has been sent
  faults     \* faults still to come

vars == <<journal, last, unread, fan, tape, hub, wire, conn, view, shown, faults>>

---------------------------------------------------------------------------
(* The engine and its stream *)

NoBook == [l \in Levels |-> 0]
None == [seq |-> -1, book |-> NoBook]

LastSeq == Len(journal)
BookAt(s) == IF s = 0 THEN NoBook ELSE journal[s].book

\* A level change is the engine's absolute quantity; zero removes the level.
apply(book, changes) ==
  [l \in Levels |-> IF l \in DOMAIN changes THEN changes[l] ELSE book[l]]

Events(s) == journal[s].move.events
Trades(s) == {<<s, k>> : k \in 0 .. (IF s = 0 THEN -1 ELSE journal[s].move.fills - 1)}
NextKey(k) ==
  IF k[1] > 0 /\ k[2] < Events(k[1]) - 1 THEN <<k[1], k[2] + 1>> ELSE <<k[1] + 1, 0>>
Before(k, j) == k[1] < j[1] \/ (k[1] = j[1] /\ k[2] < j[2])

\* One command: its fills come first, and the entry of its last event carries
\* the levels it changed.
Command ==
  /\ LastSeq < MaxSeq
  /\ \E m \in Moves :
       journal' = Append(journal, [move |-> m, book |-> apply(BookAt(LastSeq), m.changes)])
  /\ UNCHANGED <<last, unread, fan, tape, hub, wire, conn, view, shown, faults>>

EntryOf(k) == [key |-> k, fill |-> k[2] < journal[k[1]].move.fills,
               end |-> k[2] = Events(k[1]) - 1]

Publish ==
  /\ Len(unread) < MaxUnread
  /\ NextKey(last)[1] <= LastSeq
  /\ last' = NextKey(last)
  /\ unread' = Append(unread, EntryOf(last'))
  /\ UNCHANGED <<journal, fan, tape, hub, wire, conn, view, shown, faults>>

\* The engine starts again with a sequence some entries of which are in the
\* stream already.
Republish ==
  /\ faults > 0
  /\ Len(unread) < MaxUnread
  /\ \E s \in 1 .. last[1] : last' = <<s, 0>>
  /\ unread' = Append(unread, EntryOf(last'))
  /\ faults' = faults - 1
  /\ UNCHANGED <<journal, fan, tape, hub, wire, conn, view, shown>>

\* The stream's length is capped: entries not read in time are gone.
Trim ==
  /\ faults > 0
  /\ unread # <<>>
  /\ unread' = Tail(unread)
  /\ faults' = faults - 1
  /\ UNCHANGED <<journal, last, fan, tape, hub, wire, conn, view, shown>>

---------------------------------------------------------------------------
(* The hub's sockets.  A message is queued, or the connection is lost. *)

Cut == [type |-> "close"]

\* A message is dropped for a client that reads slowly.
sendRawDropping(w, message) ==
  IF Len(w) > MaxBuffered THEN w ELSE Append(w, message)

sendRaw(w, message) ==
  IF w # <<>> /\ w[Len(w)] = Cut THEN w
  ELSE IF Len(w) > MaxBuffered THEN Append(w, Cut)
  ELSE Append(w, message)

Sent(w, messages) == FoldLeft(sendRaw, w, messages)

detached(h, w) ==
  [h EXCEPT !.book = {c \in @ : Cut \notin Range(w[c])},
            !.trades = {c \in @ : Cut \notin Range(w[c])},
            !.fetching = {c \in @ : Cut \notin Range(w[c])}]

IsBook(message) == message.type \in {"snapshot", "delta", "resync"}

\* Every message of the fan-out goes, the same, to each subscriber of its
\* channel.
broadcast(messages) ==
  LET due(c) == SelectSeq(messages, LAMBDA x : c \in (IF IsBook(x) THEN hub.book ELSE hub.trades))
  IN  [c \in Clients |-> Sent(wire[c], due(c))]

best(side, l, k) == IF side = "buy" THEN l[2] > k[2] ELSE l[2] < k[2]

\* The best MaxLevels levels of each side, and whether that is all of them.
mirrorView(mirror) ==
  LET resting(side) == {l \in Levels : l[1] = side /\ mirror.book[l] > 0}
      kept == {l \in Levels : Cardinality({k \in resting(l[1]) : best(l[1], k, l)}) < MaxLevels}
  IN  [type |-> "snapshot", seq |-> mirror.seq,
       book |-> [l \in Levels |-> IF l \in kept THEN mirror.book[l] ELSE 0],
       truncated |-> \E side \in Sides : Cardinality(resting(side)) > MaxLevels]

bookSnapshot == IF fan.mirror = None THEN [type |-> "resync"] ELSE mirrorView(fan.mirror)

---------------------------------------------------------------------------
(* The fan-out *)

NoPending == [seq |-> 0, next |-> 0, trades |-> {}]

\* fan-out state and messages after invalidating: nothing follows the resync
\* until a snapshot.
invalidate(f, out) ==
  IF f.mirror = None THEN [f |-> f, out |-> out]
  ELSE [f |-> [f EXCEPT !.mirror = None, !.pending = NoPending, !.idle = 0],
        out |-> Append(out, [type |-> "resync"])]

\* A missing sequence goes unnoticed.
processPastGaps(acc, entry) ==
  LET f == acc.f  s == entry.key[1]  changes == journal[s].move.changes
  IN  IF f.mirror = None \/ s <= f.mirror.seq \/ ~entry.end THEN acc
      ELSE [f |-> [f EXCEPT !.mirror = [seq |-> s, book |-> apply(@.book, changes)]],
            out |-> Append(acc.out, [type |-> "delta", seq |-> s, changes |-> changes])]

\* One entry.  The mirror moves only when every event of exactly the next
\* sequence has been seen.
process(acc, entry) ==
  LET f == acc.f  s == entry.key[1]  i == entry.key[2]
      pending == IF f.pending = NoPending THEN [seq |-> s, next |-> 0, trades |-> {}]
                 ELSE f.pending
      trades == IF entry.fill THEN pending.trades \cup {entry.key} ELSE pending.trades
      changes == journal[s].move.changes
  IN  IF f.mirror = None \/ s <= f.mirror.seq THEN acc
      ELSE IF s # f.mirror.seq + 1 THEN invalidate(f, acc.out)
      ELSE IF i < pending.next THEN [acc EXCEPT !.f.pending = pending]
      ELSE IF i # pending.next THEN invalidate(f, acc.out)
      ELSE IF ~entry.end
      THEN [acc EXCEPT !.f.pending = [pending EXCEPT !.next = @ + 1, !.trades = trades]]
      ELSE [f |-> [f EXCEPT !.pending = NoPending,
                            !.mirror = [seq |-> s, book |-> apply(@.book, changes)]],
            out |-> acc.out
                    \o SetToSortSeq({[type |-> "trade", id |-> t] : t \in trades},
                                    LAMBDA x, y : Before(x.id, y.id))
                    \o <<[type |-> "delta", seq |-> s, changes |-> changes]>>]

\* What the hub does with the messages of one synchronous step of the fan-out.
onFanout(f, messages) ==
  LET w == broadcast(messages)
  IN  /\ fan' = f
      /\ wire' = w
      /\ hub' = [detached(hub, w) EXCEPT
                   !.replays = @ \/ \E k \in DOMAIN messages : messages[k].type = "snapshot"]

\* A resynchronisation takes its place at the end of the stream first, and
\* reads the engine's book after that.
SeekToEnd ==
  /\ fan.stage = "run" /\ fan.mirror = None
  /\ fan' = [fan EXCEPT !.stage = "sought"]
  /\ unread' = <<>>
  /\ UNCHANGED <<journal, last, tape, hub, wire, conn, view, shown, faults>>

Resync ==
  /\ fan.stage = "sought"
  /\ LET f == [stage |-> "run", mirror |-> [seq |-> LastSeq, book |-> BookAt(LastSeq)],
               pending |-> NoPending, idle |-> 0]
     IN  onFanout(f, <<mirrorView(f.mirror)>>)
  /\ UNCHANGED <<journal, last, unread, tape, conn, view, shown, faults>>

\* The engine does not answer: the cycle ends without a book.
ResyncUnanswered ==
  /\ fan.stage = "sought"
  /\ faults > 0
  /\ fan' = [fan EXCEPT !.stage = "run"]
  /\ faults' = faults - 1
  /\ UNCHANGED <<journal, last, unread, tape, hub, wire, conn, view, shown>>

\* One read, of part or all of what is there.  An entry that invalidates the
\* mirror ends the batch; what is left of it is never looked at.
Read ==
  /\ fan.stage = "run" /\ fan.mirror # None
  /\ unread # <<>>
  /\ \E n \in 1 .. Len(unread) :
       LET done == FoldLeft(process, [f |-> [fan EXCEPT !.idle = 0], out |-> <<>>],
                            SubSeq(unread, 1, n))
       IN  onFanout(done.f, done.out) /\ unread' = SubSeq(unread, n + 1, Len(unread))
  /\ UNCHANGED <<journal, last, tape, conn, view, shown, faults>>

\* A quiet stream is taken for a quiet market.
IdleTrusting ==
  /\ fan.stage = "run" /\ fan.mirror # None
  /\ unread = <<>>
  /\ fan' = [fan EXCEPT !.idle = 0]
  /\ UNCHANGED <<journal, last, unread, tape, hub, wire, conn, view, shown, faults>>

\* Nothing arrived: a stream gone quiet while the engine moved on is a doubt
\* after two such readings.
Idle ==
  /\ fan.stage = "run" /\ fan.mirror # None
  /\ unread = <<>>
  /\ LET behind == LastSeq > fan.mirror.seq
         f == [fan EXCEPT !.idle = IF behind THEN @ + 1 ELSE 0]
         done == IF f.idle >= 2 THEN invalidate(f, <<>>) ELSE [f |-> f, out |-> <<>>]
     IN  onFanout(done.f, done.out)
  /\ UNCHANGED <<journal, last, unread, tape, conn, view, shown, faults>>

\* A read fails, or an entry cannot be decoded.
ReaderFails ==
  /\ fan.stage = "run" /\ fan.mirror # None
  /\ faults > 0
  /\ LET done == invalidate(fan, <<>>) IN onFanout(done.f, done.out)
  /\ faults' = faults - 1
  /\ UNCHANGED <<journal, last, unread, tape, conn, view, shown>>

---------------------------------------------------------------------------
(* The recorded tape.  Its consumer applies every event once and in order  *)
(* (InOrderDelivery), from the stream or from the engine's own record.     *)

Bucket(at, width) == (at \div width) * width

Row(t) == [id |-> t, price |-> FillAt[t].price, qty |-> FillAt[t].qty, at |-> FillAt[t].at]

First(rows) == CHOOSE r \in rows : \A q \in rows : ~Before(q.id, r.id)
Newest(rows) == CHOOSE r \in rows : \A q \in rows : ~Before(r.id, q.id)
Total(rows, f(_)) == FoldSet(LAMBDA r, n : n + f(r), 0, rows)

\* The candle of a set of trades: ordered by sequence and index, never by time.
candlesOf(rows) ==
  [open |-> First(rows).price, close |-> Newest(rows).price,
   openId |-> First(rows).id, closeId |-> Newest(rows).id,
   high |-> Max({r.price : r \in rows}), low |-> Min({r.price : r \in rows}),
   base |-> Total(rows, LAMBDA r : r.qty), quote |-> Total(rows, LAMBDA r : r.price * r.qty),
   count |-> Cardinality(rows)]

InBucket(rows, width, b) == {r \in rows : Bucket(r.at, width) = b}

\* The candle of the latest minute only is kept up to date.
recomputeLatest(candles, rows, at) ==
  LET b == Bucket(at, 1)
  IN  IF \E x \in DOMAIN candles : x > b THEN candles
      ELSE [x \in DOMAIN candles \cup {b} |->
              IF x = b THEN candlesOf(InBucket(rows, 1, b)) ELSE candles[x]]

recomputeCandle(candles, rows, at) ==
  LET b == Bucket(at, 1)
  IN  [x \in DOMAIN candles \cup {b} |->
         IF x = b THEN candlesOf(InBucket(rows, 1, b)) ELSE candles[x]]

\* The next entry, as the consumer's transaction applies it.
Record ==
  /\ ~tape.halted
  /\ tape.next[1] <= LastSeq
  /\ LET k == tape.next
         rows == tape.trades \cup {Row(k)}
         next == [tape EXCEPT !.next = NextKey(k)]
     IN  tape' = IF EntryOf(k).fill
                 THEN [next EXCEPT !.trades = rows,
                                   !.candles = recomputeCandle(@, rows, Row(k).at)]
                 ELSE next
  /\ UNCHANGED <<journal, last, unread, fan, hub, wire, conn, view, shown, faults>>

rebuildCandles(rows) ==
  [b \in {Bucket(r.at, 1) : r \in rows} |-> candlesOf(InBucket(rows, 1, b))]

\* Wider candles, put together from the minute ones.
listCandles(candles, width) ==
  LET of(b) == {candles[x] : x \in {y \in DOMAIN candles : Bucket(y, width) = b}}
      minutes(b) == {y \in DOMAIN candles : Bucket(y, width) = b}
      opens(b) == CHOOSE c \in of(b) : \A d \in of(b) : ~Before(d.openId, c.openId)
      closes(b) == CHOOSE c \in of(b) : \A d \in of(b) : ~Before(c.closeId, d.closeId)
      sum(b, f(_)) == FoldSet(LAMBDA y, n : n + f(candles[y]), 0, minutes(b))
  IN  [b \in {Bucket(y, width) : y \in DOMAIN candles} |->
         [open |-> opens(b).open, close |-> closes(b).close,
          openId |-> opens(b).openId, closeId |-> closes(b).closeId,
          high |-> Max({c.high : c \in of(b)}), low |-> Min({c.low : c \in of(b)}),
          base |-> sum(b, LAMBDA c : c.base), quote |-> sum(b, LAMBDA c : c.quote),
          count |-> sum(b, LAMBDA c : c.count)]]

candlesFromTrades(rows, width) ==
  [b \in {Bucket(r.at, width) : r \in rows} |-> candlesOf(InBucket(rows, width, b))]

---------------------------------------------------------------------------
(* Subscriptions and the browser *)

EmptyBook == [status |-> "empty", seq |-> -1, book |-> NoBook,
              truncated |-> FALSE, needs |-> FALSE]

\* onopen: every channel is asked for again, and the server has kept nothing.
Connect(c) ==
  /\ conn[c] = "connecting"
  /\ conn' = [conn EXCEPT ![c] = "open"]
  /\ wire' = [wire EXCEPT ![c] = <<>>]
  /\ hub' = [hub EXCEPT !.asked = @ \cup {<<channel, c>> : channel \in hub.channels},
                        !.book = @ \ {c}, !.trades = @ \ {c}, !.fetching = @ \ {c}]
  /\ UNCHANGED <<journal, last, unread, fan, tape, view, shown, faults>>

\* Snapshot and registration are one synchronous step.
SubscribeBook(c) ==
  /\ <<"book", c>> \in hub.asked
  /\ wire' = [wire EXCEPT ![c] = sendRaw(@, bookSnapshot)]
  /\ hub' = [detached(hub, wire') EXCEPT !.asked = @ \ {<<"book", c>>}, !.book = @ \cup {c}]
  /\ UNCHANGED <<journal, last, unread, fan, tape, conn, view, shown, faults>>

\* Trades are read after registration; a live one may come first.
SubscribeTrades(c) ==
  /\ <<"trades", c>> \in hub.asked
  /\ hub' = [hub EXCEPT !.asked = @ \ {<<"trades", c>>},
                        !.trades = @ \cup {c}, !.fetching = @ \cup {c}]
  /\ UNCHANGED <<journal, last, unread, fan, tape, wire, conn, view, shown, faults>>

recentTrades == [type |-> "trades", ids |-> {r.id : r \in tape.trades}]

SendTrades(c) ==
  /\ c \in hub.fetching
  /\ wire' = [wire EXCEPT ![c] = sendRaw(@, recentTrades)]
  /\ hub' = detached([hub EXCEPT !.fetching = @ \ {c}], wire')
  /\ UNCHANGED <<journal, last, unread, fan, tape, conn, view, shown, faults>>

\* After a resynchronisation the recorded tape is sent to everyone again.
ReplayTrades ==
  /\ hub.replays
  /\ LET w == broadcast(<<recentTrades>>)
     IN  wire' = w /\ hub' = [detached(hub, w) EXCEPT !.replays = FALSE]
  /\ UNCHANGED <<journal, last, unread, fan, tape, conn, view, shown, faults>>

applyBookMessage(v, x) ==
  CASE x.type = "snapshot" ->
         [status |-> "live", seq |-> x.seq, book |-> x.book,
          truncated |-> x.truncated, needs |-> FALSE]
    [] x.type = "resync" -> IF v.status = "empty" THEN v ELSE [v EXCEPT !.status = "stale"]
    [] x.type = "delta" ->
         IF v.status # "live" \/ x.seq <= v.seq THEN v
         ELSE IF x.seq # v.seq + 1 THEN [v EXCEPT !.status = "stale", !.needs = TRUE]
         ELSE [v EXCEPT !.seq = x.seq, !.book = apply(@, x.changes)]

\* The tape merges by trade id.
mergeTrades(ids, x) ==
  CASE x.type = "trade" -> ids \cup {x.id}
    [] x.type = "trades" -> ids \cup x.ids
    [] OTHER -> ids

\* onmessage: a book with a sequence missing makes the client reconnect.
Receive(c) ==
  /\ conn[c] = "open" /\ wire[c] # <<>> /\ Head(wire[c]) # Cut
  /\ LET x == Head(wire[c])
         v == IF IsBook(x) THEN applyBookMessage(view[c], x) ELSE view[c]
     IN  /\ view' = [view EXCEPT ![c] = v]
         /\ shown' = [shown EXCEPT ![c] = mergeTrades(@, x)]
         /\ conn' = IF v.needs THEN [conn EXCEPT ![c] = "connecting"] ELSE conn
         /\ wire' = [wire EXCEPT ![c] = IF v.needs THEN <<>> ELSE Tail(@)]
         /\ hub' = IF v.needs THEN [hub EXCEPT !.book = @ \ {c}, !.trades = @ \ {c},
                                               !.fetching = @ \ {c}]
                   ELSE hub
  /\ UNCHANGED <<journal, last, unread, fan, tape, faults>>

\* onclose: the server closed it, and the client schedules a reconnect.
OnClose(c) ==
  /\ conn[c] = "open" /\ wire[c] # <<>> /\ Head(wire[c]) = Cut
  /\ conn' = [conn EXCEPT ![c] = "connecting"]
  /\ wire' = [wire EXCEPT ![c] = <<>>]
  /\ hub' = [hub EXCEPT !.asked = {a \in @ : a[2] # c}]
  /\ UNCHANGED <<journal, last, unread, fan, tape, view, shown, faults>>

\* The network drops the socket, with what is on its way.
Disconnect(c) ==
  /\ conn[c] = "open"
  /\ faults > 0
  /\ faults' = faults - 1
  /\ conn' = [conn EXCEPT ![c] = "connecting"]
  /\ wire' = [wire EXCEPT ![c] = <<>>]
  /\ hub' = [hub EXCEPT !.asked = {a \in @ : a[2] # c}, !.book = @ \ {c},
                        !.trades = @ \ {c}, !.fetching = @ \ {c}]
  /\ UNCHANGED <<journal, last, unread, fan, tape, view, shown>>

---------------------------------------------------------------------------

Init ==
  /\ journal = <<>> /\ last = <<0, 0>> /\ unread = <<>>
  /\ fan = [stage |-> "run", mirror |-> None, pending |-> NoPending, idle |-> 0]
  /\ \E s \in Scenarios :
       /\ tape = [next |-> <<1, 0>>, trades |-> {}, candles |-> <<>>, halted |-> s.halted]
       /\ hub = [channels |-> s.channels, asked |-> {}, book |-> {}, trades |-> {},
                 fetching |-> {}, replays |-> FALSE]
       /\ faults = s.faults
  /\ wire = [c \in Clients |-> <<>>]
  /\ conn = [c \in Clients |-> "connecting"]
  /\ view = [c \in Clients |-> EmptyBook]
  /\ shown = [c \in Clients |-> {}]

FanoutStep == SeekToEnd \/ Resync \/ Read \/ Idle
HubStep == ReplayTrades \/ \E c \in Clients : SubscribeBook(c) \/ SubscribeTrades(c) \/ SendTrades(c)
ClientStep == \E c \in Clients : Connect(c) \/ Receive(c) \/ OnClose(c)
Fault == Republish \/ Trim \/ ResyncUnanswered \/ ReaderFails \/ \E c \in Clients : Disconnect(c)

Next == Command \/ Publish \/ FanoutStep \/ Record \/ HubStep \/ ClientStep \/ Fault

Spec == /\ Init /\ [][Next]_vars
        /\ WF_vars(Publish) /\ WF_vars(FanoutStep) /\ WF_vars(HubStep) /\ WF_vars(ClientStep)

---------------------------------------------------------------------------
(* Properties *)

\* A book the fan-out vouches for, and a book a browser draws as live, is the
\* engine's book at the sequence it names: every level it has is right, and it
\* has every level unless it says it was truncated.
BookIsRight ==
  /\ fan.mirror # None => fan.mirror.book = BookAt(fan.mirror.seq)
  /\ \A c \in Clients :
       view[c].status = "live" =>
         \A l \in Levels : \/ view[c].book[l] = BookAt(view[c].seq)[l]
                           \/ view[c].truncated /\ view[c].book[l] = 0

\* Whatever minutes the trades fell in, the stored candles are what a rebuild
\* gives, and wider candles made from them are those of the trades themselves.
CandlesAgree ==
  /\ tape.candles = rebuildCandles(tape.trades)
  /\ \A w \in Widths : listCandles(tape.candles, w) = candlesFromTrades(tape.trades, w)

\* What a browser draws is true at the place it names: the live book, and the
\* candles at every width.
ShownIsTrue == BookIsRight /\ CandlesAgree

\* Once the engine is quiet every browser that shows a book comes to draw it as
\* it is, after lost and repeated entries, failed reads, lost sockets and slow ones.
ScreenCatchesUp ==
  <>[]("book" \in hub.channels =>
         \A c \in Clients : view[c].status = "live" /\ view[c].seq = LastSeq)

\* A browser whose trade channel has gone quiet shows every recorded trade the
\* fan-out has passed: the recorded tape fills the holes of the live one.
TapeHasNoHole ==
  \A c \in Clients :
    (c \in hub.trades \ hub.fetching /\ ~hub.replays /\ wire[c] = <<>>) =>
      \A r \in tape.trades : r.id[1] <= fan.mirror.seq => r.id \in shown[c]

=============================================================================
