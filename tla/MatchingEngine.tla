--------------------------- MODULE MatchingEngine ---------------------------
(***************************************************************************)
(* The matching engine of one market (services/matching/src/engine.rs and  *)
(* book.rs) with the journal and the snapshot it is recovered from         *)
(* (runtime.rs, snapshot.rs).                                              *)
(*                                                                         *)
(* The engine is one thread.  A command is journaled (SubmitWithLevels),   *)
(* applied (Start, then one Match per maker, then Dispose) and completed   *)
(* (Done); the steps between are the iterations of the match loop, and     *)
(* nothing but a crash can come between two of them.  A crash (Restart)    *)
(* loads the newest snapshot, and the commands journaled after it are      *)
(* applied again by the same steps, as recover_with does.                  *)
(*                                                                         *)
(* An order is named by the sequence of the command that places it: the    *)
(* gateway never uses an order id twice, and rested_at_seq is that         *)
(* sequence.  Zero stands for None wherever the code has an Option<Price>. *)
(***************************************************************************)
EXTENDS Integers, Sequences, FiniteSets, FiniteSetsExt

CONSTANTS MaxPrice,        \* prices are 1 .. MaxPrice
          MaxQty,          \* the largest quantity an order asks for
          MaxCommands,     \* bound: commands a behaviour journals
          Accounts,        \* accounts, known for self-trade prevention only
          Requests,        \* the order requests clients send
          Amendments,      \* the [price, qty] of the amends clients send
          NewStatuses,     \* the statuses operators set
          ConfigStatus,    \* the status in the configuration of every boot
          TickSize, LotSize, MinNotional, PriceScale, CollarBps, MaxAmount,
          SnapshotEveryN,  \* snapshot_every_n
          Faults           \* {"status"}: a restart may find a status in the
                           \* configuration that the snapshot was not taken in

Sides == {"buy", "sell"}
Prices == 1 .. MaxPrice
Seqs == 1 .. MaxCommands
MarketStatus == {"pre_open", "open", "post_only", "halted"}
StpMode == {"cancel_taker", "cancel_maker", "cancel_both"}
TimeInForce == {"GTC", "IOC", "FOK"}

OrderRequest == [side: Sides, type: {"limit", "market"}, tif: TimeInForce,
                 price: Nat, qty: Nat, post_only: BOOLEAN,
                 stp: StpMode, account: Accounts]

ASSUME EngineAssumption ==
  /\ MaxPrice \in Nat \ {0}
  /\ MaxQty \in Nat \ {0}
  /\ MaxCommands \in Nat
  /\ Requests \subseteq {r \in OrderRequest : r.price <= MaxPrice /\ r.qty <= MaxQty}
  /\ Amendments \subseteq [price: Prices, qty: 0 .. MaxQty]
  /\ NewStatuses \subseteq MarketStatus
  /\ ConfigStatus \in MarketStatus
  /\ TickSize \in Nat \ {0}
  /\ LotSize \in Nat \ {0}
  /\ MinNotional \in Nat
  /\ PriceScale \in Nat \ {0}
  /\ CollarBps \in Nat
  /\ MaxAmount \in Nat
  /\ SnapshotEveryN \in Nat \ {0}
  /\ Faults \subseteq {"status"}

VARIABLES
  book,     \* OrderBook: index of live orders, ladders, last trade, touched levels
  status,   \* MarketConfig.status
  tail,     \* the journal after the snapshot: commands, and what each first gave out
  pos,      \* how many commands of tail this engine has applied
  live,     \* FALSE while recover_with replays
  phase,    \* where the engine is in apply
  taker,    \* the locals of place
  events,   \* the events of the command being applied
  snapshot, \* the snapshot file, and (history) the status when it was written
  before,   \* history: the book when the command being applied began
  depth     \* the book as the level changes given out so far describe it

matchingVars == <<book, status, tail, pos, live, phase, taker, events, snapshot, before, depth>>

(***************************************************************************)
(* The book                                                                *)
(***************************************************************************)
NoLevel == [queue |-> <<>>, total |-> 0]

EmptyBook == [orders |-> <<>>,
              levels |-> [s \in Sides |-> [p \in Prices |-> NoLevel]],
              last |-> 0,
              touched |-> {}]

Opposite(side) == IF side = "buy" THEN "sell" ELSE "buy"

Live(b) == DOMAIN b.orders

Present(b, side) == {p \in Prices : b.levels[side][p].queue # <<>>}

\* Bids descend from the highest price, asks ascend from the lowest.
BestPrice(b, side) ==
  IF Present(b, side) = {} THEN 0
  ELSE IF side = "buy" THEN Max(Present(b, side)) ELSE Min(Present(b, side))

Better(side, p, q) == IF side = "buy" THEN p > q ELSE p < q

Minus(m, n) == IF m > n THEN m - n ELSE 0

\* Take qty off a level; a level with no live quantity is dropped whole.
Reduced(level, qty) ==
  IF Minus(level.total, qty) = 0 THEN NoLevel
  ELSE [level EXCEPT !.total = Minus(@, qty)]

Popped(level) == IF Len(level.queue) <= 1 THEN NoLevel
                 ELSE [level EXCEPT !.queue = Tail(@)]

\* A queue without the tombstones in front of its first live order.
Pruned(queue, alive) ==
  LET K == {k \in 1 .. Len(queue) : queue[k] \in alive}
  IN  IF K = {} THEN <<>> ELSE SubSeq(queue, Min(K), Len(queue))

PrunedLevel(level, alive) ==
  LET q == Pruned(level.queue, alive)
  IN  IF q = <<>> THEN NoLevel ELSE [level EXCEPT !.queue = q]

\* front_live: the book with the level's front pruned.
FrontLive(b, side, p) ==
  [b EXCEPT !.levels[side][p] = PrunedLevel(@, Live(b))]

Without(orders, id) == [i \in DOMAIN orders \ {id} |-> orders[i]]

\* Mutant: an order comes to rest in front of its level.
RestInFront(b, id, order) ==
  [b EXCEPT !.orders = [i \in Live(b) \cup {id} |-> IF i = id THEN order ELSE b.orders[i]],
            !.levels[order.side][order.price] =
                [queue |-> <<id>> \o @.queue, total |-> @.total + order.remaining],
            !.touched = @ \cup {<<order.side, order.price>>}]

Rest(b, id, order) ==
  [b EXCEPT !.orders = [i \in Live(b) \cup {id} |-> IF i = id THEN order ELSE b.orders[i]],
            !.levels[order.side][order.price] =
                [queue |-> Append(@.queue, id), total |-> @.total + order.remaining],
            !.touched = @ \cup {<<order.side, order.price>>}]

\* Mutant: the front order leaves its queue although some of it is left.
ConsumeFrontPops(b, side, p, qty) ==
  LET id == Head(b.levels[side][p].queue)
      left == Minus(b.orders[id].remaining, qty)
  IN  [b EXCEPT !.orders = IF left = 0 THEN Without(@, id)
                           ELSE [@ EXCEPT ![id].remaining = left],
                !.levels[side][p] = Popped(Reduced(@, qty)),
                !.touched = @ \cup {<<side, p>>}]

\* Mutant: an order filled whole stays in the index.
ConsumeFrontKeeps(b, side, p, qty) ==
  LET id == Head(b.levels[side][p].queue)
  IN  [b EXCEPT !.orders[id].remaining = Minus(@, qty),
                !.levels[side][p] = Reduced(@, qty),
                !.touched = @ \cup {<<side, p>>}]

\* Consume qty from the front order of a pruned level.
ConsumeFront(b, side, p, qty) ==
  LET id == Head(b.levels[side][p].queue)
      left == Minus(b.orders[id].remaining, qty)
      level == Reduced(b.levels[side][p], qty)
  IN  [b EXCEPT !.orders = IF left = 0 THEN Without(@, id)
                           ELSE [@ EXCEPT ![id].remaining = left],
                !.levels[side][p] = IF left = 0 THEN Popped(level) ELSE level,
                !.touched = @ \cup {<<side, p>>}]

\* Mutant: the level's total is not reduced.
RemoveKeepsTotal(b, id) ==
  [b EXCEPT !.orders = Without(@, id),
            !.touched = @ \cup {<<b.orders[id].side, b.orders[id].price>>}]

\* Mutant: the level is not recorded as changed.
RemoveUntouched(b, id) ==
  LET order == b.orders[id]
  IN  [b EXCEPT !.orders = Without(@, id),
                !.levels[order.side][order.price] = Reduced(@, order.remaining)]

\* remove: the id stays in its queue as a tombstone.
Remove(b, id) ==
  LET order == b.orders[id]
  IN  [b EXCEPT !.orders = Without(@, id),
                !.levels[order.side][order.price] = Reduced(@, order.remaining),
                !.touched = @ \cup {<<order.side, order.price>>}]

\* The quantity at every level, as a depth view shows it.
Totals(b) == [s \in Sides |-> [p \in Prices |-> b.levels[s][p].total]]

\* take_level_changes applied to a depth view: absolute quantities now.
WithChanges(d, b) ==
  [s \in Sides |-> [p \in Prices |->
      IF <<s, p>> \in b.touched THEN b.levels[s][p].total ELSE d[s][p]]]

(***************************************************************************)
(* The checks before matching                                              *)
(***************************************************************************)
ReferencePrice(b) ==
  IF b.last # 0 THEN b.last
  ELSE IF BestPrice(b, "buy") # 0 /\ BestPrice(b, "sell") # 0
       THEN (BestPrice(b, "buy") + BestPrice(b, "sell")) \div 2
       ELSE 0

Deviation(reference) == (reference * CollarBps) \div 10000

CollarLower(reference) == Minus(reference, Deviation(reference))

CollarUpper(reference) == reference + Deviation(reference)

Notional(price, qty) == (price * qty) \div PriceScale

Validate(b, st, r) ==
  LET reference == ReferencePrice(b)
      judgedAt == IF r.price # 0 THEN r.price ELSE reference
  IN  /\ st \in {"open", "post_only"}
      /\ st = "post_only" => r.post_only
      /\ r.qty # 0
      /\ (r.type = "limit") <=> (r.price # 0)
      /\ r.post_only => r.type = "limit"
      /\ r.price % TickSize = 0
      /\ r.qty % LotSize = 0
      /\ judgedAt # 0
      /\ r.price # 0 /\ reference # 0 =>
           r.price \in CollarLower(reference) .. CollarUpper(reference)
      /\ Notional(judgedAt, r.qty) \in MinNotional .. MaxAmount

\* Mutant: equal prices do not cross.
CrossesStrictly(side, limit, resting) ==
  IF side = "buy" THEN resting < limit ELSE resting > limit

\* A taker of this side and limit takes an order resting at this price.
Crosses(side, limit, resting) ==
  IF side = "buy" THEN resting <= limit ELSE resting >= limit

WouldCross(b, side, price) ==
  LET best == BestPrice(b, Opposite(side))
  IN  best # 0 /\ Crosses(side, price, best)

\* The price place may trade up to: the limit, or the collar's edge.
CollarLimit(b, r) ==
  IF r.type = "limit" THEN r.price
  ELSE IF r.side = "buy" THEN CollarUpper(ReferencePrice(b))
  ELSE CollarLower(ReferencePrice(b))

\* Order i comes before order j when a taker walks the ladder.
Ahead(b, i, j) ==
  LET p == b.orders[i].price
      queue == b.levels[b.orders[i].side][p].queue
  IN  \/ Better(b.orders[i].side, p, b.orders[j].price)
      \/ /\ p = b.orders[j].price
         /\ \E m, n \in 1 .. Len(queue) : m < n /\ queue[m] = i /\ queue[n] = j

\* Mutant: the dry run counts past the taker's own orders.
FillablePastOwn(b, r, limit) ==
  MapThenSumSet(LAMBDA i : b.orders[i].remaining,
    {i \in Live(b) : /\ b.orders[i].side = Opposite(r.side)
                     /\ b.orders[i].account # r.account
                     /\ Crosses(r.side, limit, b.orders[i].price)})

\* fillable_qty: FOK's dry run, self-trade prevention included.
FillableQty(b, r, limit) ==
  LET crossed == {i \in Live(b) : /\ b.orders[i].side = Opposite(r.side)
                                  /\ Crosses(r.side, limit, b.orders[i].price)}
      own == {i \in crossed : b.orders[i].account = r.account}
      reached == {i \in crossed \ own :
                    r.stp = "cancel_maker" \/ \A j \in own : ~Ahead(b, j, i)}
  IN  MapThenSumSet(LAMBDA i : b.orders[i].remaining, reached)

(***************************************************************************)
(* Applying a command                                                      *)
(***************************************************************************)
\* Every command gives at least one event, so none is "not given out yet".
NotYet == <<>>

NoTaker == [id |-> 0]

Accepted(id, qty) == [type |-> "accepted", id |-> id, qty |-> qty]
Rejected(id) == [type |-> "rejected", id |-> id]
Cancelled(id, qty) == [type |-> "cancelled", id |-> id, qty |-> qty]
Expired(id, qty) == [type |-> "expired", id |-> id, qty |-> qty]
Fill(tk, mk, price, qty) ==
  [type |-> "fill", taker |-> tk, maker |-> mk, price |-> price, qty |-> qty]
StatusChanged(old, new) == [type |-> "status", previous |-> old, current |-> new]

Commands ==
  [op: {"place"}, request: Requests]
    \cup [op: {"cancel"}, id: Seqs]
    \cup [op: {"amend"}, id: Seqs, to: Amendments]
    \cup [op: {"status"}, status: NewStatuses]

LastSeq == snapshot.seq + pos

MatchingInit ==
  /\ book = EmptyBook
  /\ status = ConfigStatus
  /\ tail = <<>>
  /\ pos = 0
  /\ live = TRUE
  /\ phase = "idle"
  /\ taker = NoTaker
  /\ events = <<>>
  /\ snapshot = [book |-> EmptyBook, seq |-> 0, status |-> ConfigStatus]
  /\ before = EmptyBook
  /\ depth = Totals(EmptyBook)

\* submit_with_levels up to the journal.  A client names orders placed before.
SubmitWithLevels(c) ==
  /\ phase = "idle" /\ live /\ pos = Len(tail)
  /\ LastSeq < MaxCommands
  /\ c.op \in {"cancel", "amend"} => c.id <= LastSeq
  /\ tail' = Append(tail, [cmd |-> c, out |-> NotYet])
  /\ UNCHANGED <<book, status, pos, live, phase, taker, events, snapshot, before, depth>>

\* The next journaled command is handed to apply.
Applying(op) ==
  /\ phase = "idle" /\ pos < Len(tail)
  /\ tail[pos + 1].cmd.op = op
  /\ pos' = pos + 1
  /\ before' = book
  /\ UNCHANGED <<tail, live, snapshot, depth>>

Answered(evs) ==
  /\ events' = evs
  /\ phase' = "done"
  /\ taker' = NoTaker

\* place, up to the match loop, on a book b after the events evs.
Place(b, evs, id, r) ==
  LET limit == CollarLimit(b, r)
  IN  /\ book' = b
      /\ UNCHANGED status
      /\ IF \/ id \in Live(b)
            \/ ~Validate(b, status, r)
            \/ r.post_only /\ WouldCross(b, r.side, r.price)
         THEN Answered(Append(evs, Rejected(id)))
         ELSE IF r.tif = "FOK" /\ FillableQty(b, r, limit) < r.qty
         THEN Answered(Append(evs, Expired(id, r.qty)))
         ELSE /\ phase' = "match"
              /\ events' = evs
              /\ taker' = [id |-> id, request |-> r, remaining |-> r.qty,
                           limit |-> limit, stopped |-> FALSE]

StartPlace ==
  /\ Applying("place")
  /\ Place(book, <<>>, LastSeq + 1, tail[pos + 1].cmd.request)

StartCancel ==
  LET id == tail[pos + 1].cmd.id
  IN  /\ Applying("cancel")
      /\ UNCHANGED status
      /\ IF id \in Live(book)
         THEN /\ book' = Remove(book, id)
              /\ Answered(<<Cancelled(id, book.orders[id].remaining)>>)
         ELSE /\ UNCHANGED book
              /\ Answered(<<Rejected(id)>>)

\* What amend places instead of an order.
Replacement(order, to) ==
  [side |-> order.side, type |-> "limit", tif |-> "GTC", price |-> to.price,
   qty |-> to.qty, post_only |-> FALSE, stp |-> order.stp, account |-> order.account]

StartAmend ==
  LET c == tail[pos + 1].cmd
  IN  /\ Applying("amend")
      /\ IF c.id \in Live(book)
         THEN Place(Remove(book, c.id), <<Cancelled(c.id, book.orders[c.id].remaining)>>,
                    LastSeq + 1, Replacement(book.orders[c.id], c.to))
         ELSE /\ UNCHANGED <<book, status>>
              /\ Answered(<<Rejected(c.id)>>)

StartSetStatus ==
  /\ Applying("status")
  /\ status' = tail[pos + 1].cmd.status
  /\ Answered(<<StatusChanged(status, status')>>)
  /\ UNCHANGED book

\* The loop's view of the other side: what is best there, and in front of it.
Facing == Opposite(taker.request.side)
Best == BestPrice(book, Facing)
Reaches == /\ taker.remaining # 0
           /\ ~taker.stopped
           /\ Best # 0
           /\ Crosses(taker.request.side, taker.limit, Best)
Fronted == IF Reaches THEN FrontLive(book, Facing, Best) ELSE book
Matches == Reaches /\ Fronted.levels[Facing][Best].queue # <<>>
Maker == Head(Fronted.levels[Facing][Best].queue)

\* The front maker is the taker's own order: one iteration of the loop.
PreventSelfTrade ==
  /\ phase = "match"
  /\ Matches
  /\ book.orders[Maker].account = taker.request.account
  /\ IF taker.request.stp = "cancel_taker"
     THEN book' = Fronted /\ UNCHANGED events
     ELSE /\ book' = Remove(Fronted, Maker)
          /\ events' = Append(events, Cancelled(Maker, book.orders[Maker].remaining))
  /\ taker' = [taker EXCEPT !.stopped = taker.request.stp # "cancel_maker"]
  /\ UNCHANGED <<status, tail, pos, live, phase, snapshot, before, depth>>

\* The front maker is someone else's: one iteration of the loop.
Trade ==
  LET traded == Min({taker.remaining, book.orders[Maker].remaining})
  IN  /\ phase = "match"
      /\ Matches
      /\ book.orders[Maker].account # taker.request.account
      /\ book' = [ConsumeFront(Fronted, Facing, Best, traded) EXCEPT !.last = Best]
      /\ taker' = [taker EXCEPT !.remaining = @ - traded]
      /\ events' = Append(events, Fill(taker.id, Maker, Best, traded))
      /\ UNCHANGED <<status, tail, pos, live, phase, snapshot, before, depth>>

MayRest(r) == r.type = "limit" /\ r.tif = "GTC"

\* Mutant: a taker stopped by self-trade prevention is always rejected.
DispositionRejectsStopped(t, evs) ==
  IF t.stopped THEN Rejected(t.id)
  ELSE IF t.remaining = 0 \/ MayRest(t.request)
  THEN Accepted(t.id, t.remaining)
  ELSE Expired(t.id, t.remaining)

\* The one disposition of a taker after its fills.
Disposition(t, evs) ==
  IF t.stopped
  THEN IF \E k \in 1 .. Len(evs) : evs[k].type = "fill"
       THEN Expired(t.id, t.remaining)
       ELSE Rejected(t.id)
  ELSE IF t.remaining = 0 \/ MayRest(t.request)
  THEN Accepted(t.id, t.remaining)
  ELSE Expired(t.id, t.remaining)

RestingOrder(t) ==
  [account |-> t.request.account, side |-> t.request.side, price |-> t.request.price,
   remaining |-> t.remaining, stp |-> t.request.stp]

\* The loop is over.
Dispose ==
  /\ phase = "match"
  /\ ~Matches
  /\ book' = IF ~taker.stopped /\ taker.remaining # 0 /\ MayRest(taker.request)
             THEN Rest(Fronted, taker.id, RestingOrder(taker)) ELSE Fronted
  /\ Answered(Append(events, Disposition(taker, events)))
  /\ UNCHANGED <<status, tail, pos, live, snapshot, before, depth>>

(***************************************************************************)
(* Giving out, snapshots and recovery                                      *)
(***************************************************************************)
SnapshotIsDue == live /\ pos >= SnapshotEveryN

\* Mutant: the last trade price is not part of the snapshot.
SnapshotWithoutLast(b) == [book |-> [b EXCEPT !.last = 0], seq |-> LastSeq, status |-> status]

Snapshot(b) == [book |-> b, seq |-> LastSeq, status |-> status]

\* submit_with_levels after apply.  A command that is replayed gives nothing
\* out, unless the process died before it did (then the gap is republished).
Done ==
  LET first == tail[pos].out = NotYet
      clean == [book EXCEPT !.touched = {}]
  IN  /\ phase = "done"
      /\ phase' = "idle"
      /\ events' = <<>>
      /\ book' = clean
      /\ before' = clean
      /\ depth' = IF first THEN WithChanges(depth, book) ELSE depth
      /\ IF SnapshotIsDue
         THEN snapshot' = Snapshot(clean) /\ tail' = <<>> /\ pos' = 0
         ELSE /\ tail' = IF first THEN [tail EXCEPT ![pos].out = events] ELSE tail
              /\ UNCHANGED <<snapshot, pos>>
      /\ live' = (live \/ pos = Len(tail))
      /\ UNCHANGED <<status, taker>>

\* The process dies; recover_with loads the snapshot and the configuration.
Restart ==
  /\ snapshot.status = ConfigStatus \/ "status" \in Faults
  /\ book' = snapshot.book
  /\ before' = snapshot.book
  /\ status' = ConfigStatus
  /\ pos' = 0
  /\ live' = (tail = <<>>)
  /\ phase' = "idle"
  /\ taker' = NoTaker
  /\ events' = <<>>
  /\ UNCHANGED <<tail, snapshot, depth>>

MatchingNext ==
  \/ \E c \in Commands : SubmitWithLevels(c)
  \/ StartPlace
  \/ StartCancel
  \/ StartAmend
  \/ StartSetStatus
  \/ PreventSelfTrade
  \/ Trade
  \/ Dispose
  \/ Done
  \/ Restart

MatchingSpec == MatchingInit /\ [][MatchingNext]_matchingVars

(***************************************************************************)
(* Properties                                                              *)
(***************************************************************************)
Order == [account: Accounts, side: Sides, price: Prices, remaining: 1 .. MaxQty, stp: StpMode]

IsBook(b) ==
  /\ b \in [orders: {b.orders},
            levels: [Sides -> [Prices -> [queue: Seq(Seqs), total: Nat]]],
            last: 0 .. MaxPrice,
            touched: SUBSET (Sides \X Prices)]
  /\ Live(b) \subseteq Seqs
  /\ b.orders \in [Live(b) -> Order]

Event ==
  [type: {"accepted", "cancelled", "expired"}, id: Seqs, qty: 0 .. MaxQty]
    \cup [type: {"rejected"}, id: Seqs]
    \cup [type: {"fill"}, taker: Seqs, maker: Seqs, price: Prices, qty: 1 .. MaxQty]
    \cup [type: {"status"}, previous: MarketStatus, current: MarketStatus]

Taker == {NoTaker} \cup
  [id: Seqs, request: {r \in OrderRequest : r.price <= MaxPrice},
   remaining: 0 .. MaxQty, limit: Nat, stopped: BOOLEAN]

\* Every variable has its type; in particular no resting order is left with
\* nothing to trade, and a level's total never goes below zero.
MatchingTypeOK ==
  /\ IsBook(book)
  /\ status \in MarketStatus
  /\ tail \in Seq([cmd: Commands, out: Seq(Event)])
  /\ pos \in 0 .. Len(tail)
  /\ live \in BOOLEAN
  /\ phase \in {"idle", "match", "done"}
  /\ taker \in Taker
  /\ events \in Seq(Event)
  /\ snapshot \in [book: {snapshot.book}, seq: 0 .. MaxCommands, status: MarketStatus]
  /\ IsBook(snapshot.book)
  /\ IsBook(before)
  /\ depth \in [Sides -> [Prices -> Nat]]

Queue(side, p) == book.levels[side][p].queue

LiveAt(side, p) == {k \in 1 .. Len(Queue(side, p)) : Queue(side, p)[k] \in Live(book)}

\* A live order is in the queue of its own side and price, once, and in no
\* other queue.  (book.rs invariants_hold; a queue may hold tombstones.)
IndexAgrees ==
  \A id \in Live(book), s \in Sides, p \in Prices :
    LET at == {k \in 1 .. Len(Queue(s, p)) : Queue(s, p)[k] = id}
    IN  IF s = book.orders[id].side /\ p = book.orders[id].price
        THEN Cardinality(at) = 1
        ELSE at = {}

\* A level's running total is the quantity of its live orders, and a level
\* without any has left the ladder, so the best price is one that trades.
LevelsAddUp ==
  \A s \in Sides, p \in Prices :
    /\ book.levels[s][p].total =
         MapThenSumSet(LAMBDA k : book.orders[Queue(s, p)[k]].remaining, LiveAt(s, p))
    /\ Queue(s, p) # <<>> => LiveAt(s, p) # {}

\* The book is never crossed, between any two steps of the match loop.
NotCrossed ==
  \A p \in Present(book, "buy"), q \in Present(book, "sell") : p < q

\* Price-time priority: a fill takes an order for which no live order of its
\* side has a better price, nor the same price and an earlier place, and it
\* trades at that order's price.
TakesTheBest ==
  [][\A id \in Live(book) :
       /\ Len(events') = Len(events) + 1
       /\ events'[Len(events')].type = "fill"
       /\ events'[Len(events')].maker = id
       => LET maker == book.orders[id]
          IN  /\ events'[Len(events')].price = maker.price
              /\ \A j \in Live(book) \ {id} :
                   book.orders[j].side = maker.side =>
                     \/ Better(maker.side, maker.price, book.orders[j].price)
                     \/ maker.price = book.orders[j].price /\ id < j]_matchingVars

Resting(b, id) == IF id \in Live(b) THEN b.orders[id].remaining ELSE 0

Cmd == tail[pos].cmd

\* What the command being applied asks for, if it places an order.
Asked(id) ==
  IF id # LastSeq THEN 0
  ELSE IF Cmd.op = "place" THEN Cmd.request.qty
  ELSE IF Cmd.op = "amend" /\ Cmd.id \in Live(before) THEN Cmd.to.qty
  ELSE 0

FilledIn(evs, id) ==
  MapThenSumSet(LAMBDA k : evs[k].qty,
    {k \in 1 .. Len(evs) : evs[k].type = "fill" /\ id \in {evs[k].taker, evs[k].maker}})

ReleasedIn(evs, id) ==
  MapThenSumSet(LAMBDA k : IF evs[k].type = "rejected" THEN Asked(id) ELSE evs[k].qty,
    {k \in 1 .. Len(evs) : /\ evs[k].type \in {"rejected", "cancelled", "expired"}
                           /\ evs[k].id = id})

\* The events of a command account for every unit of every order: what rested
\* and what was asked for is what rests now, was filled or was released.
EventsConserve ==
  phase = "done" =>
    \A id \in Seqs :
      Resting(before, id) + Asked(id) =
        Resting(book, id) + FilledIn(events, id) + ReleasedIn(events, id)

\* A fill-or-kill order is filled whole or not at all, self-trade prevention
\* included: the dry run (fillable_qty) promises what the match loop does.
FillOrKill ==
  phase = "done" /\ Cmd.op = "place" =>
    (Cmd.request.tif = "FOK" => FilledIn(events, LastSeq) \in {0, Cmd.request.qty})

\* A reader who applied every level change given out has the engine's depth.
DepthAgrees ==
  phase = "idle" /\ live /\ pos = Len(tail) => depth = Totals(book)

\* What a command's events say of an order adds up to the order, and a
\* fill-or-kill order's to all of it or nothing.
OrdersAccountedFor == EventsConserve /\ FillOrKill

\* Index, ladders, totals and published depth describe one uncrossed book,
\* between any two steps of the match loop and through every mix of fills,
\* cancels, amends and tombstones (book.rs, invariants_hold).
BookIsSound == MatchingTypeOK /\ IndexAgrees /\ LevelsAddUp /\ NotCrossed /\ DepthAgrees

\* Snapshot plus journal tail gives what the engine gave before it died: each
\* command replayed repeats its events.
ReplayRepeats ==
  phase = "done" /\ tail[pos].out # NotYet => events = tail[pos].out

=============================================================================
