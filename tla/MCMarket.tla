------------------------------ MODULE MCMarket -------------------------------
(***************************************************************************)
(* What a browser shows of the book and the tape, the forms it submits, and *)
(* the quotes the maker keeps on the book.  They share no state, so `part`  *)
(* says which of them a behaviour is about and the others rest in an        *)
(* initial state.                                                           *)
(*                                                                          *)
(* One browser; a command rests bids at both prices, or fills the better    *)
(* one twice and rests the remainder as an ask; the minutes of the fills    *)
(* go backwards; a snapshot has room for one level a side.  One market      *)
(* quoted at one funded level, or at three levels that cannot be paid for.  *)
(* An order that fits, one outside the collar and a market order, typed and *)
(* submitted twice with two answers lost.                                   *)
(***************************************************************************)
EXTENDS MarketData, MarketMaker, OrderEntry, TLC

CONSTANT c1

VARIABLE part

\* A screen with a book while the tape is halted, and one with a tape.
Screens == { [channels |-> {"book"}, halted |-> TRUE, faults |-> 1],
             [channels |-> {"trades"}, halted |-> FALSE, faults |-> 0] }

Commands ==
  { [events |-> 1, fills |-> 0, changes |-> <<"buy", 1>> :> 1 @@ <<"buy", 2>> :> 1],
    [events |-> 2, fills |-> 2, changes |-> <<"buy", 2>> :> 0 @@ <<"sell", 2>> :> 1] }

Fills ==
  [t \in (1 .. MaxSeq) \X (0 .. 1) |->
     [price |-> 2 - t[2] + t[1], qty |-> t[1], at |-> (4 * MaxSeq - 3 * t[1] - t[2])]]

Quoted == [tickSize |-> 1, lotSize |-> 1, minNotional |-> 1, collarBps |-> 300]

Quoting ==
  { [levels |-> 1, halfSpreadBps |-> 100, levelStepBps |-> 50, levelQty |-> 2,
     funds |-> [base |-> 2, quote |-> 200]],
    [levels |-> 3, halfSpreadBps |-> 0, levelStepBps |-> 50, levelQty |-> 1,
     funds |-> [base |-> 0, quote |-> 0]] }

RandomWalk == [start |-> 100, band |-> 300, unit |-> 3]
OneTier == <<[minVolume |-> 0, makerBps |-> 0, takerBps |-> 100]>>

Limit(price, postOnly) == [side |-> "buy", type |-> "limit", timeInForce |-> "GTC",
                           postOnly |-> postOnly, price |-> price, qty |-> 1]
TypedOrders == {Limit(2, FALSE), Limit(9, TRUE),
                [Limit(2, TRUE) EXCEPT !.side = "sell", !.type = "market"]}
TypedAmounts == {[fits |-> TRUE, qty |-> 1], [fits |-> TRUE, qty |-> 2],
                 [fits |-> FALSE, qty |-> 1], [fits |-> TRUE, qty |-> 9]}
OnScreen == [tickSize |-> 1, lotSize |-> 1, minNotional |-> 1, collarBps |-> 5000,
             status |-> "open", baseAsset |-> "base", quoteAsset |-> "quote"]
Available == [base |-> 2, quote |-> 4]

marketVars == <<part, vars, makerVars, entryVars>>

MarketInit ==
  /\ part \in {"feed", "maker", "forms"}
  /\ Init /\ MakerInit /\ EntryInit
  \* the parts at rest start in one state
  /\ part # "feed" => hub.channels = {"trades"}
  /\ part # "maker" => config.levels = 1 /\ feed.price # NONE
  /\ part # "forms" => desk.form = "amend"

FeedNext == part = "feed" /\ Next /\ UNCHANGED <<part, makerVars, entryVars>>
QuotingNext == part = "maker" /\ MakerNext /\ UNCHANGED <<part, vars, entryVars>>
FormsNext == part = "forms" /\ EntryNext /\ UNCHANGED <<part, vars, makerVars>>

\* Timers and sockets keep the feed going.  setInterval keeps starting the
\* maker's passes and a pass's calls return; the sweeper resolves what the
\* engine left unanswered.
MarketSpec ==
  /\ MarketInit /\ [][FeedNext \/ QuotingNext \/ FormsNext]_marketVars
  /\ WF_vars(part = "feed" /\ Publish) /\ WF_vars(part = "feed" /\ FanoutStep)
  /\ WF_vars(part = "feed" /\ HubStep) /\ WF_vars(part = "feed" /\ ClientStep)
  /\ WF_makerVars(part = "maker" /\ Pass) /\ WF_makerVars(part = "maker" /\ Answered)

=============================================================================
