----------------------------- MODULE Portfolio ------------------------------
(***************************************************************************)
(* What a user's holdings were worth over time: the pricer that records     *)
(* price ticks (apps/api/src/workers/pricer.ts and the two price sources),  *)
(* and the history a request projects from the ledger's entries and those   *)
(* ticks (apps/api/src/services/portfolio.service.ts, packages/portfolio).  *)
(* The pricer and a request each take one step per await, while entries are *)
(* posted and time passes.  A row is stamped when its writer begins and     *)
(* can be read when the writer ends, at most WriteLag later.                *)
(***************************************************************************)
EXTENDS Integers, Sequences, FiniteSets, SequencesExt, FiniteSetsExt

CONSTANTS Registries,   \* cluster -> set of [asset, symbol, unit]
          Cluster,      \* the cluster the requests ask about
          FeedIds,      \* symbol -> the source's name for it
          Bodies,       \* answers of the source: id -> a price, or not a number
          Shapes,       \* range -> [span, points]; a span of 0 is the whole history
          Amounts,      \* signed amounts an entry may carry
          MAX_ENTRIES,
          WriteLag,
          MaxEntries,   \* bound: entries posted
          MaxPriceFetches,  \* bound: passes of the pricer
          MaxClock      \* bound on time

NotANumber == -1
NoPrice == -1
Failed == [ok |-> FALSE, quotes |-> {}]

VARIABLES clock, entries, ticks, pricing, fetches, request, history

portfolioVars == <<clock, entries, ticks, pricing, fetches, request, history>>

PricerIdle == [at |-> "idle", stamp |-> 0, write |-> {}]
RequestIdle == [at |-> "idle", range |-> "", now |-> 0, since |-> -1, rows |-> <<>>]
NoHistory == [now |-> -1, points |-> <<>>, truncated |-> FALSE]

PortfolioInit ==
  /\ clock = 0
  /\ entries = <<>>
  /\ ticks = {}
  /\ pricing = PricerIdle
  /\ fetches = 0
  /\ request = RequestIdle
  /\ history = NoHistory

Registry == Registries[Cluster]
HeldAssets == {r.asset : r \in Registry}
unitOf(asset) == (CHOOSE r \in Registry : r.asset = asset).unit

-----------------------------------------------------------------------------
(* Prices.                                                                   *)

\* One symbol may stand for an asset on each of several clusters.
targets(symbol) ==
  UNION {{[cluster |-> c, asset |-> r.asset] : r \in {q \in Registries[c] : q.symbol = symbol}} :
         c \in DOMAIN Registries}

Symbols == {r.symbol : r \in UNION {Registries[c] : c \in DOMAIN Registries}}

\* CoinGecko: an entry without a number is skipped, and a price that is not
\* positive fails the whole fetch.
coingeckoFetch(body) ==
  LET priced == {s \in Symbols \cap DOMAIN FeedIds :
                   FeedIds[s] \in DOMAIN body /\ body[FeedIds[s]] # NotANumber}
  IN  IF \E s \in priced : body[FeedIds[s]] <= 0 THEN Failed
      ELSE [ok |-> TRUE, quotes |-> {[symbol |-> s, price |-> body[FeedIds[s]]] : s \in priced}]

\* Pyth: an entry that cannot be scaled is skipped.
pythFetch(body) ==
  [ok |-> TRUE,
   quotes |-> {[symbol |-> s, price |-> body[FeedIds[s]]] :
                 s \in {s \in Symbols \cap DOMAIN FeedIds :
                          FeedIds[s] \in DOMAIN body /\ body[FeedIds[s]] # NotANumber}}]

\* Passes are an interval apart.
runPricer ==
  /\ pricing.at = "idle"
  /\ fetches < MaxPriceFetches
  /\ \A k \in ticks : k.at < clock
  /\ pricing' = [pricing EXCEPT !.at = "fetching"]
  /\ fetches' = fetches + 1
  /\ UNCHANGED <<clock, entries, ticks, request, history>>

\* All ticks of one pass carry the moment its answer arrived.  A fetch that
\* fails or brings nothing usable ends the pass.
quotesArrive ==
  /\ pricing.at = "fetching"
  /\ \E answer \in {Failed} \cup {coingeckoFetch(b) : b \in Bodies} \cup {pythFetch(b) : b \in Bodies} :
       LET write == UNION {{[cluster |-> g.cluster, asset |-> g.asset, price |-> q.price,
                             at |-> clock] : g \in targets(q.symbol)} : q \in answer.quotes}
       IN  pricing' = IF write = {} THEN PricerIdle
                      ELSE [at |-> "recording", stamp |-> clock, write |-> write]
  /\ UNCHANGED <<clock, entries, ticks, fetches, request, history>>

recordTicks ==
  /\ pricing.at = "recording"
  /\ \E written \in BOOLEAN : ticks' = IF written THEN ticks \cup pricing.write ELSE ticks
  /\ pricing' = PricerIdle
  /\ UNCHANGED <<clock, entries, fetches, request, history>>

\* The ticks of a window, and of each asset the last one before it.
seriesForWindowOnly(assets, from, to) ==
  {k \in ticks : k.cluster = Cluster /\ k.asset \in assets /\ k.at >= from /\ k.at <= to}

seriesFor(assets, from, to) ==
  LET mine == {k \in ticks : k.cluster = Cluster /\ k.asset \in assets}
      before(a) == {k \in mine : k.asset = a /\ k.at < from}
  IN  {k \in mine : k.at >= from /\ k.at <= to}
      \cup UNION {{k \in before(a) : \A l \in before(a) : l.at <= k.at} : a \in assets}

-----------------------------------------------------------------------------
(* The projection.                                                           *)

\* Division of bigints drops the fraction, towards zero.
valueOf(amount, price, unit) ==
  IF amount >= 0 THEN (amount * price) \div unit ELSE -((-amount * price) \div unit)

\* The ticks of an asset in the order they are walked, and where the walk is
\* when it has passed every tick up to a moment.
priceAt(series, walk, at) ==
  LET reached == {i \in walk.index + 1..Len(series) :
                    \A j \in walk.index + 1..i : series[j].at <= at}
      index == IF reached = {} THEN walk.index ELSE Max(reached)
  IN  [index |-> index, last |-> IF index = 0 THEN NoPrice ELSE series[index].price]

\* One bucket: the entries up to it are added to the running balances, and
\* each asset met so far is valued at the last price known then.
projectBucket(rows, series, state, at) ==
  LET taken == {i \in state.cursor + 1..Len(rows) :
                  \A j \in state.cursor + 1..i : rows[j].at <= at}
      cursor == state.cursor + Cardinality(taken)
      met == {rows[i].asset : i \in 1..cursor}
      balances == [a \in met |->
        (IF a \in DOMAIN state.balances THEN state.balances[a] ELSE 0)
        + MapThenSumSet(LAMBDA i : IF rows[i].asset = a THEN rows[i].amount ELSE 0, taken)]
      walks == [a \in HeldAssets |->
        IF a \in met THEN priceAt(series[a], state.walks[a], at) ELSE state.walks[a]]
      priced == {a \in met : walks[a].last # NoPrice}
  IN  [cursor |-> cursor, balances |-> balances, walks |-> walks,
       points |-> Append(state.points,
         [at |-> at, balances |-> balances,
          total |-> MapThenSumSet(LAMBDA a : valueOf(balances[a], walks[a].last, unitOf(a)), priced),
          complete |-> \A a \in met \ priced : balances[a] = 0])]

projectSeries(rows, found, buckets) ==
  LET series == [a \in HeldAssets |->
        SetToSortSeq({k \in found : k.asset = a}, LAMBDA k, l : k.at < l.at)]
      empty == [cursor |-> 0, balances |-> <<>>, points |-> <<>>,
                walks |-> [a \in HeldAssets |-> [index |-> 0, last |-> NoPrice]]]
      step(state, at) == projectBucket(rows, series, state, at)
  IN  FoldLeft(step, empty, buckets).points

\* Evenly spaced moments, rounded to a whole one, the last of them now.
windowStart(range, now, since) ==
  IF Shapes[range].span # 0 THEN now - Shapes[range].span
  ELSE IF since >= 0 THEN since ELSE now - 1

bucketsFor(range, now, since) ==
  LET start == windowStart(range, now, since)
      span == now - start
      gaps == Shapes[range].points - 1
  IN  IF span <= 0 THEN <<now>>
      ELSE [i \in 1..gaps |-> start + ((2 * span * (i - 1) + gaps) \div (2 * gaps))] \o <<now>>

-----------------------------------------------------------------------------
(* A request.                                                                *)

firstRows(rows, n) == SubSeq(rows, 1, Min({n, Len(rows)}))

\* The user's entries on the cluster up to a moment, oldest first.
availableEntries(now) == SelectSeq(entries, LAMBDA row : row.at <= now)

beginHistory ==
  /\ request.at = "idle"
  /\ history = NoHistory
  /\ \E range \in DOMAIN Shapes :
       request' = [RequestIdle EXCEPT !.at = IF Shapes[range].span = 0 THEN "since" ELSE "entries",
                                      !.range = range, !.now = clock]
  /\ UNCHANGED <<clock, entries, ticks, pricing, fetches, history>>

firstEntryAt ==
  /\ request.at = "since"
  /\ LET rows == availableEntries(request.now)
     IN  request' = [request EXCEPT !.at = "entries",
                                    !.since = IF rows = <<>> THEN -1 ELSE rows[1].at]
  /\ UNCHANGED <<clock, entries, ticks, pricing, fetches, history>>

readEntries ==
  /\ request.at = "entries"
  /\ request' = [request EXCEPT !.at = "prices",
                                !.rows = firstRows(availableEntries(request.now), MAX_ENTRIES + 1)]
  /\ UNCHANGED <<clock, entries, ticks, pricing, fetches, history>>

valueAt ==
  /\ request.at = "prices"
  /\ LET rows == firstRows(request.rows, MAX_ENTRIES)
         buckets == bucketsFor(request.range, request.now, request.since)
         found == seriesFor({rows[i].asset : i \in DOMAIN rows}, buckets[1], request.now)
     IN  history' = [now |-> request.now, points |-> projectSeries(rows, found, buckets),
                     truncated |-> Len(request.rows) > MAX_ENTRIES]
  /\ request' = RequestIdle
  /\ UNCHANGED <<clock, entries, ticks, pricing, fetches>>

\* The answer has been used; another request may follow.
historyShown ==
  /\ history # NoHistory
  /\ history' = NoHistory
  /\ UNCHANGED <<clock, entries, ticks, pricing, fetches, request>>

-----------------------------------------------------------------------------
(* The ledger and time.                                                      *)

\* An entry becomes readable, stamped up to WriteLag ago; rows are kept, as
\* they are read, in the order of their stamps.
PostEntry ==
  /\ Len(entries) < MaxEntries
  /\ \E asset \in HeldAssets, amount \in Amounts, at \in clock - WriteLag..clock :
       /\ at >= 0
       /\ LET row == [asset |-> asset, amount |-> amount, at |-> at]
              place == Cardinality({i \in DOMAIN entries : entries[i].at <= at})
          IN  entries' = InsertAt(entries, place + 1, row)
  /\ UNCHANGED <<clock, ticks, pricing, fetches, request, history>>

PortfolioTick ==
  /\ clock < MaxClock
  /\ pricing.at = "recording" => clock < pricing.stamp + WriteLag
  /\ clock' = clock + 1
  /\ UNCHANGED <<entries, ticks, pricing, fetches, request, history>>

PortfolioNext ==
  \/ runPricer \/ quotesArrive \/ recordTicks
  \/ beginHistory \/ firstEntryAt \/ readEntries \/ valueAt \/ historyShown
  \/ PostEntry \/ PortfolioTick

-----------------------------------------------------------------------------
(* Properties.                                                               *)

BalanceAt(asset, at) ==
  MapThenSumSet(LAMBDA i : IF entries[i].asset = asset /\ entries[i].at <= at
                           THEN entries[i].amount ELSE 0, DOMAIN entries)

LatestTicks(asset, at) ==
  LET known == {k \in ticks : k.cluster = Cluster /\ k.asset = asset /\ k.at <= at}
  IN  {k \in known : \A l \in known : l.at <= k.at}

\* A history that was not cut short says of every moment older than a write
\* can take what the ledger and the ticks say of it: the balances are the sums
\* of the entries up to it, the total values each of them at the last price
\* recorded up to it, and the point is complete exactly when no balance is
\* left without a price (series.ts:87-171, price.repository.ts:70-104,
\* ranges.ts:55-69, portfolio.service.ts:75-140).
HistoryIsRight ==
  (history # NoHistory /\ ~history.truncated) =>
    \A i \in DOMAIN history.points :
      LET p == history.points[i]
          held == {a \in HeldAssets : BalanceAt(a, p.at) # 0}
          priced == {a \in held : LatestTicks(a, p.at) # {}}
      IN  p.at < history.now - WriteLag =>
            /\ \A a \in HeldAssets :
                 BalanceAt(a, p.at) = IF a \in DOMAIN p.balances THEN p.balances[a] ELSE 0
            /\ p.total = MapThenSumSet(
                 LAMBDA a : valueOf(BalanceAt(a, p.at),
                                    (CHOOSE k \in LatestTicks(a, p.at) : TRUE).price, unitOf(a)),
                 priced)
            /\ p.complete <=> held = priced

=============================================================================
