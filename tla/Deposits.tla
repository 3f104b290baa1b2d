------------------------------ MODULE Deposits ------------------------------
(***************************************************************************)
(* How value that reaches a user's own address becomes a balance: the       *)
(* custody service issues the address, the Solana adapter reads pages of    *)
(* the chain, the indexer walks them per address and per token account, and *)
(* the deposit pipeline credits each transfer once.  Value also leaves and  *)
(* returns outside the indexer's sight: withdrawals spend from the address, *)
(* and a deallocation pays the address from the clearing pool.              *)
(*                                                                          *)
(* The chain is a sequence of transactions and a finalised prefix of it.  A *)
(* signature is its position, 0 standing for null.  The ledger is that of   *)
(* module Ledger; a serializable database transaction is one step.          *)
(***************************************************************************)
EXTENDS Ledger

CONSTANTS Sol, Usdc, Other,   \* native asset, a listed token, an unlisted one
          Asks,               \* one caller of getOrCreateDepositAddress each
          AskedBy,            \* the user each of them acts for
          Transfers,          \* the transactions senders may put on the chain
          Moves,              \* withdrawals that are approved during the run
          MaxTx,              \* bound on the length of the chain
          PageSize,           \* options.pageSize
          MaxAddresses,       \* options.maxAddressesPerCycle
          RentMin,            \* the rent-exempt minimum of an account
          OpeningTrading,     \* what each user has in the clearing pool at first
          Faults,             \* where polls may fail: "native", "token"
          MaxFailures         \* bound on failed polls and restarts

ASSUME DepositsAssumption ==
  /\ RentMin \in Nat /\ PageSize \in Nat \ {0} /\ MaxAddresses \in Nat \ {0}
  /\ AskedBy \in [Asks -> Owners]

VARIABLES asking,      \* per caller: "start", "provision", "commit", "done"
          addresses,   \* rows of the addresses table, in creation order
          chain, final,
          cursor,      \* per address owner and scanned account: last signature
          deposits,    \* rows of the deposits table
          books,       \* the ledger
          moves,       \* rows of the withdrawals table, with their state
          ix,          \* the indexer's cycle
          failures

vars == <<asking, addresses, chain, final, cursor, deposits, books, moves, ix, failures>>

-----------------------------------------------------------------------------
(* Issuing addresses.                                                        *)

findActiveDepositAddress(u) == {i \in DOMAIN addresses : addresses[i].user = u}

claimNextDerivationIndex == Len(addresses)

\* getOrCreateDepositAddress: the key is provisioned outside the database
\* transaction, which looks for the address again before it creates one.
Ask(q) ==
  /\ asking[q] = "start"
  /\ asking' = [asking EXCEPT ![q] =
       IF findActiveDepositAddress(AskedBy[q]) # {} THEN "done" ELSE "provision"]
  /\ UNCHANGED <<addresses, chain, final, cursor, deposits, books, moves, ix, failures>>

\* provisionKey is idempotent in the key reference, which names the user.
Provision(q) ==
  /\ asking[q] = "provision"
  /\ asking' = [asking EXCEPT ![q] = "commit"]
  /\ UNCHANGED <<addresses, chain, final, cursor, deposits, books, moves, ix, failures>>

\* Mutation: the second look at the address is left out.
CommitWithoutLooking(q) ==
  /\ asking[q] = "commit"
  /\ asking' = [asking EXCEPT ![q] = "done"]
  /\ addresses' = Append(addresses, [user |-> AskedBy[q], index |-> claimNextDerivationIndex])
  /\ UNCHANGED <<chain, final, cursor, deposits, books, moves, ix, failures>>

Commit(q) ==
  /\ asking[q] = "commit"
  /\ asking' = [asking EXCEPT ![q] = "done"]
  /\ addresses' = IF findActiveDepositAddress(AskedBy[q]) # {} THEN addresses
                  ELSE Append(addresses, [user |-> AskedBy[q], index |-> claimNextDerivationIndex])
  /\ UNCHANGED <<chain, final, cursor, deposits, books, moves, ix, failures>>

-----------------------------------------------------------------------------
(* The chain.  A transaction pays (to, asset, amount), may open the token    *)
(* account it pays into, may spend from one user's address, and may fail.    *)

HasAddress(u) == \E i \in DOMAIN addresses : addresses[i].user = u

Payment(u, a, n) ==
  [pays |-> <<[to |-> u, asset |-> a, amount |-> n]>>, opens |-> FALSE, spends |-> <<>>, ok |-> TRUE]

Spending(u, a, n) ==
  [pays |-> <<>>, opens |-> FALSE, spends |-> <<[from |-> u, asset |-> a, amount |-> n]>>, ok |-> TRUE]

Land(t) ==
  /\ Len(chain) < MaxTx
  /\ \A p \in Range(t.pays) : HasAddress(p.to)
  /\ chain' = Append(chain, t)
  /\ UNCHANGED <<asking, addresses, final, cursor, deposits, books, moves, ix, failures>>

Finalize ==
  /\ final < Len(chain)
  /\ final' = final + 1
  /\ UNCHANGED <<asking, addresses, chain, cursor, deposits, books, moves, ix, failures>>

\* What finalised transactions left at a user's address.
getBalance(u, a) ==
  LET sum(legs, mine(_)) ==
        FoldLeft(LAMBDA n, l : IF mine(l) /\ l.asset = a THEN n + l.amount ELSE n, 0, legs)
      change(t) == IF t.ok THEN sum(t.pays, LAMBDA p : p.to = u)
                                - sum(t.spends, LAMBDA s : s.from = u)
                   ELSE 0
  IN FoldLeft(LAMBDA n, t : n + change(t), 0, SubSeq(chain, 1, final))

-----------------------------------------------------------------------------
(* Reading the chain.                                                        *)

\* A signature is listed for the accounts its transaction names: the owner's
\* address when it receives or spends SOL or when their token account is
\* opened, and the token account when it receives.
Names(t, u, scan) ==
  IF scan = "native"
  THEN \/ \E p \in Range(t.pays) : p.to = u /\ (p.asset = Sol \/ t.opens)
       \/ \E s \in Range(t.spends) : s.from = u
  ELSE \E p \in Range(t.pays) : p.to = u /\ p.asset = Usdc

Event(i, k, to) ==
  LET p == chain[i].pays[k]
  IN [tx |-> i, index |-> k, to |-> to, asset |-> p.asset, amount |-> p.amount]

\* SOL balance changes of the scanned account.  Opening a token account
\* leaves its rent there: an event for an address no wallet owns.
parseTransfers(i, u, scan) ==
  LET t == chain[i]
      received == SelectSeq([k \in DOMAIN t.pays |-> Event(i, k, u)],
                            LAMBDA e : t.pays[e.index].to = u /\ e.asset = Sol)
  IN IF scan = "native" THEN received
     ELSE IF t.opens THEN <<[tx |-> i, index |-> 0, to |-> House, asset |-> Sol, amount |-> RentMin]>>
     ELSE <<>>

\* Token balance changes of any account the user owns.
parseTokenTransfers(i, u) ==
  LET t == chain[i]
  IN SelectSeq([k \in DOMAIN t.pays |-> Event(i, k, u)],
               LAMBDA e : t.pays[e.index].to = u /\ e.asset # Sol)

\* The newest PageSize signatures after the cursor, oldest first, without
\* the failed ones; the next cursor is the newest of them.
fetchTransfers(u, scan, after) ==
  LET listed == SelectSeq([i \in 1..final |-> i],
                          LAMBDA i : i > after /\ Names(chain[i], u, scan))
      newest == SubSeq(listed, Len(listed) - Min({PageSize, Len(listed)}) + 1, Len(listed))
      eligible == SelectSeq(newest, LAMBDA i : chain[i].ok)
  IN [transfers |-> FlattenSeq([j \in DOMAIN eligible |->
        parseTransfers(eligible[j], u, scan) \o parseTokenTransfers(eligible[j], u)]),
      nextCursor |-> IF eligible = <<>> THEN after ELSE Last(eligible)]

-----------------------------------------------------------------------------
(* The deposit pipeline.                                                     *)

isAllowed(asset) == asset \in {Sol, Usdc}

\* Mutation: nothing is looked up before a transfer is recorded.
recordedUnchecked(e) == FALSE

\* The unique key of the deposits table: chain, signature, instruction.
recorded(e) == \E d \in deposits : d.tx = e.tx /\ d.index = e.index

Row(e, rent, status) ==
  [tx |-> e.tx, index |-> e.index, user |-> e.to, asset |-> e.asset,
   amount |-> e.amount, rent |-> rent, status |-> status]

\* creditTransfer: an address of no wallet leaves no row, an unlisted asset
\* leaves an ignored row, anything else is recorded and posted together.
creditTransfer(e, rentReserved) ==
  LET rent == Min({rentReserved, e.amount})
  IN IF ~HasAddress(e.to) \/ recorded(e) THEN UNCHANGED <<deposits, books>>
     ELSE IF ~isAllowed(e.asset)
     THEN /\ deposits' = deposits \cup {Row(e, 0, "ignored")}
          /\ UNCHANGED books
     ELSE /\ deposits' = deposits \cup {Row(e, rent, "credited")}
          /\ books' = postTransaction(books, postDeposit(e.to, e.asset, e.amount, rent))

-----------------------------------------------------------------------------
(* The indexer: one cycle at a time, one address after the other, the        *)
(* address itself before its token account.                                  *)

Idle == [pc |-> "idle", todo |-> <<>>, scan |-> "native", page |-> <<>>, rent |-> 0, high |-> 0]

Watched == Head(ix.todo)

NextAddress ==
  IF Len(ix.todo) = 1 THEN Idle ELSE [Idle EXCEPT !.pc = "poll", !.todo = Tail(ix.todo)]

\* Mutation: only the address itself is scanned.
NextScanOwnOnly == NextAddress

\* The next account of this address, or the first of the next address.
NextScan ==
  IF ix.scan = "native"
  THEN [ix EXCEPT !.pc = "poll", !.scan = "token", !.page = <<>>, !.high = 0]
  ELSE NextAddress

\* runOnce: the watched addresses with the cursors read now, from the row of
\* the address itself.
listWatched ==
  [i \in 1..Min({MaxAddresses, Len(addresses)}) |->
     [user |-> addresses[i].user, cursor |-> cursor[addresses[i].user].native]]

StartCycle ==
  /\ ix.pc = "idle"
  /\ addresses # <<>>
  /\ ix' = [Idle EXCEPT !.pc = "poll", !.todo = listWatched]
  /\ UNCHANGED <<asking, addresses, chain, final, cursor, deposits, books, moves, failures>>

\* Only the native asset has a minimum account balance; the adapter throws
\* for any other.
getMinimumAccountBalanceThrows(asset) == asset # Sol

\* advance is a plain upsert of the row of the scanned account.
advance(u, scan, signature) == [cursor EXCEPT ![u][scan] = signature]

\* pollAddress up to its loop.  The page is fetched after the cursor of the
\* address whichever account is scanned.
Poll ==
  /\ ix.pc = "poll"
  /\ LET page == fetchTransfers(Watched.user, ix.scan, Watched.cursor)
         own == ix.scan = "native"
         throws == own /\ getMinimumAccountBalanceThrows(Head(page.transfers).asset)
         reading == [ix EXCEPT !.pc = "credit", !.page = page.transfers, !.high = 0,
                               !.rent = IF own THEN RentMin ELSE 0]
     IN \/ /\ page.transfers = <<>>
           /\ cursor' = IF page.nextCursor # Watched.cursor
                        THEN advance(Watched.user, ix.scan, page.nextCursor) ELSE cursor
           /\ ix' = NextScan
        \/ /\ page.transfers # <<>>
           /\ ix' = IF throws THEN NextAddress ELSE reading
           /\ UNCHANGED cursor
  /\ UNCHANGED <<asking, addresses, chain, final, deposits, books, moves, failures>>

\* Mutation: rent is taken from every transfer of the page.
applicableRentAlways(u) == ix.rent

\* Rent is reserved by the transfer that first funds the address.
applicableRent(u) == IF \E d \in deposits : d.user = u THEN 0 ELSE ix.rent

Credit ==
  /\ ix.pc = "credit" /\ ix.page # <<>>
  /\ creditTransfer(Head(ix.page), applicableRent(Watched.user))
  /\ ix' = [ix EXCEPT !.page = Tail(@), !.high = Head(ix.page).tx]
  /\ UNCHANGED <<asking, addresses, chain, final, cursor, moves, failures>>

Advance ==
  /\ ix.pc = "credit" /\ ix.page = <<>>
  /\ cursor' = advance(Watched.user, ix.scan, ix.high)
  /\ ix' = NextScan
  /\ UNCHANGED <<asking, addresses, chain, final, deposits, books, moves, failures>>

\* Mutation: the cursor moves when the page is read, before it is credited.
PollFailsAdvanced ==
  /\ ix.pc # "idle" /\ ix.scan \in Faults /\ failures < MaxFailures
  /\ failures' = failures + 1
  /\ ix' = NextAddress
  /\ cursor' = IF ix.page = <<>> THEN cursor ELSE advance(Watched.user, ix.scan, Last(ix.page).tx)
  /\ UNCHANGED <<asking, addresses, chain, final, deposits, books, moves>>

\* Any call of pollAddress may throw: the address is abandoned, not the cycle.
PollFails ==
  /\ ix.pc # "idle" /\ ix.scan \in Faults /\ failures < MaxFailures
  /\ failures' = failures + 1
  /\ ix' = NextAddress
  /\ UNCHANGED <<asking, addresses, chain, final, cursor, deposits, books, moves>>

\* The process stops or crashes; the cycle's memory is lost.
Restart ==
  /\ ix.pc # "idle" /\ ix.scan \in Faults /\ failures < MaxFailures
  /\ failures' = failures + 1
  /\ ix' = Idle
  /\ UNCHANGED <<asking, addresses, chain, final, cursor, deposits, books, moves>>

-----------------------------------------------------------------------------
(* Value that leaves and returns on the withdrawal lifecycle: locked, then   *)
(* on the chain, then settled once final (module Withdrawals has the rest).  *)

Lock(w) ==
  LET r == moves[w]
      source == IF r.purpose = "deallocation" THEN userTradingAvailable(r.user, Sol)
                ELSE userCustodyAvailable(r.user, Sol)
  IN /\ r.status = "requested" /\ HasAddress(r.user)
     /\ held(books, source) >= r.amount
     /\ books' = postTransaction(books,
          IF r.purpose = "deallocation" THEN postTradingLock(r.user, Sol, r.amount)
          ELSE postWithdrawalLock(r.user, Sol, r.amount))
     /\ moves' = [moves EXCEPT ![w].status = "locked"]
     /\ UNCHANGED <<asking, addresses, chain, final, cursor, deposits, ix, failures>>

\* A deallocation pays the user's own address from the clearing address.
Broadcast(w) ==
  LET r == moves[w]
  IN /\ r.status = "locked" /\ Len(chain) < MaxTx
     /\ chain' = Append(chain, IF r.purpose = "deallocation" THEN Payment(r.user, Sol, r.amount)
                               ELSE Spending(r.user, Sol, r.amount))
     /\ moves' = [moves EXCEPT ![w].status = "broadcast", ![w].tx = Len(chain) + 1]
     /\ UNCHANGED <<asking, addresses, final, cursor, deposits, books, ix, failures>>

SettleMove(w) ==
  LET r == moves[w]
  IN /\ r.status = "broadcast" /\ r.tx <= final
     /\ books' = postTransaction(books,
          IF r.purpose = "deallocation" THEN postDeallocation(r.user, Sol, r.amount, Sol, 0)
          ELSE postWithdrawalSettlement(r.user, Sol, r.amount, Sol, 0))
     /\ moves' = [moves EXCEPT ![w].status = "settled"]
     /\ UNCHANGED <<asking, addresses, chain, final, cursor, deposits, ix, failures>>

-----------------------------------------------------------------------------
OpeningBooks ==
  FoldSet(LAMBDA u, bk : postTransaction(postTransaction(postTransaction(bk,
            postDeposit(u, Sol, OpeningTrading[u], 0)),
            postWithdrawalLock(u, Sol, OpeningTrading[u])),
            postAllocation(u, Sol, OpeningTrading[u], Sol, 0)),
          [acct \in {} |-> 0], {u \in Owners : OpeningTrading[u] > 0})

Init ==
  /\ asking = [q \in Asks |-> "start"]
  /\ addresses = <<>>
  /\ chain = <<>> /\ final = 0
  /\ cursor = [u \in Owners |-> [native |-> 0, token |-> 0]]
  /\ deposits = {}
  /\ books = OpeningBooks
  /\ moves = [w \in DOMAIN Moves |-> Moves[w] @@ [status |-> "requested", tx |-> 0]]
  /\ ix = Idle
  /\ failures = 0

Next ==
  \/ \E q \in Asks : Ask(q)
  \/ \E q \in Asks : Provision(q)
  \/ \E q \in Asks : Commit(q)
  \/ \E t \in Transfers : Land(t)
  \/ Finalize
  \/ StartCycle
  \/ Poll
  \/ Credit
  \/ Advance
  \/ PollFails
  \/ Restart
  \/ \E w \in DOMAIN moves : Lock(w)
  \/ \E w \in DOMAIN moves : Broadcast(w)
  \/ \E w \in DOMAIN moves : SettleMove(w)

\* The chain finalises what it accepted, the indexer's timer is re-armed after
\* every cycle, and the withdrawal workers poll what is broadcast.
Fairness ==
  /\ WF_vars(Finalize)
  /\ WF_vars(StartCycle \/ Poll \/ Credit \/ Advance)
  /\ \A w \in DOMAIN Moves : WF_vars(SettleMove(w))

Spec == Init /\ [][Next]_vars /\ Fairness

-----------------------------------------------------------------------------
(* Properties.                                                               *)

\* The payments of finalised successful transactions to users.
Arrived ==
  {<<i, k>> \in (1..final) \X (1..2) : chain[i].ok /\ k \in DOMAIN chain[i].pays}

\* However often two requests of one user and of different users interleave,
\* a user has at most one deposit address and no two rows share an index
\* (custody.service.ts, getOrCreateDepositAddress).
OneAddressEach ==
  \A i, j \in DOMAIN addresses :
     i # j => /\ addresses[i].user # addresses[j].user
              /\ addresses[i].index # addresses[j].index

\* What the vault tier claims to hold for a user never exceeds what the chain
\* has finalised at their address, up to withdrawals whose settlement is not
\* posted yet: no transfer is credited twice, by any scan, failure or restart.
CreditIsOnChain ==
  \A u \in Owners, a \in {Sol, Usdc} :
    LET unsettled == {w \in DOMAIN moves : moves[w].user = u /\ moves[w].purpose = "external"
                                           /\ moves[w].status = "broadcast"}
        out == IF a = Sol THEN MapThenSumSet(LAMBDA w : moves[w].amount, unsettled) ELSE 0
    IN held(books, chainAssets(u, a)) <= getBalance(u, a) + out

\* Rent is reserved from a user at most once, and never beyond the minimum
\* (indexer.ts: only the transfer that first funds an address).
RentOnce ==
  \A u \in Owners :
    LET reserved == {d \in deposits : d.user = u /\ d.rent > 0}
    IN /\ Cardinality(reserved) <= 1
       /\ \A d \in reserved : d.asset = Sol /\ d.rent <= RentMin

\* The cursor of an address never stands past a SOL transfer to it that has no
\* row: whatever fails between reading a page and moving the cursor, the
\* transfer is read again.
NothingBehindTheCursor ==
  \A <<i, k>> \in Arrived :
    LET p == chain[i].pays[k]
    IN p.asset = Sol /\ i <= cursor[p.to].native
       => \E d \in deposits : d.tx = i /\ d.index = k

\* One address a user, no credit without value behind it, rent once, and no
\* transfer passed over, at every point of a cycle at which it may fail.
DepositsAreRight ==
  OneAddressEach /\ CreditIsOnChain /\ RentOnce /\ NothingBehindTheCursor

\* Every finalised payment to a user's address is eventually in the deposits
\* table, credited or, when its asset is not listed, ignored: again and again
\* nothing that arrived is missing from it.
EveryDepositRecorded ==
  []<>(\A <<i, k>> \in Arrived : \E d \in deposits : d.tx = i /\ d.index = k)

=============================================================================
