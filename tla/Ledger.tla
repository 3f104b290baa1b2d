------------------------------- MODULE Ledger -------------------------------
(***************************************************************************)
(* The double-entry ledger of packages/ledger as pure operators: accounts,  *)
(* entries, the transaction builder, every posting the platform makes, and  *)
(* the projections and invariant checks computed from entries.  A posting   *)
(* is a sequence of entries, and the empty sequence stands for a posting    *)
(* the code refuses by throwing: nothing is written.                        *)
(*                                                                          *)
(* The books are kept as a function from the accounts that exist to their   *)
(* signed balance (debits positive), which is what projectAll computes from *)
(* the entries: the ledger is append-only, so the two carry the same        *)
(* information for every check here.                                        *)
(***************************************************************************)
EXTENDS Integers, Sequences, FiniteSets, SequencesExt, FiniteSetsExt

CONSTANTS Owners,      \* users that can own accounts
          House        \* the owner of platform accounts (ownerId null)

ASSUME HouseAssumption == House \notin Owners

-----------------------------------------------------------------------------
(* Accounts.  A ledger asset key is <<cluster, asset>>.                      *)

CUSTODY_ACCOUNT_TYPES == {"user_custody_available", "user_custody_locked"}

TRADING_ACCOUNT_TYPES ==
  {"user_trading_available", "user_order_locked", "user_trading_locked"}

USER_LIABILITY_ACCOUNT_TYPES == CUSTODY_ACCOUNT_TYPES \cup TRADING_ACCOUNT_TYPES

NON_NEGATIVE_ACCOUNT_TYPES ==
  USER_LIABILITY_ACCOUNT_TYPES \cup
  {"clearing_assets", "house_trading_fees", "chain_assets", "house_rent", "house_fees"}

ASSET_CLASS == {"clearing_assets", "chain_assets"}

account(type, ownerId, asset) == [type |-> type, ownerId |-> ownerId, asset |-> asset]

userCustodyAvailable(u, a) == account("user_custody_available", u, a)
userCustodyLocked(u, a) == account("user_custody_locked", u, a)
chainAssets(u, a) == account("chain_assets", u, a)
houseChainAssets(a) == account("chain_assets", House, a)
houseFees(a) == account("house_fees", House, a)
houseRent(a) == account("house_rent", House, a)
userTradingAvailable(u, a) == account("user_trading_available", u, a)
userOrderLocked(u, a) == account("user_order_locked", u, a)
userTradingLocked(u, a) == account("user_trading_locked", u, a)
clearingAssets(a) == account("clearing_assets", House, a)
houseTradingFees(a) == account("house_trading_fees", House, a)

-----------------------------------------------------------------------------
(* Entries and the builder.                                                  *)

debit(acct, amount) == [account |-> acct, amount |-> amount, direction |-> "debit"]
credit(acct, amount) == [account |-> acct, amount |-> amount, direction |-> "credit"]

signedAmount(e) == IF e.direction = "debit" THEN e.amount ELSE -e.amount

\* The sum of the signed amounts of the entries that satisfy P.
Net(entries, P(_)) ==
  FoldLeft(LAMBDA sum, e : IF P(e) THEN sum + signedAmount(e) ELSE sum, 0, entries)

Refused == <<>>

\* buildTransaction throws unless there are two entries, every amount is
\* positive, all assets are of one cluster, and each asset sums to zero.
buildTransaction(entries) ==
  LET assets == {e.account.asset : e \in Range(entries)}
      valid == /\ Len(entries) >= 2
               /\ \A e \in Range(entries) : e.amount > 0
               /\ \A a, b \in assets : a[1] = b[1]
               /\ \A a \in assets : Net(entries, LAMBDA e : e.account.asset = a) = 0
  IN IF valid THEN entries ELSE Refused

\* The zero legs that some postings leave out.
NonZero(entries) == SelectSeq(entries, LAMBDA e : e.amount # 0)

-----------------------------------------------------------------------------
(* Postings.                                                                 *)

postDeposit(u, a, amount, rent) ==
  IF amount <= 0 \/ rent < 0 \/ rent > amount THEN Refused
  ELSE buildTransaction(
         <<debit(chainAssets(u, a), amount)>> \o
         NonZero(<<credit(userCustodyAvailable(u, a), amount - rent),
                   credit(houseRent(a), rent)>>))

postWithdrawalLock(u, a, amount) ==
  buildTransaction(<<debit(userCustodyAvailable(u, a), amount),
                     credit(userCustodyLocked(u, a), amount)>>)

postWithdrawalRelease(u, a, amount) ==
  buildTransaction(<<debit(userCustodyLocked(u, a), amount),
                     credit(userCustodyAvailable(u, a), amount)>>)

\* The network fee is the house's: it leaves house_fees and the house's own
\* on-chain position, in the native asset, whatever asset was withdrawn.
houseFeeLegs(feeAsset, fee) ==
  NonZero(<<debit(houseFees(feeAsset), fee), credit(houseChainAssets(feeAsset), fee)>>)

postWithdrawalSettlement(u, a, amount, feeAsset, fee) ==
  buildTransaction(<<debit(userCustodyLocked(u, a), amount),
                     credit(chainAssets(u, a), amount)>> \o houseFeeLegs(feeAsset, fee))

postHouseFunding(a, amount) ==
  buildTransaction(<<debit(houseChainAssets(a), amount), credit(houseFees(a), amount)>>)

postNonceAccountRent(a, amount) ==
  buildTransaction(<<debit(houseChainAssets(a), amount), credit(houseRent(a), amount)>>)

postSweepFee(a, amount) ==
  buildTransaction(<<debit(houseFees(a), amount), credit(houseChainAssets(a), amount)>>)

postTokenAccountRent(u, native, amount) ==
  buildTransaction(<<debit(chainAssets(u, native), amount), credit(houseRent(native), amount)>>)

postOrderHold(u, a, amount) ==
  buildTransaction(<<debit(userTradingAvailable(u, a), amount),
                     credit(userOrderLocked(u, a), amount)>>)

postOrderRelease(u, a, amount) ==
  buildTransaction(<<debit(userOrderLocked(u, a), amount),
                     credit(userTradingAvailable(u, a), amount)>>)

postAllocation(u, a, amount, feeAsset, fee) ==
  buildTransaction(<<debit(userCustodyLocked(u, a), amount),
                     credit(chainAssets(u, a), amount),
                     debit(clearingAssets(a), amount),
                     credit(userTradingAvailable(u, a), amount)>>
                   \o houseFeeLegs(feeAsset, fee))

\* Mutation: what leaves the pool is booked at the house's wallet.
postDeallocationToHouse(u, a, amount, feeAsset, fee) ==
  buildTransaction(<<debit(userTradingLocked(u, a), amount),
                     credit(clearingAssets(a), amount),
                     debit(houseChainAssets(a), amount),
                     credit(userCustodyAvailable(u, a), amount)>>
                   \o houseFeeLegs(feeAsset, fee))

postDeallocation(u, a, amount, feeAsset, fee) ==
  buildTransaction(<<debit(userTradingLocked(u, a), amount),
                     credit(clearingAssets(a), amount),
                     debit(chainAssets(u, a), amount),
                     credit(userCustodyAvailable(u, a), amount)>>
                   \o houseFeeLegs(feeAsset, fee))

postTradingLock(u, a, amount) ==
  buildTransaction(<<debit(userTradingAvailable(u, a), amount),
                     credit(userTradingLocked(u, a), amount)>>)

postTradingRelease(u, a, amount) ==
  buildTransaction(<<debit(userTradingLocked(u, a), amount),
                     credit(userTradingAvailable(u, a), amount)>>)

postTradeSettlement(buyer, seller, base, quote, qty, notional, buyerFee, sellerFee) ==
  IF \/ qty <= 0 \/ notional < 0 \/ buyerFee < 0 \/ sellerFee < 0
     \/ sellerFee > notional
     \/ base = quote
  THEN Refused
  ELSE buildTransaction(
         NonZero(<<debit(userOrderLocked(buyer, quote), notional + buyerFee),
                   credit(userTradingAvailable(seller, quote), notional - sellerFee),
                   credit(houseTradingFees(quote), buyerFee + sellerFee),
                   debit(userOrderLocked(seller, base), qty),
                   credit(userTradingAvailable(buyer, base), qty)>>))

-----------------------------------------------------------------------------
(* The books: postTransaction creates the accounts it touches on first use   *)
(* and appends the entries.                                                  *)

balanceOf(books, acct) == IF acct \in DOMAIN books THEN books[acct] ELSE 0

postTransaction(books, entries) ==
  LET touched == {e.account : e \in Range(entries)}
  IN [acct \in DOMAIN books \cup touched |->
        balanceOf(books, acct) + Net(entries, LAMBDA e : e.account = acct)]

-----------------------------------------------------------------------------
(* Projections.                                                              *)

normalBalance(type, balance) == IF type \in ASSET_CLASS THEN balance ELSE -balance

held(books, acct) == normalBalance(acct.type, balanceOf(books, acct))

\* The normal balance of all accounts of the given types in one asset.
total(books, types, a) ==
  MapThenSumSet(LAMBDA acct : held(books, acct),
                {acct \in DOMAIN books : acct.type \in types /\ acct.asset = a})

assetsOf(books) == {acct.asset : acct \in DOMAIN books}

getUserBalances(books, u, cluster) ==
  {[asset |-> a,
    available |-> held(books, userCustodyAvailable(u, a)),
    locked |-> held(books, userCustodyLocked(u, a))] :
      a \in {acct.asset : acct \in {x \in DOMAIN books :
               /\ x.ownerId = u
               /\ x.type \in CUSTODY_ACCOUNT_TYPES
               /\ x.asset[1] = cluster}}}

getUserTradingBalances(books, u, cluster) ==
  {[asset |-> a,
    available |-> held(books, userTradingAvailable(u, a)),
    locked |-> held(books, userOrderLocked(u, a)) + held(books, userTradingLocked(u, a))] :
      a \in {acct.asset : acct \in {x \in DOMAIN books :
               /\ x.ownerId = u
               /\ x.type \in TRADING_ACCOUNT_TYPES
               /\ x.asset[1] = cluster}}}

\* One user's own vault position: what their addresses should hold against
\* what the platform owes them.  Positions with both at zero are left out.
getSegregatedPositions(books, cluster) ==
  LET position(u, a) ==
        [ownerId |-> u, asset |-> a,
         chainAssets |-> held(books, chainAssets(u, a)),
         liability |-> held(books, userCustodyAvailable(u, a))
                       + held(books, userCustodyLocked(u, a))]
      owned == {<<acct.ownerId, acct.asset>> : acct \in {x \in DOMAIN books :
                  x.ownerId # House /\ x.asset[1] = cluster}}
  IN {p \in {position(o[1], o[2]) : o \in owned} : p.chainAssets # 0 \/ p.liability # 0}

getClearingTotals(books, cluster) ==
  {[asset |-> a,
    tradingLiabilities |-> total(books, TRADING_ACCOUNT_TYPES, a),
    clearingAssets |-> total(books, {"clearing_assets"}, a),
    houseTradingFees |-> total(books, {"house_trading_fees"}, a)] :
      a \in {x \in assetsOf(books) : x[1] = cluster}}

getAssetTotals(books, cluster) ==
  {[asset |-> a,
    userLiabilities |-> total(books, CUSTODY_ACCOUNT_TYPES, a),
    chainAssets |-> total(books, {"chain_assets"}, a),
    houseRent |-> total(books, {"house_rent"}, a),
    houseFees |-> total(books, {"house_fees"}, a)] :
      a \in {x \in assetsOf(books) : x[1] = cluster}}

-----------------------------------------------------------------------------
(* The invariant checks: each returns the set of violations it finds.        *)

checkBooksBalance(books) ==
  {a \in assetsOf(books) :
     MapThenSumSet(LAMBDA acct : books[acct], {x \in DOMAIN books : x.asset = a}) # 0}

checkNoNegativeUserBalances(books) ==
  {acct \in DOMAIN books :
     acct.type \in USER_LIABILITY_ACCOUNT_TYPES /\ -books[acct] < 0}

checkAccountSigns(books) ==
  {acct \in DOMAIN books :
     acct.type \in NON_NEGATIVE_ACCOUNT_TYPES /\ normalBalance(acct.type, books[acct]) < 0}

checkLiabilitiesCovered(books) ==
  {a \in assetsOf(books) :
     \/ total(books, CUSTODY_ACCOUNT_TYPES, a)
          > total(books, {"chain_assets"}, a) - total(books, {"house_rent"}, a)
     \/ total(books, TRADING_ACCOUNT_TYPES, a) > total(books, {"clearing_assets"}, a)}

=============================================================================
