---------------------------- MODULE MCOperations -----------------------------
(***************************************************************************)
(* The parts of the API that share no state with trading or custody, each  *)
(* alone: work that ran out of attempts, ceremonies and sessions, the      *)
(* private channel of a socket, what a screen keeps of an account, the     *)
(* process from boot to exit, and prices with the history drawn from them. *)
(* `part` says which of them a behaviour is about; the others rest in one  *)
(* initial state.                                                          *)
(*                                                                         *)
(* Two stuck orders and a withdrawal, a queue of two, two operators, one   *)
(* restart.  Two tabs of one browser, each with the requests of a          *)
(* scenario.  One socket and one order, changed twice.  A screen with at   *)
(* most two requests in flight and one row a page, over two networks, one  *)
(* of which changes once, and over one whose record changes twice.  One    *)
(* complete environment and every environment that differs from it in a    *)
(* switch and one more variable.  Two assets, two passes of the pricer, up *)
(* to two entries.                                                         *)
(***************************************************************************)
EXTENDS DeadLetters, Accounts, SocketHub, AccountScreen, ApiProcess, Portfolio, TLC

VARIABLE part

-----------------------------------------------------------------------------
OneBrowser == [t \in Tabs |-> 1]

Requests ==
  { [may |-> {"register", "login", "resend", "updateUser", "view", "lose"}, calls |-> 3],
    [may |-> {"login", "enrollTotp", "confirmTotp", "disableTotp", "revokeCredential", "lose"},
     calls |-> 4],
    [may |-> {"login", "resend", "withdrawSmall", "withdrawLarge", "logout", "revokeSession"},
     calls |-> 3] }

-----------------------------------------------------------------------------
Market == <<"SOL", "USDC">>
Usdc == [symbol |-> "USDC", mint |-> "m1"]
SecondUsdc == [symbol |-> "USDC", mint |-> "m2"]
Site(scheme) == [scheme |-> scheme, host |-> <<"app", "example">>]
PerNetwork(devnet, others) == [n \in Networks |-> IF n = "devnet" THEN devnet ELSE others]
Seed(scheme, readable) == [DEPOSIT_SEED |-> [scheme |-> scheme, readable |-> readable]]

\* Everything switched on, in production.
Complete ==
  [NODE_ENV |-> "production", secrets |-> Seed("file", TRUE),
   SESSION_IDLE_TTL_SECONDS |-> 1, SESSION_ABSOLUTE_TTL_SECONDS |-> 1,
   WEBAUTHN_RP_ID |-> <<"example">>, WEBAUTHN_ORIGIN |-> Site("https"),
   WEB_ORIGIN |-> Site("https"), SOLANA_NETWORK |-> "devnet",
   SOLANA_CLUSTERS |-> {"devnet", "localnet"}, SOLANA_RPC_URL |-> "url",
   rpcUrls |-> PerNetwork(UNSET, "url2"), PRICE_SOURCE |-> "static",
   PRICE_ENDPOINT |-> UNSET, PRICE_STATIC |-> <<"SOL:1">>,
   SOLANA_COMMITMENT |-> "finalized", SUPPORTED_ASSETS |-> {"SOL"},
   TOKEN_MINTS |-> <<Usdc>>, clusterTokens |-> PerNetwork(<<>>, <<>>),
   clusterLimits |-> PerNetwork(<<>>, <<>>), RISK_ASSET_LIMITS |-> <<"m1">>,
   SIGNER_KIND |-> "real", MPC_CLIENT_PRIVATE_KEY |-> "key",
   RISK_PER_TRANSACTION_LIMIT |-> "1", RISK_DAILY_LIMIT |-> "1",
   RISK_MANUAL_REVIEW_ABOVE |-> "1", TRADING_ENABLED |-> TRUE,
   TRADING_MARKET_DATA_ENABLED |-> TRUE, TRADING_MARKET_MAKER_ENABLED |-> TRUE,
   TRADING_SETTLEMENT_ENABLED |-> TRUE, TRADING_MARKET_MAKER_USER_ID |-> "uuid",
   CLEARING_ADDRESS |-> "clearing", TREASURY_ADDRESS |-> "treasury",
   TRADING_MARKETS |-> <<Market>>, TRADING_ENGINE_URLS |-> Market :> "url",
   TRADING_MARKET_DATA_START |-> Market :> "0:0",
   TRADING_SETTLEMENT_START |-> Market :> "0:0",
   TRADING_MARKET_MAKER_START_PRICE |-> Market :> "100",
   TRADING_MARKET_MAKER_LEVEL_QTY |-> Market :> "1",
   TRADING_MARKET_MAKER_REFERENCE |-> "random_walk",
   TRADING_MARKET_MAKER_BINANCE_SYMBOLS |-> {}, TRADING_ENGINE_CALLER_SEED |-> "seed",
   TRADING_MAX_ORDER_QTY |-> Market :> "1", TRADING_MAX_OPEN_NOTIONAL |-> Market :> "1",
   TRADING_SWEEPER_ENABLED |-> TRUE, TRADING_SWEEPER_MAX_ATTEMPTS |-> 3,
   TRADING_SWEEPER_INTERVAL_MS |-> 1,
   TRADING_ENGINE_TOLERANCE |-> 1, SEGREGATED_CUSTODY |-> TRUE,
   WITHDRAWAL_WORKERS_ENABLED |-> TRUE, RECONCILIATION_ENABLED |-> TRUE,
   INDEXER_ENABLED |-> TRUE]

Alternatives ==
  [NODE_ENV |-> {"development"}, secrets |-> {Seed("literal", TRUE), Seed("file", FALSE)},
   SESSION_IDLE_TTL_SECONDS |-> {2}, WEBAUTHN_RP_ID |-> {<<"other">>},
   WEB_ORIGIN |-> {Site("http")}, SOLANA_NETWORK |-> {"mainnet-beta"},
   SOLANA_CLUSTERS |-> {{}, {"devnet", "mainnet-beta"}}, SOLANA_RPC_URL |-> {UNSET},
   PRICE_SOURCE |-> {"none", "pyth"}, PRICE_STATIC |-> {<<>>, <<MALFORMED>>},
   SOLANA_COMMITMENT |-> {"confirmed"}, SUPPORTED_ASSETS |-> {{}},
   TOKEN_MINTS |-> {<<>>, <<Usdc, SecondUsdc>>, <<[symbol |-> "SOL", mint |-> "m1"]>>},
   clusterTokens |-> {PerNetwork(<<Usdc, SecondUsdc>>, <<>>)}, SIGNER_KIND |-> {"mock"},
   MPC_CLIENT_PRIVATE_KEY |-> {UNSET}, RISK_DAILY_LIMIT |-> {MALFORMED},
   TRADING_ENABLED |-> {FALSE}, TRADING_MARKET_DATA_ENABLED |-> {FALSE},
   TRADING_MARKET_MAKER_ENABLED |-> {FALSE}, TRADING_SETTLEMENT_ENABLED |-> {FALSE},
   TRADING_SWEEPER_ENABLED |-> {FALSE},
   TRADING_MARKET_MAKER_USER_ID |-> {MALFORMED}, CLEARING_ADDRESS |-> {UNSET, "treasury"},
   TRADING_MARKETS |-> {<<>>, <<Market, <<"USDC", "SOL">>>>},
   TRADING_ENGINE_URLS |-> {<<>>}, TRADING_MARKET_DATA_START |-> {Market :> MALFORMED},
   TRADING_MARKET_MAKER_START_PRICE |-> {<<>>},
   TRADING_MARKET_MAKER_REFERENCE |-> {"binance"},
   TRADING_ENGINE_CALLER_SEED |-> {MALFORMED},
   TRADING_MAX_ORDER_QTY |-> {Market :> MALFORMED}, TRADING_ENGINE_TOLERANCE |-> {2},
   SEGREGATED_CUSTODY |-> {FALSE}]

\* The variables that switch a part of the API on, choose the cluster or the
\* profile; what they ask of the others is what loadConfig verifies.
Switches == {"NODE_ENV", "SOLANA_NETWORK", "SOLANA_CLUSTERS", "PRICE_SOURCE", "SIGNER_KIND",
             "TRADING_ENABLED", "TRADING_MARKET_DATA_ENABLED", "TRADING_MARKET_MAKER_ENABLED",
             "TRADING_SETTLEMENT_ENABLED", "TRADING_MARKETS", "SEGREGATED_CUSTODY"}

WithTwoChanges ==
  UNION {UNION {{[Complete EXCEPT ![f] = x, ![g] = y] :
                   x \in Alternatives[f], y \in Alternatives[g]} :
                g \in DOMAIN Alternatives} : f \in Switches}

SomeEnvironments == {Complete} \cup WithTwoChanges
FollowedOne == {Complete}

-----------------------------------------------------------------------------
Allowlists ==
  [devnet |-> {[asset |-> "SOL", symbol |-> "SOL", unit |-> 2],
               [asset |-> "m1", symbol |-> "USDC", unit |-> 1]},
   localnet |-> {[asset |-> "SOL", symbol |-> "SOL", unit |-> 2]}]

Feeds == [SOL |-> "solana", USDC |-> "usdc"]
Answers == { [solana |-> 3, usdc |-> NotANumber], [solana |-> 0, usdc |-> 1],
             [solana |-> 5, usdc |-> 1] }
Ranges == [window |-> [span |-> 2, points |-> 3], all |-> [span |-> 0, points |-> 3]]

-----------------------------------------------------------------------------
operationsVars == <<part, jobVars, accountVars, hubVars, screenVars, processVars,
                    portfolioVars>>

\* The parts at rest start in one state each.
OperationsInit ==
  /\ part \in {"jobs", "accounts", "hub", "screen", "history", "process", "portfolio"}
  /\ JobsInit /\ HubInit /\ PortfolioInit
  /\ AccountsInit /\ (part # "accounts" => menu.calls = 4)
  /\ ScreenInit /\ (part # "screen" => hook = "orders" \/ (part = "history" /\ account))
  /\ network = "devnet"
  /\ ProcessInit
  /\ part # "process" => env = Complete /\ clearingKey = "other"
                          /\ \A c \in served(env) : behind[c] = c

JobsPart ==
  /\ part = "jobs" /\ JobsNext
  /\ UNCHANGED <<part, accountVars, hubVars, screenVars, processVars, portfolioVars>>
AccountsPart ==
  /\ part = "accounts" /\ AccountsNext
  /\ UNCHANGED <<part, jobVars, hubVars, screenVars, processVars, portfolioVars>>
HubPart ==
  /\ part = "hub" /\ HubNext
  /\ UNCHANGED <<part, jobVars, accountVars, screenVars, processVars, portfolioVars>>
\* Two networks and one change of one of their records; or one network, with
\* as many changes as MaxChanges.
ScreenBound ==
  \/ part = "screen" /\ \E c \in Clusters : \A d \in Clusters :
                            record'[d].money <= IF d = c THEN 1 ELSE 0
  \/ part = "history" /\ network' = network
     /\ \A c \in Clusters \ {network} : record'[c] = record[c]

ScreenPart ==
  /\ part \in {"screen", "history"} /\ ScreenNext /\ ScreenBound
  /\ UNCHANGED <<part, jobVars, accountVars, hubVars, processVars, portfolioVars>>
ProcessPart ==
  /\ part = "process" /\ ProcessNext
  /\ UNCHANGED <<part, jobVars, accountVars, hubVars, screenVars, portfolioVars>>
PortfolioPart ==
  /\ part = "portfolio" /\ PortfolioNext
  /\ UNCHANGED <<part, jobVars, accountVars, hubVars, screenVars, processVars>>

OperationsSpec ==
  /\ OperationsInit
  /\ [][\/ JobsPart \/ AccountsPart \/ HubPart
        \/ ScreenPart \/ ProcessPart \/ PortfolioPart]_operationsVars

=============================================================================
