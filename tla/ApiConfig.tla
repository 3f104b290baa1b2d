----------------------------- MODULE ApiConfig ------------------------------
(***************************************************************************)
(* packages/config: what the API accepts as an environment, and the chain  *)
(* configuration it makes of one.  An environment is a record of the        *)
(* variables the cross-field rules read; a value of the wrong form (a       *)
(* number with letters in it, a base64 of another length) is MALFORMED, an  *)
(* unset string is UNSET.  The rules return the variables they reject.      *)
(***************************************************************************)
EXTENDS Integers, Sequences, FiniteSets, FiniteSetsExt

UNSET == "unset"
MALFORMED == "malformed"
NATIVE_ASSET_KEY == "SOL"
TEST_CLUSTERS == {"localnet", "devnet", "testnet"}

rejects(wrong, variable) == IF wrong THEN {variable} ELSE {}

-----------------------------------------------------------------------------
(* Secrets.  A secret is a reference: literal text, a file or another        *)
(* variable, and whether what it names can be read and is not empty.         *)

SECRET_VARIABLES ==
  {"DEPOSIT_SEED", "SESSION_SECRET", "TOTP_ENCRYPTION_KEY", "MPC_KEK",
   "MPC_CLIENT_PRIVATE_KEY", "MPC_APPROVAL_PRIVATE_KEY"}
CRITICAL_SECRETS == {"DEPOSIT_SEED", "MPC_KEK"}

resolveSecret(reference) ==
  IF reference.scheme = "literal" \/ reference.readable THEN reference.scheme ELSE UNSET

\* Every secret that is set, with how it was obtained.
resolveSecretReferences(e) ==
  [v \in SECRET_VARIABLES \cap DOMAIN e.secrets |-> resolveSecret(e.secrets[v])]

unresolvable(e) ==
  LET audit == resolveSecretReferences(e) IN {v \in DOMAIN audit : audit[v] = UNSET}

literalInProduction(e) ==
  LET audit == resolveSecretReferences(e)
  IN  {v \in DOMAIN audit \cap CRITICAL_SECRETS :
         e.NODE_ENV = "production" /\ audit[v] = "literal"}

-----------------------------------------------------------------------------
(* Clusters.                                                                 *)

served(e) == IF e.SOLANA_CLUSTERS # {} THEN e.SOLANA_CLUSTERS ELSE {e.SOLANA_NETWORK}

\* The default cluster alone falls back to the unsuffixed variable.
rpcUrlFor(e, cluster) ==
  IF e.rpcUrls[cluster] # UNSET THEN e.rpcUrls[cluster]
  ELSE IF cluster = e.SOLANA_NETWORK THEN e.SOLANA_RPC_URL ELSE UNSET

perCluster(e, specific, base, cluster) ==
  IF specific[cluster] # <<>> THEN specific[cluster]
  ELSE IF cluster = e.SOLANA_NETWORK THEN base ELSE <<>>

tokensOf(e, cluster) == perCluster(e, e.clusterTokens, e.TOKEN_MINTS, cluster)

\* The allowlist of a cluster: the native asset and each token, under a key
\* that names the cluster.  Of two entries with one mint the later has the say.
createAssetRegistry(cluster, tokens) ==
  LET keys == <<<<cluster, NATIVE_ASSET_KEY>>>>
                \o [i \in DOMAIN tokens |-> <<cluster, tokens[i].mint>>]
      last(key) == Max({i \in DOMAIN tokens : keys[i + 1] = key})
  IN  [keys |-> keys,
       symbolOf |-> [key \in Range(keys) |->
         IF key = keys[1] THEN NATIVE_ASSET_KEY ELSE tokens[last(key)].symbol]]

-----------------------------------------------------------------------------
(* The rules that read more than one variable.                               *)

sessionIssues(e) ==
  LET host == e.WEBAUTHN_ORIGIN.host
      suffixes == {SubSeq(host, i, Len(host)) : i \in DOMAIN host}
  IN
  rejects(e.SESSION_IDLE_TTL_SECONDS > e.SESSION_ABSOLUTE_TTL_SECONDS,
          "SESSION_IDLE_TTL_SECONDS")
  \cup rejects(e.WEBAUTHN_RP_ID \notin suffixes, "WEBAUTHN_RP_ID")

clusterIssues(e) ==
  rejects(\E c \in served(e) : rpcUrlFor(e, c) = UNSET, "SOLANA_RPC_URL")
  \cup rejects(e.SOLANA_CLUSTERS # {} /\ e.SOLANA_NETWORK \notin served(e), "SOLANA_CLUSTERS")

priceIssues(e) ==
  rejects(e.PRICE_SOURCE = "pyth" /\ e.PRICE_ENDPOINT = UNSET, "PRICE_ENDPOINT")
  \cup rejects(e.PRICE_SOURCE = "static" /\ e.PRICE_STATIC = <<>>, "PRICE_STATIC")
  \cup rejects(\E i \in DOMAIN e.PRICE_STATIC : e.PRICE_STATIC[i] = MALFORMED, "PRICE_STATIC")

assetIssues(e) ==
  LET tokens == e.TOKEN_MINTS
      twice(field(_)) == \E i, j \in DOMAIN tokens : i < j /\ field(tokens[i]) = field(tokens[j])
      mint(t) == t.mint
      symbol(t) == t.symbol
  IN  rejects(e.NODE_ENV = "production" /\ e.SOLANA_COMMITMENT # "finalized",
              "SOLANA_COMMITMENT")
      \cup rejects(e.SUPPORTED_ASSETS = {}, "SUPPORTED_ASSETS")
      \cup rejects(\/ twice(mint) \/ twice(symbol)
                   \/ \E i \in DOMAIN tokens : tokens[i].symbol \in e.SUPPORTED_ASSETS,
                   "TOKEN_MINTS")

custodyIssues(e) ==
  rejects(e.SIGNER_KIND = "real" /\ e.MPC_CLIENT_PRIVATE_KEY = UNSET, "MPC_CLIENT_PRIVATE_KEY")
  \cup rejects(e.NODE_ENV = "production" /\ e.SIGNER_KIND = "mock", "SIGNER_KIND")
  \cup {v \in {"RISK_PER_TRANSACTION_LIMIT", "RISK_DAILY_LIMIT", "RISK_MANUAL_REVIEW_ABOVE"} :
          e[v] = MALFORMED}

\* What each switch of the trading side needs of the others.
switchIssues(e) ==
  rejects(e.TRADING_MARKET_DATA_ENABLED /\ ~e.TRADING_ENABLED, "TRADING_MARKET_DATA_ENABLED")
  \cup rejects(/\ e.TRADING_MARKET_MAKER_ENABLED
               /\ ~e.TRADING_MARKET_DATA_ENABLED \/ "mainnet-beta" \in served(e),
               "TRADING_MARKET_MAKER_ENABLED")
  \cup rejects(e.TRADING_MARKET_MAKER_ENABLED /\ e.TRADING_MARKET_MAKER_USER_ID = MALFORMED,
               "TRADING_MARKET_MAKER_USER_ID")
  \cup rejects(e.TRADING_SETTLEMENT_ENABLED /\ ~e.TRADING_ENABLED, "TRADING_SETTLEMENT_ENABLED")

\* A map that names a market must name a configured one, with a value of the
\* right form.
badMap(e, map) ==
  \E m \in DOMAIN map : m \notin Range(e.TRADING_MARKETS) \/ map[m] = MALFORMED

marketIssues(e) ==
  LET markets == Range(e.TRADING_MARKETS)
  IN  rejects(e.CLEARING_ADDRESS \in {UNSET, e.TREASURY_ADDRESS}, "CLEARING_ADDRESS")
      \cup rejects(\/ markets = {}
                   \/ e.TRADING_SETTLEMENT_ENABLED /\ Cardinality({m[2] : m \in markets}) > 1,
                   "TRADING_MARKETS")
      \cup rejects(~ markets \subseteq DOMAIN e.TRADING_ENGINE_URLS, "TRADING_ENGINE_URLS")
      \cup rejects(badMap(e, e.TRADING_MARKET_DATA_START), "TRADING_MARKET_DATA_START")

makerIssues(e) ==
  LET priced == e.TRADING_MARKET_MAKER_START_PRICE
      sized == e.TRADING_MARKET_MAKER_LEVEL_QTY
  IN  rejects(badMap(e, sized), "TRADING_MARKET_MAKER_LEVEL_QTY")
      \cup rejects(\/ badMap(e, priced)
                   \/ /\ e.TRADING_MARKET_MAKER_REFERENCE = "random_walk"
                      /\ ~ DOMAIN sized \subseteq DOMAIN priced,
                   "TRADING_MARKET_MAKER_START_PRICE")
      \cup rejects(/\ e.TRADING_MARKET_MAKER_REFERENCE = "binance"
                   /\ ~ DOMAIN sized \subseteq e.TRADING_MARKET_MAKER_BINANCE_SYMBOLS,
                   "TRADING_MARKET_MAKER_BINANCE_SYMBOLS")

callerIssues(e) ==
  rejects(badMap(e, e.TRADING_SETTLEMENT_START), "TRADING_SETTLEMENT_START")
  \cup rejects(e.TRADING_ENGINE_CALLER_SEED = MALFORMED, "TRADING_ENGINE_CALLER_SEED")
  \cup {v \in {"TRADING_MAX_ORDER_QTY", "TRADING_MAX_OPEN_NOTIONAL"} :
          \E m \in DOMAIN e[v] : e[v][m] = MALFORMED}

originIssues(e) ==
  {v \in {"WEB_ORIGIN", "WEBAUTHN_ORIGIN"} : e.NODE_ENV = "production" /\ e[v].scheme # "https"}

superRefine(e) ==
  sessionIssues(e) \cup clusterIssues(e) \cup priceIssues(e) \cup assetIssues(e)
  \cup custodyIssues(e) \cup switchIssues(e)
  \cup (IF e.TRADING_ENABLED
        THEN marketIssues(e) \cup callerIssues(e)
             \cup (IF e.TRADING_MARKET_MAKER_ENABLED THEN makerIssues(e) ELSE {})
        ELSE {})
  \cup originIssues(e)

\* A reference that does not resolve ends the parse; the literal secrets are
\* looked at only in an environment the schema accepts.
parseEnv(e) ==
  IF unresolvable(e) # {} THEN unresolvable(e)
  ELSE IF superRefine(e) # {} THEN superRefine(e)
  ELSE literalInProduction(e)

-----------------------------------------------------------------------------
(* The configuration of an accepted environment.                             *)

toApiConfig(e) ==
  [byCluster |-> [c \in served(e) |->
     [rpcUrl |-> rpcUrlFor(e, c), assets |-> createAssetRegistry(c, tokensOf(e, c))]],
   \* the native asset of a cluster always has limits, a token only its own
   assetLimits |-> UNION {{<<c, NATIVE_ASSET_KEY>>}
                          \cup {<<c, limit>> : limit \in
                                 Range(perCluster(e, e.clusterLimits, e.RISK_ASSET_LIMITS, c))} :
                          c \in served(e)}]

\* The entries of an allowlist a market's symbol may mean; any number but one
\* is refused.
assetBySymbol(assets, symbol) ==
  {i \in DOMAIN assets.keys : assets.symbolOf[assets.keys[i]] = symbol}

=============================================================================
