----------------------------- MODULE ApiProcess -----------------------------
(***************************************************************************)
(* The API process from its environment to its exit: apps/api/src/index.ts *)
(* and the composition root, apps/api/src/server.ts.  The configuration is  *)
(* parsed, each thing that must agree with the outside (the chain behind an *)
(* RPC endpoint, the key behind the clearing address) is asked, the workers *)
(* are started, and a signal takes it all down again while passes of the    *)
(* workers and requests are under way.  One step per await.                 *)
(***************************************************************************)
EXTENDS ApiConfig

CONSTANTS Environments,    \* environments a process may be started with
          Followed,        \* those whose process is followed past listening
          Signals,         \* the signals main() handles
          MaxRequests      \* bound: requests under way at once

\* What the schema makes of the variables before its rules read them: a known
\* cluster, a kind of signer, a switch that is on or off (schema.ts:198-644).
ASSUME ProcessAssumption ==
  /\ \A e \in Environments :
       /\ served(e) \subseteq TEST_CLUSTERS \cup {"mainnet-beta"}
       /\ e.SIGNER_KIND \in {"mock", "real"}
       /\ e.TRADING_ENABLED \in BOOLEAN /\ e.TRADING_MARKET_DATA_ENABLED \in BOOLEAN
       /\ e.TRADING_SETTLEMENT_ENABLED \in BOOLEAN /\ e.TRADING_SWEEPER_ENABLED \in BOOLEAN
       /\ e.WITHDRAWAL_WORKERS_ENABLED \in BOOLEAN /\ e.RECONCILIATION_ENABLED \in BOOLEAN
       /\ e.INDEXER_ENABLED \in BOOLEAN
  /\ IsFiniteSet(Signals) /\ "none" \notin Signals

Workers ==
  {"withdrawals", "sweeper", "settlement", "maker", "tape", "fanout", "pricer",
   "reconciliation", "indexer"}

SKEW_MARGIN_MS == 1

VARIABLES env,
          behind,       \* cluster -> the network its RPC endpoint serves, or "down"
          clearingKey,  \* the address the signer's clearing key controls
          stage,        \* how far main() has come
          verified,     \* clusters whose endpoint has been asked
          makerReady,
          armed,        \* worker -> another pass will begin
          passes,       \* worker -> passes under way
          requests,     \* requests under way
          signalled,    \* signal -> step of its shutdown, 0 before it arrives
          cancelling,   \* the shutdown that is cancelling the maker's quotes
          disconnected  \* the database connection is closed

processVars == <<env, behind, clearingKey, stage, verified, makerReady, armed, passes,
                 requests, signalled, cancelling, disconnected>>

bootVars == <<env, behind, clearingKey>>
runVars == <<armed, passes, requests, signalled, cancelling, disconnected>>

NoSignal == "none"
Networks == {"localnet", "devnet", "mainnet-beta"}

ProcessInit ==
  /\ env \in Environments
  /\ behind \in [served(env) -> Networks \cup {"down"}]
  /\ clearingKey \in {"clearing", "other"}
  /\ stage = "parse"
  /\ verified = {}
  /\ makerReady = FALSE
  /\ armed = [w \in Workers |-> FALSE]
  /\ passes = [w \in Workers |-> 0]
  /\ requests = 0
  /\ signalled = [s \in Signals |-> 0]
  /\ cancelling = NoSignal
  /\ disconnected = FALSE

config == toApiConfig(env)

-----------------------------------------------------------------------------
(* Boot.  A refusal anywhere ends the process with nothing started.          *)

Reach(next) == stage' = next /\ UNCHANGED <<bootVars, verified, makerReady, runVars>>

loadApiConfigOrExit ==
  /\ stage = "parse"
  /\ Reach(IF parseEnv(env) = {} THEN "signer" ELSE "exited")

\* Both signers can provision keys, so segregated custody is never refused
\* here; the mock refuses to be built in production.
buildSigner ==
  /\ stage = "signer"
  /\ Reach(IF env.SIGNER_KIND = "mock" /\ env.NODE_ENV = "production"
           THEN "exited" ELSE "genesis")

\* Mutation: only the default cluster is asked.
genesisDefaultOnly ==
  /\ stage = "genesis"
  /\ LET known == {env.SOLANA_NETWORK} \ {"localnet"}
     IN  \/ /\ \E c \in known \ verified :
                 /\ verified' = verified \cup {c}
                 /\ stage' = IF behind[c] = c THEN stage ELSE "exited"
            /\ UNCHANGED <<bootVars, makerReady, runVars>>
         \/ /\ known \subseteq verified
            /\ Reach(IF env.TRADING_ENABLED THEN "clearing" ELSE "start")

\* A cluster without a known genesis (localnet) is not asked.
verifyGenesis ==
  /\ stage = "genesis"
  /\ LET known == served(env) \ {"localnet"}
     IN  \/ /\ \E c \in known \ verified :
                 /\ verified' = verified \cup {c}
                 /\ stage' = IF behind[c] = c THEN stage ELSE "exited"
            /\ UNCHANGED <<bootVars, makerReady, runVars>>
         \/ /\ known \subseteq verified
            /\ Reach(IF env.TRADING_ENABLED THEN "clearing" ELSE "start")

\* Only a key provisioner, wired in under segregated custody, can be asked
\* which address the clearing key controls.
verifyClearingKey ==
  /\ stage = "clearing"
  /\ Reach(IF env.SEGREGATED_CUSTODY /\ clearingKey # env.CLEARING_ADDRESS
           THEN "exited" ELSE "markets")

\* Each market's two symbols must mean one allowlisted asset each; an engine
\* that cannot be reached does not stop the boot.
createMarketRegistry ==
  /\ stage = "markets"
  /\ LET assets == config.byCluster[env.SOLANA_NETWORK].assets
         resolves(symbol) == Cardinality(assetBySymbol(assets, symbol)) = 1
     IN  Reach(IF \A m \in Range(env.TRADING_MARKETS) :
                    /\ resolves(m[1]) /\ resolves(m[2])
                    /\ m \in DOMAIN env.TRADING_ENGINE_URLS
               THEN "sweeper" ELSE "exited")

\* The sweeper must be able to prove an order unseen before it gives up on it.
createPendingEngineSweeper ==
  /\ stage = "sweeper"
  /\ Reach(IF env.TRADING_SWEEPER_MAX_ATTEMPTS * env.TRADING_SWEEPER_INTERVAL_MS
                <= env.TRADING_ENGINE_TOLERANCE + SKEW_MARGIN_MS
           THEN "exited" ELSE "consumers")

\* Settlement and the tape read their offsets, one per market; the read may
\* fail.
initConsumers ==
  /\ stage = "consumers"
  /\ \/ Reach(IF env.TRADING_MARKET_MAKER_ENABLED THEN "maker" ELSE "start")
     \/ /\ env.TRADING_SETTLEMENT_ENABLED \/ env.TRADING_MARKET_DATA_ENABLED
        /\ Reach("exited")

\* A maker that cannot act for its user is left out; the process goes on.
initMaker ==
  /\ stage = "maker"
  /\ stage' = "start"
  /\ makerReady' \in BOOLEAN
  /\ UNCHANGED <<bootVars, verified, runVars>>

startWorkers ==
  /\ stage = "start"
  /\ stage' = "listen"
  /\ armed' = [w \in Workers |->
       CASE w = "withdrawals"    -> env.WITHDRAWAL_WORKERS_ENABLED
         [] w = "sweeper"        -> env.TRADING_ENABLED /\ env.TRADING_SWEEPER_ENABLED
         [] w = "settlement"     -> env.TRADING_ENABLED /\ env.TRADING_SETTLEMENT_ENABLED
         [] w = "maker"          -> makerReady
         [] w \in {"tape", "fanout"} -> env.TRADING_MARKET_DATA_ENABLED
         [] w = "pricer"         -> env.PRICE_SOURCE # "none"
         [] w = "reconciliation" -> env.RECONCILIATION_ENABLED
         [] w = "indexer"        -> env.INDEXER_ENABLED]
  /\ UNCHANGED <<bootVars, verified, makerReady, passes, requests, signalled, cancelling,
                 disconnected>>

listen ==
  /\ stage = "listen"
  /\ Reach("up") \/ Reach("exited")

-----------------------------------------------------------------------------
(* Workers and requests.                                                     *)

Alive == stage \in {"listen", "up"} /\ env \in Followed

\* A one-shot timer is spent by the pass it begins and set again when that
\* pass ends, whatever has been stopped meanwhile.  Reconciliation's interval
\* does not wait for the pass before it.
OneShot == {"withdrawals", "sweeper"}

PassBegins(w) ==
  /\ Alive
  /\ armed[w]
  /\ passes[w] = 0 \/ (w = "reconciliation" /\ passes[w] = 1)
  /\ passes' = [passes EXCEPT ![w] = @ + 1]
  /\ armed' = [armed EXCEPT ![w] = w \notin OneShot]
  /\ UNCHANGED <<bootVars, stage, verified, makerReady, requests, signalled, cancelling,
                 disconnected>>

PassEnds(w) ==
  /\ Alive
  /\ passes[w] > 0
  /\ passes' = [passes EXCEPT ![w] = @ - 1]
  /\ armed' = [armed EXCEPT ![w] = @ \/ w \in OneShot]
  /\ UNCHANGED <<bootVars, stage, verified, makerReady, requests, signalled, cancelling,
                 disconnected>>

RequestArrives ==
  /\ Alive /\ stage = "up"
  /\ \A s \in Signals : signalled[s] = 0
  /\ requests < MaxRequests
  /\ requests' = requests + 1
  /\ UNCHANGED <<bootVars, stage, verified, makerReady, armed, passes, signalled, cancelling,
                 disconnected>>

RequestDone ==
  /\ Alive
  /\ requests > 0
  /\ requests' = requests - 1
  /\ UNCHANGED <<bootVars, stage, verified, makerReady, armed, passes, signalled, cancelling,
                 disconnected>>

-----------------------------------------------------------------------------
(* Shutdown.  Each step stops workers and awaits what it names; what runs    *)
(* between two awaits is one step.                                           *)

shutdownSteps ==
  << [stops |-> {}, awaits |-> {}],
     [stops |-> {"withdrawals", "maker"}, awaits |-> {"maker"}],
     [stops |-> {"sweeper", "settlement"}, awaits |-> {"settlement"}],
     [stops |-> {"fanout"}, awaits |-> {"fanout"}],
     [stops |-> {"tape"}, awaits |-> {"tape"}],
     [stops |-> {"pricer", "reconciliation", "indexer"}, awaits |-> {"indexer"}] >>

Closing == 1
StopsMaker == 2

\* app.close(): nothing is accepted any more.
Signal(s) ==
  /\ Alive /\ stage = "up"
  /\ signalled[s] = 0
  /\ signalled' = [signalled EXCEPT ![s] = Closing]
  /\ UNCHANGED <<bootVars, stage, verified, makerReady, armed, passes, requests, cancelling,
                 disconnected>>

\* The first shutdown to see the maker ready cancels what it quotes; another
\* finds it no longer ready and does not wait for those cancels.
stopMaker(s) ==
  /\ Alive
  /\ signalled[s] = StopsMaker /\ passes["maker"] = 0
  /\ makerReady
  /\ makerReady' = FALSE
  /\ cancelling' = s
  /\ UNCHANGED <<bootVars, stage, verified, armed, passes, requests, signalled, disconnected>>

quotesCancelled ==
  /\ Alive
  /\ cancelling # NoSignal
  /\ cancelling' = NoSignal
  /\ UNCHANGED <<bootVars, stage, verified, makerReady, armed, passes, requests, signalled,
                 disconnected>>

\* What the step a shutdown is at waits for has happened.
Awaited(s) ==
  /\ \A w \in shutdownSteps[signalled[s]].awaits : passes[w] = 0
  /\ signalled[s] = Closing => requests = 0
  /\ signalled[s] = StopsMaker => ~makerReady /\ cancelling # s

shutdown(s) ==
  /\ Alive
  /\ signalled[s] \in DOMAIN shutdownSteps
  /\ Awaited(s)
  /\ signalled' = [signalled EXCEPT ![s] = @ + 1]
  /\ LET next == signalled[s] + 1
     IN  IF next \in DOMAIN shutdownSteps
         THEN /\ armed' = [w \in Workers |-> armed[w] /\ w \notin shutdownSteps[next].stops]
              /\ UNCHANGED disconnected
         ELSE /\ disconnected' = TRUE
              /\ UNCHANGED armed
  /\ UNCHANGED <<bootVars, stage, verified, makerReady, passes, requests, cancelling>>

\* process.exit() takes whatever is still under way with it.
exit(s) ==
  /\ Alive
  /\ signalled[s] > Len(shutdownSteps)
  /\ stage' = "exited"
  /\ UNCHANGED <<bootVars, verified, makerReady, runVars>>

-----------------------------------------------------------------------------
Boot ==
  \/ loadApiConfigOrExit \/ buildSigner \/ verifyGenesis \/ verifyClearingKey
  \/ createMarketRegistry \/ createPendingEngineSweeper \/ initConsumers \/ initMaker
  \/ startWorkers \/ listen

ProcessNext ==
  \/ Boot
  \/ \E w \in Workers : PassBegins(w) \/ PassEnds(w)
  \/ RequestArrives \/ RequestDone
  \/ \E s \in Signals : Signal(s) \/ stopMaker(s) \/ shutdown(s) \/ exit(s)
  \/ quotesCancelled

ProcessSpec == ProcessInit /\ [][ProcessNext]_processVars

-----------------------------------------------------------------------------
(* Properties.                                                               *)

Started == \E w \in Workers : armed[w] \/ passes[w] > 0

\* A process that serves requests or has a worker running was started with an
\* environment it may run with, and has asked what it depends on: every
\* cluster it watches, the default and the others, is the network its endpoint
\* serves; under segregated custody the clearing address is one the signer can
\* sign for, and never the treasury; each market trades two allowlisted assets
\* that its symbols name without ambiguity; the maker quotes only where no
\* served cluster is mainnet; production never runs on a mock signer, on
\* unfinalised reads or on a critical secret given as a literal
\* (server.ts:512-530, 575-589; markets.ts:90-138; schema.ts:665-1087).
RunsVerified ==
  (Started \/ stage = "up") =>
    /\ \A c \in served(env) \ {"localnet"} : behind[c] = c
    /\ env.TRADING_ENABLED =>
         /\ env.SEGREGATED_CUSTODY => clearingKey = env.CLEARING_ADDRESS
         /\ env.CLEARING_ADDRESS # env.TREASURY_ADDRESS
         /\ \A m \in Range(env.TRADING_MARKETS) :
              \A symbol \in {m[1], m[2]} :
                Cardinality(assetBySymbol(config.byCluster[env.SOLANA_NETWORK].assets,
                                          symbol)) = 1
    /\ armed["maker"] => served(env) \subseteq TEST_CLUSTERS /\ armed["fanout"]
    /\ env.NODE_ENV = "production" =>
         /\ env.SIGNER_KIND = "real" /\ env.SOLANA_COMMITMENT = "finalized"
         /\ \A v \in CRITICAL_SECRETS \cap DOMAIN env.secrets : env.secrets[v].scheme # "literal"

\* When a shutdown closes the database connection no request is being handled
\* and no pass of the maker, settlement, the fan-outs, the tapes or the
\* indexers is under way, also when a second signal arrives while the first is
\* being handled; and after a single signal the maker's quotes have been
\* cancelled (server.ts:1247-1267, index.ts:17-30).
QuietAtDisconnect ==
  disconnected =>
    /\ requests = 0
    /\ \A w \in {"maker", "settlement", "fanout", "tape", "indexer"} : passes[w] = 0
    /\ Cardinality({s \in Signals : signalled[s] > 0}) = 1 => cancelling = NoSignal

\* Boot starts nothing it has not verified, and the shutdown closes the database
\* under nobody.
BootAndStopAreSafe == RunsVerified /\ QuietAtDisconnect

\* The comment over the shutdown: no cycle of any worker is in the middle of a
\* transaction when the connection closes (server.ts:1248).
NoCycleMidTransaction == disconnected => \A w \in Workers : passes[w] = 0

=============================================================================
