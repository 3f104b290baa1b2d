------------------------------- MODULE ApiProofs ------------------------------
(***************************************************************************)
(* Proofs about the API process: what boot verifies before anything runs   *)
(* and what a shutdown waits for (ApiProcess), and what a socket is sent   *)
(* (SocketHub).                                                            *)
(***************************************************************************)
EXTENDS ApiProcess, SocketHub, FiniteSetTheorems, WellFoundedInduction, TLAPS

-----------------------------------------------------------------------------
(* The API process.                                                          *)

BootStages == {"parse", "signer", "genesis", "clearing", "markets", "sweeper", "consumers",
               "maker", "start"}
MainStages == BootStages \cup {"listen", "up", "exited"}

ProcessTypes ==
  /\ env \in Environments /\ stage \in MainStages
  /\ makerReady \in BOOLEAN
  /\ armed \in [Workers -> BOOLEAN] /\ passes \in [Workers -> Nat]
  /\ requests \in Nat /\ signalled \in [Signals -> 0..7]
  /\ cancelling \in Signals \cup {NoSignal}

\* What boot has verified when it gets to the workers.
NetworksMatch == \A c \in served(env) \ {"localnet"} : behind[c] = c
ClearingIsOurs == env.SEGREGATED_CUSTODY => clearingKey = env.CLEARING_ADDRESS
MarketsResolve ==
  \A m \in Range(env.TRADING_MARKETS) : \A symbol \in {m[1], m[2]} :
    Cardinality(assetBySymbol(config.byCluster[env.SOLANA_NETWORK].assets, symbol)) = 1
Verified ==
  /\ parseEnv(env) = {} /\ NetworksMatch
  /\ env.TRADING_ENABLED => ClearingIsOurs /\ MarketsResolve

AtRest ==
  /\ armed = [w \in Workers |-> FALSE] /\ passes = [w \in Workers |-> 0]
  /\ requests = 0 /\ signalled = [s \in Signals |-> 0] /\ cancelling = NoSignal
  /\ ~disconnected

\* What each stage of boot may rely on.
StageOK(st) ==
  /\ st \in MainStages
  /\ st \in BootStages => AtRest
  /\ st \in MainStages \ {"parse", "exited"} => parseEnv(env) = {}
  /\ st \in {"parse", "signer"} => verified = {}
  /\ st = "genesis" => \A c \in verified : behind[c] = c
  /\ st \in MainStages \ {"parse", "signer", "genesis", "exited"} => NetworksMatch
  /\ st \in {"markets", "sweeper", "consumers", "maker"} => ClearingIsOurs
  /\ st \in {"sweeper", "consumers", "maker"} => MarketsResolve
  /\ st = "maker" => env.TRADING_MARKET_MAKER_ENABLED
  /\ st \in {"start", "listen", "up"} => Verified
  /\ st = "exited" => (Started => Verified)

\* The workers a shutdown waits for, and the step that stops them.
Awaitable == {"maker", "settlement", "fanout", "tape", "indexer"}
StopsAt == [w \in Awaitable |->
  CASE w = "maker" -> 2 [] w = "settlement" -> 3 [] w = "fanout" -> 4
    [] w = "tape" -> 5 [] w = "indexer" -> 6]

\* A shutdown leaves behind it what it has stopped and awaited.
StopOrder ==
  /\ \A s \in Signals :
       /\ signalled[s] > Closing => requests = 0
       /\ \A w \in Awaitable : /\ signalled[s] >= StopsAt[w] => ~armed[w]
                               /\ signalled[s] > StopsAt[w] => passes[w] = 0
  /\ cancelling # NoSignal => signalled[cancelling] = StopsMaker
  /\ disconnected => \E s \in Signals : signalled[s] = 7

MakerFed ==
  /\ makerReady => env.TRADING_MARKET_MAKER_ENABLED
  /\ armed["maker"] => armed["fanout"] /\ env.TRADING_MARKET_MAKER_ENABLED

BInv == ProcessTypes /\ StageOK(stage) /\ StopOrder /\ MakerFed

LEMMA StepTable ==
  /\ Len(shutdownSteps) = 6 /\ DOMAIN shutdownSteps = 1..6
  /\ \A i \in 1..6 : \A w \in Awaitable : /\ w \in shutdownSteps[i].stops <=> i = StopsAt[w]
                                          /\ w \in shutdownSteps[i].awaits <=> i = StopsAt[w]
  /\ \A w \in Awaitable : StopsAt[w] \in 2..6 /\ w \in Workers /\ w \notin OneShot
  /\ StopsAt["maker"] = 2 /\ StopsAt["fanout"] = 4
<1>1. Len(shutdownSteps) = 6 /\ DOMAIN shutdownSteps = 1..6
  BY DEF shutdownSteps
<1>2. \A w \in Awaitable : StopsAt[w] \in 2..6 /\ w \in Workers /\ w \notin OneShot
  BY DEF StopsAt, Awaitable, Workers, OneShot
<1>3. StopsAt["maker"] = 2 /\ StopsAt["settlement"] = 3 /\ StopsAt["fanout"] = 4
      /\ StopsAt["tape"] = 5 /\ StopsAt["indexer"] = 6
  BY Zenon DEF StopsAt, Awaitable
<1>4. ASSUME NEW i \in 1..6, NEW w \in Awaitable
      PROVE  /\ w \in shutdownSteps[i].stops <=> i = StopsAt[w]
             /\ w \in shutdownSteps[i].awaits <=> i = StopsAt[w]
  <2>1. i = 1 \/ i = 2 \/ i = 3 \/ i = 4 \/ i = 5 \/ i = 6
    OBVIOUS
  <2>2. CASE i = 1
    BY <1>3, <2>2 DEF shutdownSteps, Awaitable
  <2>3. CASE i = 2
    BY <1>3, <2>3 DEF shutdownSteps, Awaitable
  <2>4. CASE i = 3
    BY <1>3, <2>4 DEF shutdownSteps, Awaitable
  <2>5. CASE i = 4
    BY <1>3, <2>5 DEF shutdownSteps, Awaitable
  <2>6. CASE i = 5
    BY <1>3, <2>6 DEF shutdownSteps, Awaitable
  <2>7. CASE i = 6
    BY <1>3, <2>7 DEF shutdownSteps, Awaitable
  <2> QED BY Zenon, <2>1, <2>2, <2>3, <2>4, <2>5, <2>6, <2>7
<1> QED BY Zenon, <1>1, <1>2, <1>3, <1>4

\* What an accepted environment cannot ask for.
LEMMA Accepted ==
  ASSUME NEW e \in Environments, parseEnv(e) = {}
  PROVE  /\ e.TRADING_MARKET_MAKER_ENABLED =>
              e.TRADING_MARKET_DATA_ENABLED /\ served(e) \subseteq TEST_CLUSTERS
         /\ e.TRADING_ENABLED => e.CLEARING_ADDRESS # e.TREASURY_ADDRESS
         /\ e.NODE_ENV = "production" =>
              /\ e.SIGNER_KIND = "real" /\ e.SOLANA_COMMITMENT = "finalized"
              /\ \A v \in CRITICAL_SECRETS \cap DOMAIN e.secrets : e.secrets[v].scheme # "literal"
<1>1. unresolvable(e) = {} /\ superRefine(e) = {} /\ literalInProduction(e) = {}
  BY Zenon DEF parseEnv
<1>2. switchIssues(e) = {} /\ custodyIssues(e) = {} /\ assetIssues(e) = {}
      /\ (e.TRADING_ENABLED => marketIssues(e) = {})
  BY Zenon, <1>1 DEF superRefine
<1>3. e.TRADING_MARKET_MAKER_ENABLED =>
        e.TRADING_MARKET_DATA_ENABLED /\ "mainnet-beta" \notin served(e)
  BY Zenon, <1>2 DEF switchIssues, rejects
<1>4. e.TRADING_ENABLED => e.CLEARING_ADDRESS # e.TREASURY_ADDRESS
  BY Zenon, <1>2 DEF marketIssues, rejects
<1>5. e.NODE_ENV = "production" => e.SIGNER_KIND # "mock"
  BY Zenon, <1>2 DEF custodyIssues, rejects
<1>6. e.NODE_ENV = "production" => e.SOLANA_COMMITMENT = "finalized"
  BY Zenon, <1>2 DEF assetIssues, rejects
<1>7. ASSUME e.NODE_ENV = "production", NEW v \in CRITICAL_SECRETS \cap DOMAIN e.secrets
      PROVE  e.secrets[v].scheme # "literal"
  <2>1. v \in SECRET_VARIABLES \cap DOMAIN e.secrets
    BY Zenon DEF CRITICAL_SECRETS, SECRET_VARIABLES
  <2>2. /\ v \in DOMAIN resolveSecretReferences(e)
        /\ resolveSecretReferences(e)[v] = resolveSecret(e.secrets[v])
    BY Zenon, <2>1 DEF resolveSecretReferences
  <2>3. resolveSecretReferences(e)[v] # "literal"
    BY Zenon, <1>1, <1>7, <2>2 DEF literalInProduction
  <2> QED BY Zenon, <2>2, <2>3 DEF resolveSecret
<1>8. served(e) \subseteq TEST_CLUSTERS \cup {"mainnet-beta"} /\ e.SIGNER_KIND \in {"mock", "real"}
  BY Zenon, ProcessAssumption
<1> QED BY Zenon, <1>3, <1>4, <1>5, <1>6, <1>7, <1>8


LEMMA RestIsNotStarted == ASSUME AtRest PROVE ~Started
  BY DEF AtRest, Started

\* A boot stage that only moves on.
LEMMA ReachKeeps ==
  ASSUME BInv, NEW next, Reach(next), StageOK(next)
  PROVE  BInv'
<1>1. /\ UNCHANGED <<env, behind, clearingKey, verified, makerReady, armed, passes, requests,
                     signalled, cancelling, disconnected>>
      /\ stage' = next
  BY Zenon DEF Reach, bootVars, runVars
<1>2. ProcessTypes' /\ StopOrder' /\ MakerFed'
  BY Zenon, <1>1 DEF BInv, ProcessTypes, StopOrder, MakerFed, StageOK
<1>4. /\ Verified' = Verified /\ AtRest' = AtRest /\ Started' = Started
      /\ NetworksMatch' = NetworksMatch /\ ClearingIsOurs' = ClearingIsOurs
      /\ MarketsResolve' = MarketsResolve
  BY Zenon, <1>1 DEF Verified, AtRest, Started, NetworksMatch, ClearingIsOurs, MarketsResolve, config
<1>5. StageOK(stage)'
  BY Zenon, <1>1, <1>4 DEF StageOK
<1> QED BY Zenon, <1>2, <1>5 DEF BInv

LEMMA BootStep ==
  ASSUME BInv, Boot
  PROVE  BInv'
<1> USE DEF BootStages, MainStages
<1>1. ASSUME stage \in BootStages PROVE AtRest /\ StageOK("exited")
  BY Zenon, <1>1, RestIsNotStarted DEF BInv, StageOK
<1>2. CASE loadApiConfigOrExit
  <2>1. AtRest /\ verified = {} /\ StageOK("exited")
    BY Zenon, <1>1, <1>2 DEF loadApiConfigOrExit, BInv, StageOK
  <2>2. CASE parseEnv(env) = {}
    <3>1. StageOK("signer")
      BY Zenon, <2>1, <2>2 DEF StageOK
    <3> QED BY Zenon, <1>2, <2>2, <3>1, ReachKeeps DEF loadApiConfigOrExit
  <2> QED BY Zenon, <1>2, <2>1, <2>2, ReachKeeps DEF loadApiConfigOrExit
<1>3. CASE buildSigner
  <2>1. StageOK("exited") /\ StageOK("genesis")
    BY Zenon, <1>1, <1>3 DEF buildSigner, BInv, StageOK
  <2> QED BY Zenon, <1>3, <2>1, ReachKeeps DEF buildSigner
<1>4. CASE verifyGenesis
  <2>0. /\ stage = "genesis" /\ AtRest /\ StageOK("exited") /\ parseEnv(env) = {}
        /\ \A c \in verified : behind[c] = c
    BY Zenon, <1>1, <1>4 DEF verifyGenesis, BInv, StageOK
  <2> DEFINE known == served(env) \ {"localnet"}
  <2>1. CASE known \subseteq verified /\ Reach(IF env.TRADING_ENABLED THEN "clearing" ELSE "start")
    <3>1. NetworksMatch
      BY Zenon, <2>0, <2>1 DEF NetworksMatch
    <3>2. env.TRADING_ENABLED => StageOK("clearing")
      BY Zenon, <2>0, <3>1 DEF StageOK
    <3>3. ~env.TRADING_ENABLED => StageOK("start")
      BY Zenon, <2>0, <3>1 DEF StageOK, Verified
    <3> QED BY Zenon, <2>1, <3>2, <3>3, ReachKeeps
  <2>2. ASSUME NEW c \in known \ verified, verified' = verified \cup {c},
               stage' = IF behind[c] = c THEN stage ELSE "exited",
               UNCHANGED <<bootVars, makerReady, runVars>>
        PROVE  BInv'
    <3>1. UNCHANGED <<env, behind, clearingKey, makerReady, armed, passes, requests, signalled,
                      cancelling, disconnected>>
      BY Zenon, <2>2 DEF bootVars, runVars
    <3>2. ProcessTypes' /\ StopOrder' /\ MakerFed'
      BY <2>2, <3>1 DEF BInv, ProcessTypes, StopOrder, MakerFed
    <3>3. AtRest' /\ ~Started' /\ parseEnv(env)' = {}
      BY Zenon, <2>0, <3>1, RestIsNotStarted DEF AtRest, Started
    <3>4. stage' = "exited" \/ (stage' = "genesis" /\ \A d \in verified' : behind'[d] = d)
      BY Zenon, <2>0, <2>2, <3>1
    <3>5. StageOK(stage)'
      BY Zenon, <3>3, <3>4 DEF StageOK
    <3> QED BY Zenon, <3>2, <3>5 DEF BInv
  <2> QED BY Zenon, <1>4, <2>1, <2>2 DEF verifyGenesis
<1>5. CASE verifyClearingKey
  <2>1. /\ stage = "clearing" /\ AtRest /\ StageOK("exited") /\ parseEnv(env) = {} /\ NetworksMatch
    BY Zenon, <1>1, <1>5 DEF verifyClearingKey, BInv, StageOK
  <2>2. CASE env.SEGREGATED_CUSTODY /\ clearingKey # env.CLEARING_ADDRESS
    BY Zenon, <1>5, <2>1, <2>2, ReachKeeps DEF verifyClearingKey
  <2>3. CASE ~(env.SEGREGATED_CUSTODY /\ clearingKey # env.CLEARING_ADDRESS)
    <3>1. StageOK("markets")
      BY Zenon, <2>1, <2>3 DEF StageOK, ClearingIsOurs
    <3> QED BY Zenon, <1>5, <2>3, <3>1, ReachKeeps DEF verifyClearingKey
  <2> QED BY Zenon, <2>2, <2>3
<1>6. CASE createMarketRegistry
  <2> DEFINE assets == config.byCluster[env.SOLANA_NETWORK].assets
             resolves(symbol) == Cardinality(assetBySymbol(assets, symbol)) = 1
             all == \A m \in Range(env.TRADING_MARKETS) :
                      /\ resolves(m[1]) /\ resolves(m[2]) /\ m \in DOMAIN env.TRADING_ENGINE_URLS
  <2>1. /\ stage = "markets" /\ AtRest /\ StageOK("exited") /\ parseEnv(env) = {} /\ NetworksMatch
        /\ ClearingIsOurs
    BY Zenon, <1>1, <1>6 DEF createMarketRegistry, BInv, StageOK
  <2>2. Reach(IF all THEN "sweeper" ELSE "exited")
    BY Zenon, <1>6 DEF createMarketRegistry
  <2>3. all => MarketsResolve
    BY Zenon DEF MarketsResolve
  <2> HIDE DEF all
  <2>4. all => StageOK("sweeper")
    BY Zenon, <2>1, <2>3 DEF StageOK
  <2> QED BY Zenon, <2>1, <2>2, <2>4, ReachKeeps
<1>7. CASE createPendingEngineSweeper
  <2>1. StageOK("exited") /\ StageOK("consumers")
    BY Zenon, <1>1, <1>7 DEF createPendingEngineSweeper, BInv, StageOK
  <2> QED BY Zenon, <1>7, <2>1, ReachKeeps DEF createPendingEngineSweeper
<1>8. CASE initConsumers
  <2>1. /\ StageOK("exited") /\ StageOK("start")
        /\ env.TRADING_MARKET_MAKER_ENABLED => StageOK("maker")
    BY Zenon, <1>1, <1>8 DEF initConsumers, BInv, StageOK, Verified
  <2> QED BY Zenon, <1>8, <2>1, ReachKeeps DEF initConsumers
<1>9. CASE initMaker
  <2>1. /\ UNCHANGED <<env, behind, clearingKey, verified, armed, passes, requests, signalled,
                       cancelling, disconnected>>
        /\ stage' = "start" /\ makerReady' \in BOOLEAN /\ stage = "maker"
    BY Zenon, <1>9 DEF initMaker, bootVars, runVars
  <2>2. Verified /\ AtRest /\ env.TRADING_MARKET_MAKER_ENABLED
    BY Zenon, <2>1 DEF BInv, StageOK, Verified
  <2>3. ProcessTypes' /\ StopOrder' /\ MakerFed'
    BY Zenon, <2>1, <2>2 DEF BInv, ProcessTypes, StopOrder, MakerFed
  <2>4. Verified' /\ AtRest' /\ NetworksMatch' /\ parseEnv(env)' = {}
    BY Zenon, <2>1, <2>2 DEF Verified, AtRest, NetworksMatch, ClearingIsOurs, MarketsResolve, config
  <2>5. StageOK(stage)'
    BY Zenon, <2>1, <2>4 DEF StageOK
  <2> QED BY Zenon, <2>3, <2>5 DEF BInv
<1>10. CASE startWorkers
  <2>1. /\ UNCHANGED <<env, behind, clearingKey, verified, makerReady, passes, requests, signalled,
                       cancelling, disconnected>>
        /\ stage' = "listen" /\ stage = "start" /\ env \in Environments /\ makerReady \in BOOLEAN
    BY Zenon, <1>10 DEF startWorkers, bootVars, BInv, ProcessTypes
  <2>2. Verified /\ AtRest
    BY Zenon, <2>1 DEF BInv, StageOK
  <2>3. env.TRADING_MARKET_MAKER_ENABLED => env.TRADING_MARKET_DATA_ENABLED
    BY Zenon, <2>1, <2>2, Accepted DEF Verified
  <2>4. /\ armed' \in [Workers -> BOOLEAN] /\ armed'["maker"] = makerReady
        /\ armed'["fanout"] = env.TRADING_MARKET_DATA_ENABLED
    BY Zenon, <1>10, <2>1, ProcessAssumption DEF startWorkers, Workers
  <2>5. ProcessTypes' /\ MakerFed'
    BY Zenon, <2>1, <2>3, <2>4 DEF BInv, ProcessTypes, MakerFed
  <2>6. StopOrder'
    BY <2>1, <2>2, StepTable DEF AtRest, StopOrder, Closing
  <2>7. Verified' /\ NetworksMatch' /\ parseEnv(env)' = {}
    BY Zenon, <2>1, <2>2 DEF Verified, NetworksMatch, ClearingIsOurs, MarketsResolve, config
  <2>8. StageOK(stage)'
    BY Zenon, <2>1, <2>7 DEF StageOK
  <2> QED BY Zenon, <2>5, <2>6, <2>8 DEF BInv
<1>11. CASE listen
  <2>1. StageOK("up") /\ StageOK("exited")
    BY Zenon, <1>11 DEF listen, BInv, StageOK
  <2> QED BY Zenon, <1>11, <2>1, ReachKeeps DEF listen
<1> QED BY Zenon, <1>2, <1>3, <1>4, <1>5, <1>6, <1>7, <1>8, <1>9, <1>10, <1>11 DEF Boot

\* While the process is up, what boot verified stays so.
LEMMA StaysUp ==
  ASSUME BInv, Alive, UNCHANGED <<bootVars, stage, verified>>
  PROVE  StageOK(stage)' /\ env' \in Environments /\ stage' \in MainStages
<1>1. UNCHANGED <<env, behind, clearingKey, stage, verified>> /\ stage \in {"listen", "up"}
  BY Zenon DEF bootVars, Alive
<1>2. Verified
  BY Zenon, <1>1 DEF BInv, StageOK
<1>3. Verified' /\ NetworksMatch' /\ parseEnv(env)' = {}
  BY Zenon, <1>1, <1>2 DEF Verified, NetworksMatch, ClearingIsOurs, MarketsResolve, config
<1> QED BY Zenon, <1>1, <1>3 DEF StageOK, BInv, ProcessTypes, MainStages, BootStages

LEMMA PassStep ==
  ASSUME BInv, NEW w \in Workers, PassBegins(w) \/ PassEnds(w)
  PROVE  BInv'
<1>1. /\ UNCHANGED <<bootVars, stage, verified, makerReady, requests, signalled, cancelling,
                     disconnected>>
      /\ Alive /\ ProcessTypes /\ StopOrder /\ MakerFed
  BY Zenon DEF BInv, PassBegins, PassEnds
<1>2. UNCHANGED <<env, makerReady, requests, signalled, cancelling, disconnected>>
  BY Zenon, <1>1 DEF bootVars
<1>3. StageOK(stage)' /\ env' \in Environments /\ stage' \in MainStages
  BY Zenon, <1>1, StaysUp
<1>4. /\ passes' \in [Workers -> Nat] /\ armed' \in [Workers -> BOOLEAN]
      /\ \A v \in Workers \ OneShot : armed'[v] = armed[v]
      /\ \A v \in Workers \ OneShot : ~armed[v] /\ passes[v] = 0 => passes'[v] = 0
  <2>1. CASE PassBegins(w)
    <3>1. /\ armed[w] = TRUE /\ passes' = [passes EXCEPT ![w] = @ + 1]
          /\ armed' = [armed EXCEPT ![w] = w \notin OneShot]
      BY Zenon, <1>1, <2>1 DEF PassBegins, ProcessTypes
    <3>2. passes' \in [Workers -> Nat] /\ armed' \in [Workers -> BOOLEAN]
      BY <1>1, <3>1 DEF ProcessTypes
    <3>3. \A v \in Workers : v # w => armed'[v] = armed[v] /\ passes'[v] = passes[v]
      BY Zenon, <1>1, <3>1 DEF ProcessTypes
    <3>4. w \notin OneShot => armed'[w] = TRUE
      BY Zenon, <1>1, <3>1 DEF ProcessTypes
    <3> QED BY Zenon, <3>1, <3>2, <3>3, <3>4
  <2>2. CASE PassEnds(w)
    <3>1. /\ passes[w] > 0 /\ passes' = [passes EXCEPT ![w] = @ - 1]
          /\ armed' = [armed EXCEPT ![w] = @ \/ w \in OneShot]
      BY Zenon, <2>2 DEF PassEnds
    <3>2. passes' \in [Workers -> Nat] /\ armed' \in [Workers -> BOOLEAN]
      BY <1>1, <3>1 DEF ProcessTypes
    <3>3. \A v \in Workers : v # w => armed'[v] = armed[v] /\ passes'[v] = passes[v]
      BY Zenon, <1>1, <3>1 DEF ProcessTypes
    <3>4. w \notin OneShot => armed'[w] = armed[w]
      BY Zenon, <1>1, <3>1 DEF ProcessTypes
    <3> QED BY <3>1, <3>2, <3>3, <3>4
  <2> QED BY Zenon, <2>1, <2>2
<1>5. ProcessTypes'
  BY Zenon, <1>1, <1>2, <1>3, <1>4 DEF ProcessTypes
<1>6. MakerFed'
  BY <1>1, <1>2, <1>4 DEF MakerFed, Workers, OneShot
<1>7. StopOrder'
  <2>1. ASSUME NEW s \in Signals, NEW v \in Awaitable
        PROVE  /\ signalled'[s] >= StopsAt[v] => ~armed'[v]
               /\ signalled'[s] > StopsAt[v] => passes'[v] = 0
    <3>1. v \in Workers \ OneShot /\ StopsAt[v] \in 2..6 /\ signalled[s] \in 0..7
      BY Zenon, <1>1, StepTable DEF ProcessTypes
    <3>2. /\ signalled[s] >= StopsAt[v] => ~armed[v]
          /\ signalled[s] > StopsAt[v] => passes[v] = 0
      BY Zenon, <1>1 DEF StopOrder
    <3>3. signalled[s] > StopsAt[v] => signalled[s] >= StopsAt[v]
      BY <3>1
    <3> QED BY Zenon, <1>2, <1>4, <3>1, <3>2, <3>3
  <2> QED BY <1>1, <1>2, <2>1 DEF StopOrder
<1> QED BY Zenon, <1>3, <1>5, <1>6, <1>7 DEF BInv

LEMMA RequestStep ==
  ASSUME BInv, RequestArrives \/ RequestDone
  PROVE  BInv'
<1>1. /\ UNCHANGED <<bootVars, stage, verified, makerReady, armed, passes, signalled, cancelling,
                     disconnected>>
      /\ Alive /\ ProcessTypes /\ StopOrder /\ MakerFed
  BY Zenon DEF BInv, RequestArrives, RequestDone
<1>2. UNCHANGED <<env, makerReady, armed, passes, signalled, cancelling, disconnected>>
  BY Zenon, <1>1 DEF bootVars
<1>3. StageOK(stage)' /\ env' \in Environments /\ stage' \in MainStages
  BY Zenon, <1>1, StaysUp
<1>4. /\ requests' \in Nat
      /\ \A s \in Signals : signalled[s] > Closing => requests' = 0
  BY <1>1 DEF RequestArrives, RequestDone, ProcessTypes, StopOrder, Closing
<1>5. ProcessTypes' /\ MakerFed' /\ StopOrder'
  BY <1>1, <1>2, <1>3, <1>4 DEF ProcessTypes, MakerFed, StopOrder
<1> QED BY Zenon, <1>3, <1>5 DEF BInv

LEMMA MakerStep ==
  ASSUME BInv, quotesCancelled \/ \E s \in Signals : stopMaker(s)
  PROVE  BInv'
<1>1. /\ UNCHANGED <<bootVars, stage, verified, armed, passes, requests, signalled, disconnected>>
      /\ Alive /\ ProcessTypes /\ StopOrder /\ MakerFed
  BY Zenon DEF BInv, quotesCancelled, stopMaker
<1>2. UNCHANGED <<env, armed, passes, requests, signalled, disconnected>>
  BY Zenon, <1>1 DEF bootVars
<1>3. StageOK(stage)' /\ env' \in Environments /\ stage' \in MainStages
  BY Zenon, <1>1, StaysUp
<1>4. /\ makerReady' \in {makerReady, FALSE} /\ cancelling' \in Signals \cup {NoSignal}
      /\ cancelling' # NoSignal => signalled[cancelling'] = StopsMaker
  BY Zenon DEF quotesCancelled, stopMaker
<1>5. ProcessTypes'
  BY Zenon, <1>1, <1>2, <1>3, <1>4 DEF ProcessTypes
<1>6. MakerFed' /\ StopOrder'
  <2>1. MakerFed'
    <3>1. makerReady' => makerReady
      BY <1>4, Zenon
    <3> QED BY <1>1, <1>2, <3>1, Zenon DEF MakerFed
  <2>2. \A s \in Signals :
          /\ signalled'[s] > Closing => requests' = 0
          /\ \A w \in Awaitable : /\ signalled'[s] >= StopsAt[w] => ~armed'[w]
                                  /\ signalled'[s] > StopsAt[w] => passes'[w] = 0
    BY Zenon, <1>1, <1>2 DEF StopOrder
  <2>3. disconnected' => \E s \in Signals : signalled'[s] = 7
    BY <1>1, <1>2 DEF StopOrder
  <2>4. cancelling' # NoSignal => signalled'[cancelling'] = StopsMaker
    BY Zenon, <1>2, <1>4
  <2> QED BY Zenon, <2>1, <2>2, <2>3, <2>4 DEF StopOrder
<1> QED BY Zenon, <1>3, <1>5, <1>6 DEF BInv

LEMMA SignalStep ==
  ASSUME BInv, NEW s \in Signals, Signal(s)
  PROVE  BInv'
<1>1. /\ UNCHANGED <<bootVars, stage, verified, makerReady, armed, passes, requests, cancelling,
                     disconnected>>
      /\ Alive /\ ProcessTypes /\ StopOrder /\ MakerFed
      /\ signalled[s] = 0 /\ signalled' = [signalled EXCEPT ![s] = 1]
  BY Zenon DEF BInv, Signal, Closing
<1>2. UNCHANGED <<env, makerReady, armed, passes, requests, cancelling, disconnected>>
  BY Zenon, <1>1 DEF bootVars
<1>3. StageOK(stage)' /\ env' \in Environments /\ stage' \in MainStages
  BY Zenon, <1>1, StaysUp
<1>4. /\ signalled' \in [Signals -> 0..7] /\ signalled'[s] = 1
      /\ \A t \in Signals : t # s => signalled'[t] = signalled[t]
  BY <1>1 DEF ProcessTypes
<1>5. ProcessTypes' /\ MakerFed'
  BY <1>1, <1>2, <1>3, <1>4 DEF ProcessTypes, MakerFed
<1>6. StopOrder'
  <2>1. \A v \in Awaitable : StopsAt[v] \in 2..6
    BY Zenon, StepTable
  <2>2. \A t \in Signals :
          /\ signalled'[t] > Closing => requests = 0
          /\ \A w \in Awaitable : /\ signalled'[t] >= StopsAt[w] => ~armed[w]
                                  /\ signalled'[t] > StopsAt[w] => passes[w] = 0
    BY <1>1, <1>4, <2>1 DEF StopOrder, Closing
  <2>3. /\ cancelling # NoSignal => signalled'[cancelling] = StopsMaker
        /\ disconnected => \E t \in Signals : signalled'[t] = 7
    BY <1>1, <1>4 DEF StopOrder, StopsMaker, ProcessTypes
  <2> QED BY Zenon, <1>2, <2>2, <2>3 DEF StopOrder
<1> QED BY Zenon, <1>3, <1>5, <1>6 DEF BInv

LEMMA ShutdownStep ==
  ASSUME BInv, NEW s \in Signals, shutdown(s)
  PROVE  BInv'
<1> DEFINE at == signalled[s]
<1>1. /\ UNCHANGED <<bootVars, stage, verified, makerReady, passes, requests, cancelling>>
      /\ Alive /\ ProcessTypes /\ StopOrder /\ MakerFed
      /\ signalled' = [signalled EXCEPT ![s] = at + 1]
      /\ at \in 1..6 /\ Awaited(s)
  BY Zenon, StepTable DEF BInv, shutdown
<1>2. UNCHANGED <<env, makerReady, passes, requests, cancelling>>
  BY Zenon, <1>1 DEF bootVars
<1>3. StageOK(stage)' /\ env' \in Environments /\ stage' \in MainStages
  BY Zenon, <1>1, StaysUp
<1>4. /\ signalled' \in [Signals -> 0..7] /\ signalled'[s] = at + 1
      /\ \A t \in Signals : t # s => signalled'[t] = signalled[t]
  BY <1>1 DEF ProcessTypes
<1>5. /\ at + 1 \in 1..6 => armed' = [w \in Workers |-> armed[w] /\ w \notin shutdownSteps[at + 1].stops]
      /\ at + 1 \in 1..6 => disconnected' = disconnected
      /\ at + 1 \notin 1..6 => armed' = armed
  BY Zenon, StepTable DEF shutdown
<1>6. armed' \in [Workers -> BOOLEAN] /\ \A w \in Workers : armed'[w] => armed[w]
  BY Zenon, <1>1, <1>5 DEF ProcessTypes
<1>7. \A w \in Awaitable : w \in Workers /\ StopsAt[w] \in 2..6
  BY Zenon, StepTable
<1>8. ASSUME NEW w \in Awaitable, at + 1 >= StopsAt[w] PROVE ~armed'[w]
  <2>1. CASE at >= StopsAt[w]
    BY Zenon, <1>1, <1>6, <1>7, <2>1 DEF StopOrder
  <2>2. CASE at + 1 = StopsAt[w]
    <3>1. at + 1 \in 1..6 /\ w \in shutdownSteps[at + 1].stops
      BY <1>1, <1>7, <2>2, StepTable
    <3> QED BY Zenon, <1>5, <1>7, <3>1
  <2> QED BY <1>1, <1>7, <1>8, <2>1, <2>2
<1>9. ASSUME NEW w \in Awaitable, at + 1 > StopsAt[w] PROVE passes[w] = 0
  <2>1. CASE at > StopsAt[w]
    BY Zenon, <1>1, <2>1 DEF StopOrder
  <2>2. CASE at = StopsAt[w]
    <3>1. w \in shutdownSteps[at].awaits
      BY Zenon, <1>1, <2>2, StepTable
    <3> QED BY Zenon, <1>1, <3>1 DEF Awaited
  <2> QED BY <1>1, <1>7, <1>9, <2>1, <2>2
<1>10. at + 1 > Closing => requests = 0
  BY <1>1 DEF Awaited, StopOrder, Closing
<1>11. ProcessTypes'
  BY Zenon, <1>1, <1>2, <1>3, <1>4, <1>6 DEF ProcessTypes
<1>12. MakerFed'
  <2>1. ASSUME armed'["maker"] PROVE armed'["fanout"]
    <3>1. /\ "maker" \in Awaitable /\ "fanout" \in Awaitable
          /\ "maker" \in Workers /\ "fanout" \in Workers
      BY Zenon DEF Awaitable, Workers
    <3>2. at + 1 < 2
      BY <1>1, <1>8, <2>1, <3>1, StepTable
    <3> QED BY <1>1, <3>2
  <2> QED BY <1>1, <1>2, <1>6, <2>1 DEF MakerFed, Workers
<1>13. \A t \in Signals :
         /\ signalled'[t] > Closing => requests = 0
         /\ \A w \in Awaitable : /\ signalled'[t] >= StopsAt[w] => ~armed'[w]
                                 /\ signalled'[t] > StopsAt[w] => passes[w] = 0
  <2> SUFFICES ASSUME NEW t \in Signals
               PROVE  /\ signalled'[t] > Closing => requests = 0
                      /\ \A w \in Awaitable : /\ signalled'[t] >= StopsAt[w] => ~armed'[w]
                                              /\ signalled'[t] > StopsAt[w] => passes[w] = 0
    BY Zenon
  <2>1. CASE t = s
    BY Zenon, <1>4, <1>8, <1>9, <1>10, <2>1
  <2>2. CASE t # s
    BY Zenon, <1>1, <1>4, <1>6, <1>7, <2>2 DEF StopOrder
  <2> QED BY Zenon, <2>1, <2>2
<1>14. cancelling # NoSignal => signalled'[cancelling] = StopsMaker
  BY Zenon, <1>1, <1>4 DEF StopOrder, Awaited, StopsMaker, ProcessTypes
<1>15. disconnected' => \E t \in Signals : signalled'[t] = 7
  <2>1. CASE at + 1 \in 1..6
    <3>1. disconnected' => \E t \in Signals : signalled[t] = 7
      BY Zenon, <1>1, <1>5, <2>1 DEF StopOrder
    <3> QED BY <1>1, <1>4, <3>1
  <2>2. CASE at + 1 \notin 1..6
    BY <1>1, <1>4, <2>2
  <2> QED BY Zenon, <2>1, <2>2
<1>16. StopOrder'
  BY Zenon, <1>2, <1>13, <1>14, <1>15 DEF StopOrder
<1> QED BY Zenon, <1>3, <1>11, <1>12, <1>16 DEF BInv

LEMMA ExitStep ==
  ASSUME BInv, NEW s \in Signals, exit(s)
  PROVE  BInv'
<1>1. Alive /\ Reach("exited")
  BY Zenon DEF exit, Reach
<1>2. StageOK("exited")
  BY Zenon, <1>1 DEF Alive, BInv, StageOK, MainStages, BootStages
<1> QED BY Zenon, <1>1, <1>2, ReachKeeps

\* The invariant says what the property asks of a process.
LEMMA SafeFromInv ==
  ASSUME BInv
  PROVE  BootAndStopAreSafe
<1>1. RunsVerified
  <2> SUFFICES ASSUME Started \/ stage = "up" PROVE RunsVerified
    BY Zenon DEF RunsVerified
  <2>1. env \in Environments /\ stage \in MainStages /\ StageOK(stage)
    BY Zenon DEF BInv, ProcessTypes
  <2>2. stage \in {"listen", "up", "exited"}
    BY Zenon, <2>1, RestIsNotStarted DEF StageOK, MainStages, BootStages
  <2>3. Verified
    BY Zenon, <2>1, <2>2 DEF StageOK
  <2>4. /\ env.TRADING_MARKET_MAKER_ENABLED =>
              env.TRADING_MARKET_DATA_ENABLED /\ served(env) \subseteq TEST_CLUSTERS
        /\ env.TRADING_ENABLED => env.CLEARING_ADDRESS # env.TREASURY_ADDRESS
        /\ env.NODE_ENV = "production" =>
              /\ env.SIGNER_KIND = "real" /\ env.SOLANA_COMMITMENT = "finalized"
              /\ \A v \in CRITICAL_SECRETS \cap DOMAIN env.secrets :
                   env.secrets[v].scheme # "literal"
    BY Zenon, <2>1, <2>3, Accepted DEF Verified
  <2>5. armed["maker"] => served(env) \subseteq TEST_CLUSTERS /\ armed["fanout"]
    BY Zenon, <2>4 DEF BInv, MakerFed
  <2>6. /\ NetworksMatch
        /\ env.TRADING_ENABLED => ClearingIsOurs /\ MarketsResolve
    BY Zenon, <2>3 DEF Verified
  <2> QED BY Zenon, <2>4, <2>5, <2>6 DEF RunsVerified, NetworksMatch, ClearingIsOurs, MarketsResolve
<1>2. QuietAtDisconnect
  <2> SUFFICES ASSUME disconnected PROVE QuietAtDisconnect
    BY Zenon DEF QuietAtDisconnect
  <2>1. PICK s \in Signals : signalled[s] = 7
    BY Zenon DEF BInv, StopOrder
  <2>2. requests = 0
    BY <2>1 DEF BInv, StopOrder, Closing
  <2>3. \A w \in Awaitable : passes[w] = 0
    BY <2>1, StepTable DEF BInv, StopOrder
  <2> DEFINE S == {t \in Signals : signalled[t] > 0}
  <2>4. ASSUME Cardinality(S) = 1 PROVE cancelling = NoSignal
    <3>1. IsFiniteSet(S)
      BY Zenon, ProcessAssumption, FS_Subset
    <3>2. PICK t : S = {t}
      BY Zenon, <2>4, <3>1, FS_Singleton
    <3>3. ASSUME cancelling # NoSignal PROVE FALSE
      <4>1. cancelling \in Signals /\ signalled[cancelling] = 2
        BY Zenon, <3>3 DEF BInv, StopOrder, ProcessTypes, StopsMaker
      <4>2. cancelling \in S /\ s \in S
        BY <2>1, <4>1
      <4>3. cancelling = s
        BY Zenon, <3>2, <4>2
      <4> QED BY <2>1, <4>1, <4>3
    <3> QED BY Zenon, <3>3
  <2> QED BY Zenon, <2>2, <2>3, <2>4 DEF QuietAtDisconnect, Awaitable
<1> QED BY Zenon, <1>1, <1>2 DEF BootAndStopAreSafe

(* Whatever environment the process is given, whatever the endpoints and the *)
(* signer answer, and however signals, passes and requests interleave: boot  *)
(* starts nothing it has not verified, and a shutdown closes the database    *)
(* under no request and no pass it awaits, with the quotes of the maker      *)
(* cancelled unless a second signal hurried it                               *)
(* (apps/api/src/server.ts, apps/api/src/index.ts).                          *)
THEOREM BootAndStopAreSafeAlways == ProcessSpec => []BootAndStopAreSafe
<1>1. ProcessInit => BInv
  <2> SUFFICES ASSUME ProcessInit PROVE BInv
    BY Zenon
  <2>1. AtRest /\ stage = "parse" /\ verified = {} /\ makerReady = FALSE /\ env \in Environments
    BY Zenon DEF ProcessInit, AtRest
  <2>2. ProcessTypes
    <3>1. armed \in [Workers -> BOOLEAN] /\ makerReady \in BOOLEAN
      BY <2>1, Zenon DEF AtRest
    <3>2. passes \in [Workers -> Nat] /\ signalled \in [Signals -> 0..7]
      BY <2>1 DEF AtRest
    <3> QED BY Zenon, <2>1, <3>1, <3>2 DEF AtRest, ProcessTypes, MainStages, BootStages
  <2>3. StageOK(stage)
    BY Zenon, <2>1 DEF StageOK, MainStages, BootStages
  <2>4. StopOrder /\ MakerFed
    BY Zenon, <2>1, StepTable DEF AtRest, StopOrder, MakerFed, Workers, Closing
  <2> QED BY Zenon, <2>2, <2>3, <2>4 DEF BInv
<1>2. BInv /\ [ProcessNext]_processVars => BInv'
  <2> SUFFICES ASSUME BInv, [ProcessNext]_processVars PROVE BInv'
    BY Zenon
  <2>1. CASE UNCHANGED processVars
    <3>1. Reach(stage)
      BY Zenon, <2>1 DEF processVars, Reach, bootVars, runVars
    <3>2. StageOK(stage)
      BY Zenon DEF BInv
    <3> QED BY Zenon, <3>1, <3>2, ReachKeeps
  <2>2. CASE ProcessNext
    BY Zenon, <2>2, BootStep, PassStep, RequestStep, MakerStep, SignalStep, ShutdownStep, ExitStep
       DEF ProcessNext
  <2> QED BY Zenon, <2>1, <2>2
<1> QED BY <1>1, <1>2, SafeFromInv, PTL DEF ProcessSpec

Stages == {"idle", "reading", "checking", "sending"}
Socket == [open : BOOLEAN, used : BOOLEAN, subs : SUBSET Channels, asking : SUBSET Channels,
           cursor : Int, stage : Stages, again : BOOLEAN, readAt : Int, since : Int,
           batch : SUBSET [row : Rows, version : Nat], pings : Nat,
           base : [Rows -> Nat], sent : [Rows -> Nat]]
RowStates == [Rows -> [version : Nat, stamp : Nat]]

HubTypeOK ==
  /\ time \in Nat /\ rows \in RowStates /\ writes \in [Rows -> Int] /\ hints \in Nat
  /\ signedIn \in BOOLEAN /\ atEnd \in [Rows -> Nat] /\ hubFaults \in Nat
  /\ socks \in [Sockets -> Socket]

\* No statement waits longer than CommitLag for its commit.
WritesAreYoung ==
  \A r \in Rows : writes[r] # Unset =>
    writes[r] \in Nat /\ writes[r] <= time /\ time - writes[r] <= CommitLag

\* At time t with rows rs, in a session that is live or ended at rows `end`:
\* a socket holds nothing newer than the rows, and what it may send of an
\* ended session is no newer than its end.
SockOK(s, t, rs, live, end) ==
  /\ s.cursor <= t /\ s.readAt <= t
  /\ s.stage # "idle" => s.readAt >= 0
  /\ s.asking # {} => s.open
  /\ "account" \in s.subs => s.open /\ s.cursor # Unset
  /\ \A r \in Rows : s.sent[r] <= rs[r].version
  /\ \A m \in s.batch : m.version <= rs[m.row].version
  /\ ~live => \A r \in Rows : s.sent[r] <= end[r]
  /\ ~live /\ s.stage = "sending" => \A m \in s.batch : m.version <= end[m.row]

\* A subscribed socket was sent the row, or ...
Fresh(s, rs, r) == rs[r].version <= s.base[r] \/ s.sent[r] = rs[r].version

\* ... the read under way has it or will find it, or another one will come
\* that reaches back to it.
Owed(s, rs, r, h) ==
  /\ rs[r].stamp >= s.cursor - CommitLag
  /\ s.stage = "idle" => h > 0
  /\ s.stage = "reading" => rs[r].stamp >= s.since
  /\ s.stage \in {"checking", "sending"} =>
       \/ [row |-> r, version |-> rs[r].version] \in s.batch
       \/ rs[r].stamp >= s.readAt - CommitLag /\ (h > 0 \/ s.again)

FeedOK(s, rs, h) ==
  /\ s.stage = "reading" => s.since <= s.readAt - CommitLag
  /\ "account" \in s.subs => \A r \in Rows : Fresh(s, rs, r) \/ Owed(s, rs, r, h)

\* A private read reaches back as far as a commit may lag, and takes every
\* order of the user.
Reaches == CommitLag <= Overlap /\ Cardinality(Rows) <= Batch

SocksOK == \A c \in Sockets : SockOK(socks[c], time, rows, signedIn, atEnd)
FeedsOK == Reaches /\ hubFaults = 0 => \A c \in Sockets : FeedOK(socks[c], rows, hints)

HubSane == HubTypeOK /\ WritesAreYoung /\ SocksOK

\* What holds of one socket when h hints are under way.
Good(s, h) ==
  /\ s \in Socket
  /\ SockOK(s, time, rows, signedIn, atEnd)
  /\ Reaches /\ hubFaults = 0 => FeedOK(s, rows, h)

\* A set of natural numbers has a lowest one.
LEMMA LowestNat ==
  ASSUME NEW S \in SUBSET Nat, S # {}
  PROVE  \E n \in S : \A m \in S : n <= m
<1> DEFINE R == {p \in Nat \X Nat : p[1] < p[2]}
<1>1. \E n \in S : \A m \in S : ~(<<m, n>> \in R)
  <2>1. IsWellFoundedOn(R, Nat)
    BY Zenon, NatLessThanWellFounded DEF OpToRel
  <2> HIDE DEF R
  <2> QED BY Zenon, <2>1, WFMin
<1>2. PICK n \in S : \A m \in S : ~(<<m, n>> \in R)
  BY Zenon, <1>1
<1>3. ASSUME NEW m \in S PROVE n <= m
  <2>1. ~(<<m, n>> \in R) /\ m \in Nat /\ n \in Nat
    BY Zenon, <1>2
  <2> QED BY <2>1
<1> QED BY Zenon, <1>3

\* A bounded one has a highest.
LEMMA HighestNat ==
  ASSUME NEW S \in SUBSET Nat, S # {}, NEW n \in Nat, \A x \in S : x <= n
  PROVE  Max(S) \in S /\ \A x \in S : x <= Max(S)
<1> DEFINE T == {n - x : x \in S}
<1>0. \A x \in S : x \in Nat /\ n - x \in Nat
  OBVIOUS
<1>1. T \in SUBSET Nat /\ T # {}
  <2>1. \A t \in T : t \in Nat
    BY Zenon, <1>0
  <2> QED BY Zenon, <2>1
<1>2. PICK k \in T : \A m \in T : k <= m
  BY Zenon, <1>1, LowestNat
<1>3. PICK x \in S : k = n - x
  BY Zenon, <1>2
<1>4. ASSUME NEW y \in S PROVE x >= y
  <2>1. n - x <= n - y
    BY Zenon, <1>2, <1>3
  <2> QED BY <2>1, <1>0
<1>5. \E z \in S : \A y \in S : z >= y
  BY Zenon, <1>4
<1> QED BY Zenon, <1>5 DEF Max

\* A read whose limit covers the rows returns every row changed since.
LEMMA WholeRead ==
  ASSUME rows \in RowStates, NEW since \in Int, Cardinality(Rows) <= Batch,
         NEW batch \in listChangedSince(since, Batch)
  PROVE  batch = {Version(r) : r \in {r \in Rows : rows[r].stamp >= since /\ rows[r].version > 0}}
<1> DEFINE changed == {r \in Rows : rows[r].stamp >= since /\ rows[r].version > 0}
<1>1. PICK b \in SUBSET changed : /\ batch = {Version(r) : r \in b}
                                  /\ Cardinality(b) = Min({Batch, Cardinality(changed)})
  BY Zenon DEF listChangedSince
<1>2. IsFiniteSet(changed) /\ Cardinality(changed) <= Cardinality(Rows)
  BY Zenon, HubAssumption, FS_Subset
<1>3. Cardinality(changed) \in Nat /\ Cardinality(Rows) \in Nat /\ Batch \in Nat
  BY Zenon, <1>2, HubAssumption, FS_CardinalityType
<1> HIDE DEF changed
<1>4. Min({Batch, Cardinality(changed)}) = Cardinality(changed)
  <2> DEFINE n == Cardinality(changed)
  <2> HIDE DEF n
  <2>1. n <= Batch /\ n \in Nat
    BY <1>2, <1>3 DEF n
  <2>2. \A x \in {Batch, n} : (\A y \in {Batch, n} : x <= y) <=> x = n
    BY <2>1, <1>3
  <2> QED BY <2>2, Zenon DEF Min, n
<1>5. b = changed
  BY Zenon, <1>1, <1>2, <1>4, FS_Subset
<1> QED BY Zenon, <1>1, <1>5 DEF changed

\* Whatever a read returns is a row as it is now.
LEMMA ReadIsCurrent ==
  ASSUME rows \in RowStates, NEW since, NEW limit, NEW batch \in listChangedSince(since, limit)
  PROVE  /\ batch \in SUBSET [row : Rows, version : Nat]
         /\ \A m \in batch : m.version = rows[m.row].version
<1>1. PICK b \in SUBSET Rows : batch = {Version(r) : r \in b}
  BY Zenon DEF listChangedSince
<1>2. ASSUME NEW m \in batch
      PROVE  m \in [row : Rows, version : Nat] /\ m.version = rows[m.row].version
  BY <1>1 DEF Version, RowStates
<1> QED BY Zenon, <1>2

LEMMA SocketIsGood ==
  ASSUME HubSane, FeedsOK, NEW c \in Sockets
  PROVE  Good(socks[c], hints)
<1>1. socks[c] \in Socket
  BY Zenon DEF HubSane, HubTypeOK
<1> QED BY Zenon, <1>1 DEF HubSane, SocksOK, FeedsOK, Good

\* A handler that changes one socket.
LEMMA OneSocket ==
  ASSUME HubSane, FeedsOK, NEW c \in Sockets, NEW s, Good(s, hints), SetSock(c, s),
         UNCHANGED <<time, rows, writes, hints, signedIn, atEnd>>,
         hubFaults' \in Nat, hubFaults' = 0 => hubFaults = 0
  PROVE  HubSane' /\ FeedsOK'
<1>1. \A d \in Sockets : Good(socks[d], hints)
  BY Zenon, SocketIsGood
<1>2. socks \in [Sockets -> Socket] /\ socks' = [socks EXCEPT ![c] = s]
  BY Zenon DEF HubSane, HubTypeOK, SetSock
<1>3. \A d \in Sockets : socks'[d] = IF d = c THEN s ELSE socks[d]
  BY Zenon, <1>2
<1>4. \A d \in Sockets : Good(socks'[d], hints)
  BY Zenon, <1>1, <1>3
<1>5. socks' \in [Sockets -> Socket]
  BY Zenon, <1>2 DEF Good
<1>6. HubTypeOK' /\ WritesAreYoung'
  BY Zenon, <1>5 DEF HubSane, HubTypeOK, WritesAreYoung
<1>7. SocksOK' /\ FeedsOK'
  BY Zenon, <1>4 DEF Good, SocksOK, FeedsOK
<1> QED BY Zenon, <1>6, <1>7 DEF HubSane

\* Fields of a socket.
LEMMA SocketFields ==
  ASSUME NEW s \in Socket
  PROVE  /\ s.cursor \in Int /\ s.readAt \in Int /\ s.since \in Int
         /\ s.stage \in Stages /\ s.again \in BOOLEAN /\ s.open \in BOOLEAN
         /\ s.batch \in SUBSET [row : Rows, version : Nat]
         /\ s.sent \in [Rows -> Nat] /\ s.base \in [Rows -> Nat]
         /\ s.subs \in SUBSET Channels /\ s.asking \in SUBSET Channels /\ s.pings \in Nat
  BY Zenon DEF Socket

LEMMA ClosedIsGood ==
  ASSUME HubSane, NEW s, NEW h \in Nat, Good(s, h)
  PROVE  Good(closed(s), h)
<1> DEFINE n == closed(s)
<1>1. s \in Socket /\ s.sent \in [Rows -> Nat] /\ time \in Nat
  BY Zenon, SocketFields DEF Good, HubSane, HubTypeOK
<1>2. /\ n.subs = {} /\ n.asking = {} /\ n.cursor = -1 /\ n.readAt = -1 /\ n.since = -1
      /\ n.stage = "idle" /\ n.batch = {} /\ n.sent = s.sent
  BY Zenon DEF closed, Closed, Unset
<1>3. n \in Socket
  <2>1. /\ Unset \in Int /\ 0 \in Nat /\ "idle" \in Stages /\ {} \in SUBSET Channels
        /\ {} \in SUBSET [row : Rows, version : Nat] /\ [r \in Rows |-> 0] \in [Rows -> Nat]
        /\ TRUE \in BOOLEAN /\ FALSE \in BOOLEAN
    BY DEF Unset, Stages
  <2>2. Closed \in Socket
    BY <2>1, Zenon DEF Closed, Socket
  <2> QED BY <1>1, <2>2, Zenon DEF closed, Socket
<1> HIDE DEF n
<1>4. SockOK(n, time, rows, signedIn, atEnd)
  BY <1>1, <1>2 DEF Good, SockOK
<1>5. FeedOK(n, rows, h)
  BY Zenon, <1>2 DEF FeedOK
<1> QED BY Zenon, <1>3, <1>4, <1>5 DEF Good, n

\* A change that leaves the channel and what was sent alone.
LEMMA AsideIsGood ==
  ASSUME NEW s, NEW h \in Nat, Good(s, h), NEW n \in Socket,
         /\ n.cursor = s.cursor /\ n.readAt = s.readAt /\ n.since = s.since
         /\ n.stage = s.stage /\ n.again = s.again /\ n.batch = s.batch
         /\ n.sent = s.sent /\ n.base = s.base /\ n.open = s.open,
         n.asking # {} => n.open,
         "account" \in n.subs => "account" \in s.subs
  PROVE  Good(n, h)
<1>1. SockOK(n, time, rows, signedIn, atEnd)
  BY Zenon DEF Good, SockOK
<1>2. ASSUME Reaches, hubFaults = 0 PROVE FeedOK(n, rows, h)
  <2>1. FeedOK(s, rows, h)
    BY Zenon, <1>2 DEF Good
  <2>2. \A r \in Rows : /\ Fresh(s, rows, r) => Fresh(n, rows, r)
                        /\ Owed(s, rows, r, h) => Owed(n, rows, r, h)
    BY Zenon DEF Fresh, Owed
  <2> QED BY Zenon, <2>1, <2>2 DEF FeedOK
<1> QED BY Zenon, <1>1, <1>2 DEF Good

\* A turn that starts from a cursor within reach of every row the socket was
\* not sent will find them.
LEMMA TurnIsGood ==
  ASSUME HubSane, NEW s \in Socket, NEW h \in Nat, s.cursor # Unset,
         SockOK(s, time, rows, signedIn, atEnd),
         Reaches /\ hubFaults = 0 /\ "account" \in s.subs =>
           \A r \in Rows : Fresh(s, rows, r) \/ rows[r].stamp >= s.cursor - CommitLag
  PROVE  Good(turn(s), h)
<1> DEFINE n == turn(s)
<1>1. n = [s EXCEPT !.stage = "reading", !.again = FALSE, !.batch = {}, !.readAt = time,
                    !.since = s.cursor - Overlap]
  BY Zenon DEF turn
<1>2. /\ time \in Nat /\ time \in Int /\ s.cursor \in Int /\ s.cursor - Overlap \in Int
      /\ s.cursor <= time /\ rows \in RowStates /\ Overlap \in Nat /\ CommitLag \in Nat
  BY SocketFields, HubAssumption DEF HubSane, HubTypeOK, SockOK
<1>3. n \in Socket
  <2>1. /\ "reading" \in Stages /\ {} \in SUBSET [row : Rows, version : Nat]
        /\ FALSE \in BOOLEAN
    BY Zenon DEF Stages
  <2> QED BY <1>1, <1>2, <2>1, Zenon DEF Socket
<1>4. /\ n.stage = "reading" /\ n.batch = {} /\ n.readAt = time
      /\ n.since = s.cursor - Overlap /\ n.cursor = s.cursor /\ n.sent = s.sent
      /\ n.base = s.base /\ n.subs = s.subs /\ n.asking = s.asking /\ n.open = s.open
  BY <1>1, Zenon DEF Socket
<1> HIDE DEF n
<1>5. SockOK(n, time, rows, signedIn, atEnd)
  BY <1>2, <1>4 DEF SockOK
<1>6. ASSUME Reaches, hubFaults = 0 PROVE FeedOK(n, rows, h)
  <2>1. n.since <= n.readAt - CommitLag
    BY <1>2, <1>4, <1>6 DEF Reaches
  <2>2. ASSUME "account" \in n.subs, NEW r \in Rows
        PROVE  Fresh(n, rows, r) \/ Owed(n, rows, r, h)
    <3>1. Fresh(s, rows, r) => Fresh(n, rows, r)
      BY Zenon, <1>4 DEF Fresh
    <3>2. rows[r].stamp \in Nat
      BY Zenon, <1>2 DEF RowStates
    <3>3. rows[r].stamp >= s.cursor - CommitLag => Owed(n, rows, r, h)
      BY <1>2, <1>4, <1>6, <3>2 DEF Owed, Reaches
    <3> QED BY Zenon, <1>4, <1>6, <2>2, <3>1, <3>3
  <2> QED BY Zenon, <2>1, <2>2 DEF FeedOK
<1> QED BY Zenon, <1>3, <1>5, <1>6 DEF Good, n

\* A hint is taken by a turn, or by the one that follows the turn under way.
LEMMA PushIsGood ==
  ASSUME HubSane, NEW s, NEW h \in Nat, NEW k \in Nat, Good(s, h), s.cursor # Unset
  PROVE  Good(pushAccount(s), k)
<1>1. s \in Socket /\ SockOK(s, time, rows, signedIn, atEnd)
  BY Zenon DEF Good
<1>2. CASE ~pushing(s)
  <2>1. Reaches /\ hubFaults = 0 /\ "account" \in s.subs =>
           \A r \in Rows : Fresh(s, rows, r) \/ rows[r].stamp >= s.cursor - CommitLag
    BY Zenon DEF Good, FeedOK, Owed
  <2> QED BY Zenon, <1>1, <1>2, <2>1, TurnIsGood DEF pushAccount
<1>3. CASE pushing(s)
  <2> DEFINE n == [s EXCEPT !.again = TRUE]
  <2>1. n \in Socket
    BY <1>1, Zenon DEF Socket
  <2>2. /\ n.stage = s.stage /\ n.batch = s.batch /\ n.readAt = s.readAt
        /\ n.since = s.since /\ n.cursor = s.cursor /\ n.sent = s.sent
        /\ n.base = s.base /\ n.subs = s.subs /\ n.asking = s.asking /\ n.open = s.open
        /\ n.again = TRUE
    BY <1>1, Zenon DEF Socket
  <2> HIDE DEF n
  <2>3. SockOK(n, time, rows, signedIn, atEnd)
    BY Zenon, <1>1, <2>2 DEF SockOK
  <2>4. ASSUME Reaches, hubFaults = 0 PROVE FeedOK(n, rows, k)
    <3>1. \A r \in Rows : /\ Fresh(s, rows, r) => Fresh(n, rows, r)
                          /\ Owed(s, rows, r, h) => Owed(n, rows, r, k)
      BY Zenon, <1>3, <2>2 DEF Fresh, Owed, pushing
    <3> QED BY Zenon, <2>2, <2>4, <3>1 DEF Good, FeedOK
  <2>5. Good(n, k)
    BY Zenon, <2>1, <2>3, <2>4 DEF Good
  <2> QED BY Zenon, <1>3, <2>5 DEF pushAccount, n
<1> QED BY Zenon, <1>2, <1>3

\* The socket after a subscription that was granted.
Subscribed(s, ch) ==
  LET asked == [s EXCEPT !.asking = @ \ {ch}] IN
  IF ch # "account" THEN [asked EXCEPT !.subs = @ \cup {ch}]
  ELSE [asked EXCEPT !.subs = @ \cup {ch}, !.cursor = IF @ = Unset THEN time ELSE @,
                     !.base = IF ch \in s.subs THEN @ ELSE [r \in Rows |-> rows[r].version]]

\* The orders a new subscription starts from are shown by the page.
LEMMA SubscribeIsGood ==
  ASSUME HubSane, NEW s, NEW h \in Nat, Good(s, h), NEW ch \in Channels, ch \in s.asking
  PROVE  Good(Subscribed(s, ch), h)
<1> DEFINE n == Subscribed(s, ch)
<1>1. s \in Socket /\ SockOK(s, time, rows, signedIn, atEnd)
  BY Zenon DEF Good
<1>2. /\ time \in Nat /\ rows \in RowStates
      /\ [r \in Rows |-> rows[r].version] \in [Rows -> Nat]
  BY Zenon DEF HubSane, HubTypeOK, RowStates
<1>3. /\ s.subs \cup {ch} \in SUBSET Channels /\ s.asking \ {ch} \in SUBSET Channels
      /\ s.cursor \in Int /\ s.base \in [Rows -> Nat] /\ s.open
  BY Zenon, <1>1, SocketFields DEF SockOK
<1>4. CASE ch # "account"
  <2>1. n = [s EXCEPT !.asking = s.asking \ {ch}, !.subs = s.subs \cup {ch}]
    BY Zenon, <1>1, <1>4 DEF Socket, Subscribed
  <2> HIDE DEF n
  <2>2. n \in Socket
    BY <1>1, <1>3, <2>1, Zenon DEF Socket
  <2>3. /\ n.cursor = s.cursor /\ n.readAt = s.readAt /\ n.since = s.since
        /\ n.stage = s.stage /\ n.again = s.again /\ n.batch = s.batch
        /\ n.sent = s.sent /\ n.base = s.base /\ n.open = s.open
        /\ n.asking = s.asking \ {ch} /\ n.subs = s.subs \cup {ch}
    BY <1>1, <2>1, Zenon DEF Socket
  <2> QED BY Zenon, <1>3, <1>4, <2>2, <2>3, AsideIsGood DEF n
<1>5. CASE ch = "account"
  <2> DEFINE cursor == IF s.cursor = Unset THEN time ELSE s.cursor
             base == IF ch \in s.subs THEN s.base ELSE [r \in Rows |-> rows[r].version]
  <2>1. n = [s EXCEPT !.asking = s.asking \ {ch}, !.subs = s.subs \cup {ch},
                      !.cursor = cursor, !.base = base]
    BY Zenon, <1>1, <1>5 DEF Socket, Subscribed
  <2> HIDE DEF n
  <2>2. cursor \in Int /\ base \in [Rows -> Nat] /\ cursor # Unset /\ cursor <= time
    BY <1>1, <1>2, <1>3 DEF Unset, SockOK
  <2>3. ch \in s.subs => cursor = s.cursor /\ base = s.base
    BY Zenon, <1>1, <1>5 DEF SockOK
  <2>4. ch \notin s.subs => \A r \in Rows : base[r] = rows[r].version
    BY Zenon
  <2> HIDE DEF cursor, base
  <2>5. n \in Socket
    BY <1>1, <1>3, <2>1, <2>2, Zenon DEF Socket
  <2>6. /\ n.cursor = cursor /\ n.readAt = s.readAt /\ n.since = s.since
        /\ n.stage = s.stage /\ n.again = s.again /\ n.batch = s.batch
        /\ n.sent = s.sent /\ n.base = base /\ n.open = s.open
        /\ n.asking = s.asking \ {ch} /\ n.subs = s.subs \cup {ch}
    BY <1>1, <2>1, Zenon DEF Socket
  <2>7. SockOK(n, time, rows, signedIn, atEnd)
    BY Zenon, <1>1, <1>3, <2>2, <2>6 DEF SockOK
  <2>8. ASSUME Reaches, hubFaults = 0 PROVE FeedOK(n, rows, h)
    <3>1. FeedOK(s, rows, h)
      BY Zenon, <2>8 DEF Good
    <3>2. CASE ch \in s.subs
      <4>1. \A r \in Rows : /\ Fresh(s, rows, r) => Fresh(n, rows, r)
                            /\ Owed(s, rows, r, h) => Owed(n, rows, r, h)
        BY Zenon, <2>3, <2>6, <3>2 DEF Fresh, Owed
      <4> QED BY Zenon, <3>1, <3>2, <1>5, <2>6, <4>1 DEF FeedOK
    <3>3. CASE ch \notin s.subs
      <4>1. \A r \in Rows : Fresh(n, rows, r)
        <5> TAKE r \in Rows
        <5>1. n.base[r] = rows[r].version /\ rows[r].version \in Nat
          BY Zenon, <2>4, <2>6, <3>3, <1>2 DEF RowStates
        <5> QED BY <5>1 DEF Fresh
      <4> QED BY Zenon, <3>1, <2>6, <4>1 DEF FeedOK
    <3> QED BY Zenon, <3>2, <3>3
  <2> QED BY Zenon, <2>5, <2>7, <2>8 DEF Good, n
<1> QED BY Zenon, <1>4, <1>5

LEMMA UnsubscribeIsGood ==
  ASSUME HubSane, NEW s, NEW h \in Nat, Good(s, h), NEW ch \in Channels,
         NEW n,
         n = [s EXCEPT !.subs = @ \ {ch}, !.cursor = IF ch = "account" THEN Unset ELSE @]
  PROVE  Good(n, h)
<1> DEFINE cursor == IF ch = "account" THEN Unset ELSE s.cursor
<1>1. s \in Socket /\ SockOK(s, time, rows, signedIn, atEnd) /\ time \in Nat
  BY Zenon DEF Good, HubSane, HubTypeOK
<1>2. n = [s EXCEPT !.subs = s.subs \ {ch}, !.cursor = cursor]
  BY Zenon, <1>1 DEF Socket
<1>3. /\ s.subs \ {ch} \in SUBSET Channels /\ cursor \in Int /\ cursor <= time
      /\ ch # "account" => cursor = s.cursor
  BY <1>1, SocketFields DEF Unset, SockOK
<1> HIDE DEF cursor
<1>4. n \in Socket
  BY <1>1, <1>2, <1>3, Zenon DEF Socket
<1>5. /\ n.cursor = cursor /\ n.readAt = s.readAt /\ n.since = s.since
      /\ n.stage = s.stage /\ n.again = s.again /\ n.batch = s.batch
      /\ n.sent = s.sent /\ n.base = s.base /\ n.open = s.open
      /\ n.asking = s.asking /\ n.subs = s.subs \ {ch}
  BY <1>1, <1>2, Zenon DEF Socket
<1>6. SockOK(n, time, rows, signedIn, atEnd)
  BY Zenon, <1>1, <1>3, <1>5 DEF SockOK
<1>7. ASSUME Reaches, hubFaults = 0 PROVE FeedOK(n, rows, h)
  <2>1. FeedOK(s, rows, h)
    BY Zenon, <1>7 DEF Good
  <2>2. \A r \in Rows : /\ Fresh(s, rows, r) => Fresh(n, rows, r)
                        /\ ch # "account" /\ Owed(s, rows, r, h) => Owed(n, rows, r, h)
    BY Zenon, <1>3, <1>5 DEF Fresh, Owed
  <2> QED BY Zenon, <1>5, <2>1, <2>2 DEF FeedOK
<1> QED BY Zenon, <1>4, <1>6, <1>7 DEF Good

\* A read made with the session checked after it.
LEMMA ReadIsGood ==
  ASSUME HubSane, NEW s, NEW h \in Nat, Good(s, h), s.stage = "reading",
         NEW batch \in listChangedSince(s.since, Batch),
         NEW n,
         n = IF s.cursor = Unset THEN [s EXCEPT !.stage = "idle", !.again = FALSE]
             ELSE [s EXCEPT !.stage = "checking", !.batch = batch]
  PROVE  Good(n, h)
<1>1. s \in Socket /\ SockOK(s, time, rows, signedIn, atEnd) /\ time \in Nat
      /\ rows \in RowStates
  BY Zenon DEF Good, HubSane, HubTypeOK
<1>2. CASE s.cursor = Unset
  <2>1. n = [s EXCEPT !.stage = "idle", !.again = FALSE]
    BY Zenon, <1>2
  <2>2. n \in Socket
    <3>1. "idle" \in Stages /\ FALSE \in BOOLEAN
      BY Zenon DEF Stages
    <3> QED BY <1>1, <2>1, <3>1, Zenon DEF Socket
  <2>3. /\ n.cursor = s.cursor /\ n.readAt = s.readAt /\ n.stage = "idle"
        /\ n.batch = s.batch /\ n.sent = s.sent /\ n.open = s.open
        /\ n.asking = s.asking /\ n.subs = s.subs
    BY <1>1, <2>1, Zenon DEF Socket
  <2>4. SockOK(n, time, rows, signedIn, atEnd)
    BY Zenon, <1>1, <2>3 DEF SockOK
  <2>5. FeedOK(n, rows, h)
    BY Zenon, <1>1, <1>2, <2>3 DEF SockOK, FeedOK
  <2> QED BY Zenon, <2>2, <2>4, <2>5 DEF Good
<1>3. CASE s.cursor # Unset
  <2>1. n = [s EXCEPT !.stage = "checking", !.batch = batch]
    BY Zenon, <1>3
  <2>2. /\ batch \in SUBSET [row : Rows, version : Nat]
        /\ \A m \in batch : m.version = rows[m.row].version
    BY Zenon, <1>1, ReadIsCurrent
  <2>3. n \in Socket
    <3>1. "checking" \in Stages
      BY Zenon DEF Stages
    <3> QED BY <1>1, <2>1, <2>2, <3>1, Zenon DEF Socket
  <2>4. /\ n.cursor = s.cursor /\ n.readAt = s.readAt /\ n.stage = "checking"
        /\ n.batch = batch /\ n.sent = s.sent /\ n.open = s.open /\ n.base = s.base
        /\ n.asking = s.asking /\ n.subs = s.subs
    BY <1>1, <2>1, Zenon DEF Socket
  <2>5. \A m \in batch : m.version <= rows[m.row].version
    BY <1>1, <2>2 DEF RowStates
  <2>6. SockOK(n, time, rows, signedIn, atEnd)
    <3>1. s.readAt >= 0
      BY Zenon, <1>1 DEF SockOK
    <3> QED BY Zenon, <1>1, <2>4, <2>5, <3>1 DEF SockOK
  <2>7. ASSUME Reaches, hubFaults = 0 PROVE FeedOK(n, rows, h)
    <3>1. FeedOK(s, rows, h)
      BY Zenon, <2>7 DEF Good
    <3>2. s.since \in Int /\ s.base \in [Rows -> Nat]
      BY Zenon, <1>1, SocketFields
    <3>3. batch = {Version(r) : r \in {r \in Rows : rows[r].stamp >= s.since
                                                    /\ rows[r].version > 0}}
      BY Zenon, <1>1, <2>7, <3>2, WholeRead DEF Reaches
    <3>4. ASSUME NEW r \in Rows, "account" \in s.subs
          PROVE  Fresh(n, rows, r) \/ Owed(n, rows, r, h)
      <4>1. CASE Fresh(s, rows, r)
        BY Zenon, <4>1, <2>4 DEF Fresh
      <4>2. CASE ~Fresh(s, rows, r)
        <5>1. Owed(s, rows, r, h)
          BY Zenon, <3>1, <3>4, <4>2 DEF FeedOK
        <5>2. rows[r].version > 0
          BY <1>1, <3>2, <4>2 DEF Fresh, RowStates
        <5>3. Version(r) \in batch
          BY Zenon, <3>3, <5>1, <5>2 DEF Owed
        <5> QED BY Zenon, <2>4, <5>1, <5>3 DEF Owed, Version
      <4> QED BY Zenon, <4>1, <4>2
    <3> QED BY Zenon, <2>4, <3>4 DEF FeedOK
  <2> QED BY Zenon, <2>3, <2>6, <2>7 DEF Good
<1> QED BY Zenon, <1>2, <1>3

\* The session lives, so all that was read before may be sent.
LEMMA CheckIsGood ==
  ASSUME HubSane, NEW s, NEW h \in Nat, Good(s, h), s.stage = "checking", signedIn,
         NEW n, n = [s EXCEPT !.stage = "sending"]
  PROVE  Good(n, h)
<1>1. s \in Socket /\ SockOK(s, time, rows, signedIn, atEnd)
  BY Zenon DEF Good
<1>2. n \in Socket
  <2>1. "sending" \in Stages
    BY Zenon DEF Stages
  <2> QED BY <1>1, <2>1, Zenon DEF Socket
<1>3. /\ n.cursor = s.cursor /\ n.readAt = s.readAt /\ n.since = s.since
      /\ n.stage = "sending" /\ n.again = s.again /\ n.batch = s.batch
      /\ n.sent = s.sent /\ n.base = s.base /\ n.open = s.open
      /\ n.asking = s.asking /\ n.subs = s.subs
  BY <1>1, Zenon DEF Socket
<1>4. SockOK(n, time, rows, signedIn, atEnd)
  BY Zenon, <1>1, <1>3 DEF SockOK
<1>5. ASSUME Reaches, hubFaults = 0 PROVE FeedOK(n, rows, h)
  <2>1. FeedOK(s, rows, h)
    BY Zenon, <1>5 DEF Good
  <2>2. \A r \in Rows : /\ Fresh(s, rows, r) => Fresh(n, rows, r)
                        /\ Owed(s, rows, r, h) => Owed(n, rows, r, h)
    BY Zenon, <1>3 DEF Fresh, Owed
  <2> QED BY Zenon, <1>3, <2>1, <2>2 DEF FeedOK
<1> QED BY Zenon, <1>2, <1>4, <1>5 DEF Good

\* What is sent is the newest of what was sent and what was read.
LEMMA Received ==
  ASSUME rows \in RowStates, NEW s \in Socket, NEW r \in Rows, NEW top \in Nat,
         s.sent[r] <= top, \A m \in s.batch : m.row = r => m.version <= top
  PROVE  /\ received(s, r) \in Nat /\ received(s, r) <= top /\ s.sent[r] <= received(s, r)
         /\ \A m \in s.batch : m.row = r => m.version <= received(s, r)
<1> DEFINE S == {s.sent[r]} \cup {m.version : m \in {b \in s.batch : b.row = r}}
<1>1. s.sent[r] \in Nat /\ \A m \in s.batch : m.version \in Nat
  BY Zenon, SocketFields
<1>2. S \in SUBSET Nat /\ S # {} /\ \A x \in S : x <= top
  BY Zenon, <1>1
<1>3. s.sent[r] \in S /\ \A m \in s.batch : m.row = r => m.version \in S
  BY Zenon
<1>4. received(s, r) = Max(S)
  BY Zenon DEF received
<1> HIDE DEF S
<1>5. Max(S) \in S /\ \A x \in S : x <= Max(S)
  BY Zenon, <1>2, HighestNat
<1> QED BY Zenon, <1>2, <1>3, <1>4, <1>5

LEMMA SendIsGood ==
  ASSUME HubSane, NEW s, NEW h \in Nat, Good(s, h), s.stage = "sending",
         NEW done,
         done = [s EXCEPT !.sent = [r \in Rows |-> received(s, r)], !.cursor = s.readAt,
                          !.stage = "idle", !.batch = {}]
  PROVE  Good(IF s.again THEN turn(done) ELSE done, h)
<1>1. /\ s \in Socket /\ SockOK(s, time, rows, signedIn, atEnd) /\ time \in Nat
      /\ rows \in RowStates /\ atEnd \in [Rows -> Nat] /\ signedIn \in BOOLEAN
  BY Zenon DEF Good, HubSane, HubTypeOK
<1>2. ASSUME NEW r \in Rows
      PROVE  /\ received(s, r) \in Nat /\ received(s, r) <= rows[r].version
             /\ s.sent[r] <= received(s, r)
             /\ \A m \in s.batch : m.row = r => m.version <= received(s, r)
  <2>1. rows[r].version \in Nat /\ s.sent[r] <= rows[r].version
        /\ \A m \in s.batch : m.row = r => m.version <= rows[r].version
    BY Zenon, <1>1 DEF RowStates, SockOK
  <2> QED BY Zenon, <1>1, <2>1, Received
<1>3. ASSUME ~signedIn, NEW r \in Rows PROVE received(s, r) <= atEnd[r]
  <2>1. atEnd[r] \in Nat /\ s.sent[r] <= atEnd[r]
        /\ \A m \in s.batch : m.row = r => m.version <= atEnd[r]
    BY Zenon, <1>1, <1>3 DEF SockOK
  <2> QED BY Zenon, <1>1, <2>1, Received
<1>4. /\ [r \in Rows |-> received(s, r)] \in [Rows -> Nat] /\ s.readAt \in Int
      /\ s.readAt <= time /\ s.readAt >= 0 /\ s.base \in [Rows -> Nat]
  BY Zenon, <1>1, <1>2, SocketFields DEF SockOK
<1>5. done \in Socket
  <2>1. "idle" \in Stages /\ {} \in SUBSET [row : Rows, version : Nat]
    BY Zenon DEF Stages
  <2> QED BY <1>1, <1>4, <2>1, Zenon DEF Socket
<1>6. /\ done.cursor = s.readAt /\ done.readAt = s.readAt /\ done.since = s.since
      /\ done.stage = "idle" /\ done.again = s.again /\ done.batch = {}
      /\ done.sent = [r \in Rows |-> received(s, r)] /\ done.base = s.base
      /\ done.open = s.open /\ done.asking = s.asking /\ done.subs = s.subs
  BY <1>1, Zenon DEF Socket
<1>7. \A r \in Rows : done.sent[r] = received(s, r)
  BY Zenon, <1>6
<1>8. done.cursor # Unset
  BY <1>4, <1>6 DEF Unset
<1>9. SockOK(done, time, rows, signedIn, atEnd)
  BY Zenon, <1>1, <1>2, <1>3, <1>4, <1>6, <1>7, <1>8 DEF SockOK
<1>10. ASSUME Reaches, hubFaults = 0, "account" \in done.subs, NEW r \in Rows
       PROVE  \/ Fresh(done, rows, r)
              \/ rows[r].stamp >= done.cursor - CommitLag /\ (h > 0 \/ s.again)
  <2>1. Fresh(s, rows, r) \/ Owed(s, rows, r, h)
    BY Zenon, <1>6, <1>10 DEF Good, FeedOK
  <2>2. rows[r].version \in Nat
    BY Zenon, <1>1 DEF RowStates
  <2>3. CASE Fresh(s, rows, r)
    <3>1. s.sent[r] \in Nat
      BY Zenon, <1>1, SocketFields
    <3> QED BY <1>2, <1>4, <1>6, <1>7, <2>2, <2>3, <3>1 DEF Fresh
  <2>4. CASE Owed(s, rows, r, h) /\ [row |-> r, version |-> rows[r].version] \in s.batch
    <3>1. rows[r].version <= received(s, r)
      BY Zenon, <1>2, <2>4
    <3> QED BY <1>2, <1>7, <2>2, <3>1 DEF Fresh
  <2>5. CASE Owed(s, rows, r, h) /\ [row |-> r, version |-> rows[r].version] \notin s.batch
    BY Zenon, <1>6, <2>5 DEF Owed
  <2> QED BY Zenon, <2>1, <2>3, <2>4, <2>5
<1>11. CASE s.again
  <2>1. Reaches /\ hubFaults = 0 /\ "account" \in done.subs =>
           \A r \in Rows : Fresh(done, rows, r) \/ rows[r].stamp >= done.cursor - CommitLag
    BY Zenon, <1>10
  <2> QED BY Zenon, <1>5, <1>8, <1>9, <1>11, <2>1, TurnIsGood
<1>12. CASE ~s.again
  <2>1. ASSUME Reaches, hubFaults = 0 PROVE FeedOK(done, rows, h)
    <3>1. ASSUME "account" \in done.subs, NEW r \in Rows
          PROVE  Fresh(done, rows, r) \/ Owed(done, rows, r, h)
      BY Zenon, <1>6, <1>10, <1>12, <2>1, <3>1 DEF Owed
    <3> QED BY Zenon, <1>6, <3>1 DEF FeedOK
  <2> QED BY Zenon, <1>5, <1>9, <1>12, <2>1 DEF Good
<1> QED BY Zenon, <1>11, <1>12

LEMMA SocketStepIsSafe ==
  ASSUME HubSane, FeedsOK, NEW c \in Sockets, SocketStep(c)
  PROVE  HubSane' /\ FeedsOK'
<1> DEFINE s == socks[c]
           Globals == UNCHANGED <<time, rows, writes, hints, signedIn, atEnd>>
           Quiet == hubFaults' \in Nat /\ (hubFaults' = 0 => hubFaults = 0)
<1>1. /\ Good(s, hints) /\ s \in Socket /\ hints \in Nat /\ hubFaults \in Nat
      /\ SockOK(s, time, rows, signedIn, atEnd)
  BY Zenon, SocketIsGood DEF HubSane, HubTypeOK, Good
<1>2. UNCHANGED hubFaults => Quiet
  BY Zenon, <1>1
<1>3. hubFaults' = hubFaults + 1 => Quiet
  BY <1>1
<1>4. ASSUME NEW n, Good(n, hints), SetSock(c, n), Globals, Quiet PROVE HubSane' /\ FeedsOK'
  BY Zenon, <1>4, OneSocket
<1>5. Good(closed(s), hints)
  BY Zenon, <1>1, ClosedIsGood
<1>6. CASE attach(c)
  <2> DEFINE n == [Closed EXCEPT !.open = TRUE]
  <2>1. /\ n.subs = {} /\ n.asking = {} /\ n.cursor = Unset /\ n.readAt = Unset
        /\ n.stage = "idle" /\ n.batch = {} /\ n.sent = [r \in Rows |-> 0]
    BY Zenon DEF Closed
  <2>2. n \in Socket
    <3>1. /\ Unset \in Int /\ 0 \in Nat /\ "idle" \in Stages /\ {} \in SUBSET Channels
          /\ {} \in SUBSET [row : Rows, version : Nat] /\ [r \in Rows |-> 0] \in [Rows -> Nat]
          /\ TRUE \in BOOLEAN /\ FALSE \in BOOLEAN
      BY DEF Unset, Stages
    <3>2. Closed \in Socket
      BY <3>1, Zenon DEF Closed, Socket
    <3> QED BY <3>2, Zenon DEF Socket
  <2> HIDE DEF n
  <2>3. SockOK(n, time, rows, signedIn, atEnd)
    BY <2>1 DEF SockOK, Unset, HubSane, HubTypeOK, RowStates
  <2>4. Good(n, hints)
    BY Zenon, <2>1, <2>2, <2>3 DEF Good, FeedOK
  <2>5. SetSock(c, n) /\ Globals /\ UNCHANGED hubFaults
    BY Zenon, <1>6 DEF attach, n
  <2> HIDE DEF Quiet, Globals
  <2> QED BY Zenon, <1>2, <1>4, <2>4, <2>5
<1>7. CASE onClose(c)
  <2>1. SetSock(c, closed(s)) /\ Globals /\ UNCHANGED hubFaults
    BY Zenon, <1>7 DEF onClose
  <2> HIDE DEF Quiet, Globals
  <2> QED BY Zenon, <1>2, <1>4, <1>5, <2>1
<1>8. ASSUME NEW ch \in Channels, onSubscribe(c, ch) PROVE HubSane' /\ FeedsOK'
  <2> DEFINE n == [s EXCEPT !.asking = s.asking \cup {ch}]
  <2>1. SetSock(c, n) /\ Globals /\ UNCHANGED hubFaults /\ s.open
    BY Zenon, <1>8 DEF onSubscribe
  <2>2. s.asking \cup {ch} \in SUBSET Channels
    BY Zenon, <1>1, SocketFields
  <2>3. n \in Socket
    BY <1>1, <2>2, Zenon DEF Socket
  <2>4. /\ n.cursor = s.cursor /\ n.readAt = s.readAt /\ n.since = s.since
        /\ n.stage = s.stage /\ n.again = s.again /\ n.batch = s.batch
        /\ n.sent = s.sent /\ n.base = s.base /\ n.open = s.open /\ n.subs = s.subs
    BY <1>1, Zenon DEF Socket
  <2> HIDE DEF n, s
  <2>5. Good(n, hints)
    BY Zenon, <1>1, <2>1, <2>3, <2>4, AsideIsGood
  <2> HIDE DEF Quiet, Globals
  <2> QED BY Zenon, <1>2, <1>4, <2>1, <2>5
<1>9. ASSUME NEW ch \in Channels, subscribe(c, ch) PROVE HubSane' /\ FeedsOK'
  <2>1. /\ SetSock(c, closed(s)) \/ SetSock(c, Subscribed(s, ch))
        /\ Globals /\ UNCHANGED hubFaults /\ ch \in s.asking
    BY Zenon, <1>9 DEF subscribe, Subscribed
  <2> HIDE DEF s, Quiet, Globals
  <2>2. Good(Subscribed(s, ch), hints)
    BY Zenon, <1>1, <2>1, SubscribeIsGood
  <2> QED BY Zenon, <1>2, <1>4, <1>5, <2>1, <2>2
<1>10. ASSUME NEW ch \in Channels, unsubscribe(c, ch) PROVE HubSane' /\ FeedsOK'
  <2> DEFINE n == [s EXCEPT !.subs = @ \ {ch},
                            !.cursor = IF ch = "account" THEN Unset ELSE @]
  <2>1. SetSock(c, n) /\ Globals /\ UNCHANGED hubFaults
    BY Zenon, <1>10 DEF unsubscribe
  <2>2. Good(n, hints)
    BY Zenon, <1>1, UnsubscribeIsGood
  <2> HIDE DEF n, s, Quiet, Globals
  <2> QED BY Zenon, <1>2, <1>4, <2>1, <2>2
<1>11. CASE pong(c)
  <2> DEFINE n == [s EXCEPT !.pings = 0]
  <2>1. SetSock(c, n) /\ Globals /\ UNCHANGED hubFaults
    BY Zenon, <1>11 DEF pong
  <2>2. n \in Socket
    BY Zenon, <1>1 DEF Socket
  <2>3. /\ n.cursor = s.cursor /\ n.readAt = s.readAt /\ n.since = s.since
        /\ n.stage = s.stage /\ n.again = s.again /\ n.batch = s.batch
        /\ n.sent = s.sent /\ n.base = s.base /\ n.open = s.open /\ n.subs = s.subs
        /\ n.asking = s.asking
    BY <1>1, Zenon DEF Socket
  <2> HIDE DEF n, s
  <2>4. Good(n, hints)
    BY Zenon, <1>1, <2>2, <2>3, AsideIsGood DEF SockOK
  <2> HIDE DEF Quiet, Globals
  <2> QED BY Zenon, <1>2, <1>4, <2>1, <2>4
<1>12. CASE ReadRows(c)
  <2>1. PICK batch \in listChangedSince(s.since, Batch) :
          SetSock(c, IF s.cursor = Unset THEN [s EXCEPT !.stage = "idle", !.again = FALSE]
                     ELSE [s EXCEPT !.stage = "checking", !.batch = batch])
    BY Zenon, <1>12 DEF ReadRows
  <2>2. s.stage = "reading" /\ Globals /\ UNCHANGED hubFaults
    BY Zenon, <1>12 DEF ReadRows
  <2> DEFINE n == IF s.cursor = Unset THEN [s EXCEPT !.stage = "idle", !.again = FALSE]
                  ELSE [s EXCEPT !.stage = "checking", !.batch = batch]
  <2>3. Good(n, hints)
    BY Zenon, <1>1, <2>2, ReadIsGood
  <2>4. SetSock(c, n)
    BY Zenon, <2>1
  <2> HIDE DEF n, s, Quiet, Globals
  <2> QED BY Zenon, <1>2, <1>4, <2>2, <2>3, <2>4
<1>13. CASE CheckSession(c)
  <2> DEFINE n == [s EXCEPT !.stage = "sending"]
  <2>1. /\ s.stage = "checking" /\ Globals /\ UNCHANGED hubFaults
        /\ SetSock(c, closed(s)) \/ (signedIn /\ SetSock(c, n))
    BY Zenon, <1>13 DEF CheckSession
  <2>2. signedIn => Good(n, hints)
    BY Zenon, <1>1, <2>1, CheckIsGood
  <2> HIDE DEF n, s, Quiet, Globals
  <2> QED BY Zenon, <1>2, <1>4, <1>5, <2>1, <2>2
<1>14. CASE SendRows(c)
  <2> DEFINE done == [s EXCEPT !.sent = [r \in Rows |-> received(s, r)], !.cursor = s.readAt,
                               !.stage = "idle", !.batch = {}]
             n == IF s.again THEN turn(done) ELSE done
  <2>1. s.stage = "sending" /\ Globals /\ UNCHANGED hubFaults /\ SetSock(c, n)
    BY Zenon, <1>14 DEF SendRows
  <2>2. Good(n, hints)
    BY Zenon, <1>1, <2>1, SendIsGood
  <2> HIDE DEF n, s, Quiet, Globals
  <2> QED BY Zenon, <1>2, <1>4, <2>1, <2>2
<1>15. CASE PushFails(c)
  <2> DEFINE n == [s EXCEPT !.stage = "idle", !.again = FALSE, !.batch = {}]
  <2>1. Globals /\ hubFaults' = hubFaults + 1 /\ SetSock(c, n)
    BY Zenon, <1>15 DEF PushFails
  <2>2. n \in Socket
    <3>1. /\ "idle" \in Stages /\ FALSE \in BOOLEAN
          /\ {} \in SUBSET [row : Rows, version : Nat]
      BY Zenon DEF Stages
    <3> QED BY <1>1, <3>1, Zenon DEF Socket
  <2>3. /\ n.cursor = s.cursor /\ n.readAt = s.readAt /\ n.stage = "idle" /\ n.batch = {}
        /\ n.sent = s.sent /\ n.open = s.open /\ n.subs = s.subs /\ n.asking = s.asking
    BY <1>1, Zenon DEF Socket
  <2> HIDE DEF n, s
  <2>4. SockOK(n, time, rows, signedIn, atEnd)
    BY Zenon, <1>1, <2>3 DEF SockOK
  <2>5. \A d \in Sockets : socks'[d] = IF d = c THEN n ELSE socks[d]
    BY Zenon, <2>1 DEF SetSock, HubSane, HubTypeOK
  <2>6. socks' \in [Sockets -> Socket]
    BY Zenon, <2>1, <2>2 DEF SetSock, HubSane, HubTypeOK
  <2>7. HubTypeOK' /\ WritesAreYoung'
    BY <1>1, <2>1, <2>6 DEF HubSane, HubTypeOK, WritesAreYoung
  <2>8. SocksOK'
    BY Zenon, <2>1, <2>4, <2>5 DEF HubSane, SocksOK
  <2>9. FeedsOK'
    BY <1>1, <2>1 DEF FeedsOK
  <2> QED BY Zenon, <2>7, <2>8, <2>9 DEF HubSane
<1>16. CASE recheckSessions(c)
  <2>1. CASE SetSock(c, closed(s)) /\ Globals /\ UNCHANGED hubFaults
    <3> HIDE DEF Quiet, Globals
    <3> QED BY Zenon, <1>2, <1>4, <1>5, <2>1
  <2>2. CASE UNCHANGED socks /\ Globals /\ hubFaults' = hubFaults + 1
    BY <1>1, <2>2 DEF HubSane, HubTypeOK, WritesAreYoung, SocksOK, FeedsOK
  <2> QED BY Zenon, <1>16, <2>1, <2>2 DEF recheckSessions
<1> QED BY Zenon, <1>6, <1>7, <1>8, <1>9, <1>10, <1>11, <1>12, <1>13, <1>14, <1>15, <1>16
        DEF SocketStep

LEMMA HubStart == HubInit => HubSane /\ FeedsOK
<1> SUFFICES ASSUME HubInit PROVE HubSane /\ FeedsOK
  BY Zenon
<1> DEFINE n == [Closed EXCEPT !.used = FALSE]
<1>1. /\ n.subs = {} /\ n.asking = {} /\ n.cursor = Unset /\ n.readAt = Unset
      /\ n.stage = "idle" /\ n.batch = {} /\ n.sent = [r \in Rows |-> 0]
  BY Zenon DEF Closed
<1>2. n \in Socket
  <2>1. /\ Unset \in Int /\ 0 \in Nat /\ "idle" \in Stages /\ {} \in SUBSET Channels
        /\ {} \in SUBSET [row : Rows, version : Nat] /\ [r \in Rows |-> 0] \in [Rows -> Nat]
        /\ TRUE \in BOOLEAN /\ FALSE \in BOOLEAN
    BY DEF Unset, Stages
  <2>2. Closed \in Socket
    BY <2>1, Zenon DEF Closed, Socket
  <2> QED BY <2>2, Zenon DEF Socket
<1>3. socks = [c \in Sockets |-> n]
  BY Zenon DEF HubInit
<1> HIDE DEF n
<1>4. HubTypeOK /\ WritesAreYoung
  <2>1. rows \in RowStates /\ atEnd \in [Rows -> Nat] /\ writes \in [Rows -> Int]
    BY DEF HubInit, RowStates, Unset
  <2>2. socks \in [Sockets -> Socket]
    BY Zenon, <1>2, <1>3
  <2>3. WritesAreYoung
    BY Zenon DEF HubInit, WritesAreYoung
  <2> QED BY Zenon, <2>1, <2>2, <2>3 DEF HubInit, HubTypeOK
<1>5. \A r \in Rows : n.sent[r] = 0 /\ rows[r].version = 0
  BY Zenon, <1>1 DEF HubInit
<1>6. SockOK(n, time, rows, signedIn, atEnd)
  BY <1>1, <1>5 DEF HubInit, SockOK, Unset
<1>7. FeedOK(n, rows, hints)
  BY Zenon, <1>1 DEF FeedOK
<1>8. \A c \in Sockets : socks[c] = n
  BY Zenon, <1>3
<1> QED BY Zenon, <1>4, <1>6, <1>7, <1>8 DEF HubSane, SocksOK, FeedsOK

\* A commit makes a row visible with the time of its statement, and sends a
\* hint unless something fails.
LEMMA CommitIsSafe ==
  ASSUME HubSane, FeedsOK, NEW r \in Rows, Commit(r)
  PROVE  HubSane' /\ FeedsOK'
<1>1. /\ writes[r] # Unset /\ writes[r] \in Nat /\ time - writes[r] <= CommitLag
      /\ time \in Nat /\ rows \in RowStates /\ hints \in Nat /\ hubFaults \in Nat
      /\ CommitLag \in Nat /\ rows[r].version \in Nat
  BY Zenon, HubAssumption DEF Commit, HubSane, HubTypeOK, WritesAreYoung, RowStates
<1>2. /\ rows' = [rows EXCEPT ![r] = [version |-> rows[r].version + 1, stamp |-> writes[r]]]
      /\ writes' = [writes EXCEPT ![r] = Unset]
      /\ UNCHANGED <<time, signedIn, atEnd, socks>>
      /\ hints' \in Nat /\ hubFaults' \in Nat
      /\ hubFaults' = 0 => hubFaults = 0 /\ hints' = hints + 1
  BY <1>1 DEF Commit
<1>3. [version |-> rows[r].version + 1, stamp |-> writes[r]] \in [version : Nat, stamp : Nat]
  BY <1>1
<1>4. /\ rows' \in RowStates
      /\ rows'[r].version = rows[r].version + 1 /\ rows'[r].stamp = writes[r]
      /\ \A q \in Rows : q # r => rows'[q] = rows[q]
  BY Zenon, <1>1, <1>2, <1>3 DEF RowStates
<1>5. HubTypeOK' /\ WritesAreYoung'
  <2>1. Unset \in Int
    BY DEF Unset
  <2>2. writes' \in [Rows -> Int] /\ \A q \in Rows : writes'[q] # Unset => writes'[q] = writes[q]
    BY Zenon, <1>2, <2>1 DEF HubSane, HubTypeOK
  <2> QED BY Zenon, <1>2, <1>4, <2>2 DEF HubSane, HubTypeOK, WritesAreYoung
<1>6. \A q \in Rows : rows[q].version \in Nat /\ rows'[q].version \in Nat
                      /\ rows[q].version <= rows'[q].version
  BY <1>1, <1>4 DEF RowStates
<1>7. ASSUME NEW c \in Sockets PROVE SockOK(socks[c], time, rows', signedIn, atEnd)
  <2>1. /\ SockOK(socks[c], time, rows, signedIn, atEnd) /\ socks[c] \in Socket
    BY Zenon DEF HubSane, SocksOK, HubTypeOK
  <2>2. /\ \A q \in Rows : socks[c].sent[q] \in Nat
        /\ \A m \in socks[c].batch : m.version \in Nat /\ m.row \in Rows
    BY Zenon, <2>1, SocketFields
  <2> QED BY <1>6, <2>1, <2>2 DEF SockOK
<1>8. ASSUME NEW c \in Sockets, Reaches, hubFaults' = 0
      PROVE  FeedOK(socks[c], rows', hints')
  <2> DEFINE s == socks[c]
  <2>1. FeedOK(s, rows, hints) /\ hints' = hints + 1
    BY Zenon, <1>2, <1>8 DEF FeedsOK
  <2>2. /\ SockOK(s, time, rows, signedIn, atEnd) /\ s.cursor \in Int /\ s.readAt \in Int
        /\ s.since \in Int /\ s.stage \in Stages
    BY Zenon, SocketFields DEF HubSane, SocksOK, HubTypeOK
  <2> HIDE DEF s
  <2>3. Owed(s, rows', r, hints')
    <3>1. /\ rows'[r].stamp >= s.cursor - CommitLag
          /\ rows'[r].stamp >= s.readAt - CommitLag /\ hints' > 0
      BY <1>1, <1>4, <2>1, <2>2 DEF SockOK
    <3>2. s.stage = "reading" => rows'[r].stamp >= s.since
      BY <1>1, <1>4, <2>1, <2>2, <3>1 DEF FeedOK
    <3> QED BY Zenon, <3>1, <3>2 DEF Owed
  <2>4. \A q \in Rows \ {r} : /\ Fresh(s, rows, q) => Fresh(s, rows', q)
                              /\ Owed(s, rows, q, hints) => Owed(s, rows', q, hints')
    BY <1>1, <1>4, <2>1 DEF Fresh, Owed
  <2>5. FeedOK(s, rows', hints')
    BY Zenon, <2>1, <2>3, <2>4 DEF FeedOK
  <2> QED BY Zenon, <2>5 DEF s
<1>9. SocksOK' /\ FeedsOK'
  BY Zenon, <1>2, <1>7, <1>8 DEF SocksOK, FeedsOK
<1> QED BY Zenon, <1>5, <1>9 DEF HubSane

LEMMA HubStep == HubSane /\ FeedsOK /\ [HubNext]_hubVars => HubSane' /\ FeedsOK'
<1> SUFFICES ASSUME HubSane, FeedsOK, [HubNext]_hubVars PROVE HubSane' /\ FeedsOK'
  BY Zenon
<1>1. ASSUME NEW r \in Rows, Write(r) PROVE HubSane' /\ FeedsOK'
  <2>1. /\ writes' = [writes EXCEPT ![r] = time]
        /\ UNCHANGED <<time, rows, hints, signedIn, atEnd, socks, hubFaults>>
    BY Zenon, <1>1 DEF Write
  <2>2. HubTypeOK' /\ WritesAreYoung'
    BY <2>1, HubAssumption DEF HubSane, HubTypeOK, WritesAreYoung
  <2> QED BY Zenon, <2>1, <2>2 DEF HubSane, SocksOK, FeedsOK
<1>2. ASSUME NEW r \in Rows, Commit(r) PROVE HubSane' /\ FeedsOK'
  BY Zenon, <1>2, CommitIsSafe
<1>3. ASSUME NEW r \in Rows, Rollback(r) PROVE HubSane' /\ FeedsOK'
  <2>1. /\ writes' = [writes EXCEPT ![r] = Unset]
        /\ UNCHANGED <<time, rows, hints, signedIn, atEnd, socks, hubFaults>>
    BY Zenon, <1>3 DEF Rollback
  <2>2. HubTypeOK' /\ WritesAreYoung'
    BY <2>1 DEF HubSane, HubTypeOK, WritesAreYoung, Unset
  <2> QED BY Zenon, <2>1, <2>2 DEF HubSane, SocksOK, FeedsOK
<1>4. CASE HubTick
  <2>1. /\ time' = time + 1 /\ time \in Nat
        /\ \A r \in Rows : writes[r] # Unset => time + 1 - writes[r] <= CommitLag
        /\ UNCHANGED <<rows, writes, hints, signedIn, atEnd, socks, hubFaults>>
    BY Zenon, <1>4 DEF HubTick, HubSane, HubTypeOK
  <2>2. HubTypeOK' /\ WritesAreYoung'
    BY <2>1 DEF HubSane, HubTypeOK, WritesAreYoung
  <2>3. \A c \in Sockets : socks[c].cursor \in Int /\ socks[c].readAt \in Int
    BY Zenon, SocketFields DEF HubSane, HubTypeOK
  <2>4. SocksOK'
    BY <2>1, <2>3 DEF HubSane, SocksOK, SockOK
  <2> QED BY Zenon, <2>1, <2>2, <2>4 DEF HubSane, FeedsOK
<1>5. CASE usersChanged
  <2> DEFINE after(c) == IF socks[c].open /\ socks[c].cursor # Unset
                         THEN pushAccount(socks[c]) ELSE socks[c]
  <2>1. /\ hints > 0 /\ hints' = hints - 1 /\ hints \in Nat /\ hints - 1 \in Nat
        /\ socks' = [c \in Sockets |-> after(c)]
        /\ UNCHANGED <<time, rows, writes, signedIn, atEnd, hubFaults>>
    BY <1>5 DEF usersChanged, HubSane, HubTypeOK
  <2>2. ASSUME NEW c \in Sockets PROVE Good(after(c), hints - 1)
    <3>1. Good(socks[c], hints)
      BY Zenon, SocketIsGood
    <3>2. CASE socks[c].open /\ socks[c].cursor # Unset
      BY Zenon, <2>1, <3>1, <3>2, PushIsGood
    <3>3. CASE ~(socks[c].open /\ socks[c].cursor # Unset)
      <4>1. "account" \notin socks[c].subs
        BY Zenon, <3>1, <3>3 DEF Good, SockOK
      <4> QED BY Zenon, <3>1, <3>3, <4>1 DEF Good, FeedOK
    <3> QED BY Zenon, <3>2, <3>3
  <2> HIDE DEF after
  <2>3. \A c \in Sockets : socks'[c] = after(c) /\ after(c) \in Socket
    BY Zenon, <2>1, <2>2 DEF Good
  <2>4. socks' \in [Sockets -> Socket]
    BY Zenon, <2>1, <2>3
  <2>5. HubTypeOK' /\ WritesAreYoung'
    BY Zenon, <2>1, <2>4 DEF HubSane, HubTypeOK, WritesAreYoung
  <2>6. SocksOK' /\ FeedsOK'
    BY Zenon, <2>1, <2>2, <2>3 DEF Good, SocksOK, FeedsOK
  <2> QED BY Zenon, <2>5, <2>6 DEF HubSane
<1>6. CASE heartbeat
  <2> DEFINE after(c) == IF ~socks[c].open THEN socks[c]
                         ELSE IF socks[c].pings >= 2 THEN closed(socks[c])
                         ELSE [socks[c] EXCEPT !.pings = @ + 1]
  <2>1. /\ socks' = [c \in Sockets |-> after(c)] /\ hints \in Nat
        /\ UNCHANGED <<time, rows, writes, hints, signedIn, atEnd, hubFaults>>
    BY Zenon, <1>6 DEF heartbeat, HubSane, HubTypeOK
  <2>2. ASSUME NEW c \in Sockets PROVE Good(after(c), hints)
    <3> DEFINE s == socks[c]
               n == [s EXCEPT !.pings = s.pings + 1]
    <3>1. Good(s, hints) /\ s \in Socket /\ s.pings + 1 \in Nat
      BY SocketIsGood, SocketFields DEF Good
    <3>2. Good(closed(s), hints)
      BY Zenon, <2>1, <3>1, ClosedIsGood
    <3>3. n \in Socket
      BY <3>1, Zenon DEF Socket
    <3>4. /\ n.cursor = s.cursor /\ n.readAt = s.readAt /\ n.since = s.since
          /\ n.stage = s.stage /\ n.again = s.again /\ n.batch = s.batch
          /\ n.sent = s.sent /\ n.base = s.base /\ n.open = s.open /\ n.subs = s.subs
          /\ n.asking = s.asking
      BY <3>1, Zenon DEF Socket
    <3>5. after(c) \in {s, closed(s), n}
      BY Zenon
    <3> HIDE DEF after, n, s
    <3>6. Good(n, hints)
      BY Zenon, <2>1, <3>1, <3>3, <3>4, AsideIsGood DEF Good, SockOK
    <3> QED BY Zenon, <3>1, <3>2, <3>5, <3>6
  <2> HIDE DEF after
  <2>3. \A c \in Sockets : socks'[c] = after(c) /\ after(c) \in Socket
    BY Zenon, <2>1, <2>2 DEF Good
  <2>4. socks' \in [Sockets -> Socket]
    BY Zenon, <2>1, <2>3
  <2>5. HubTypeOK' /\ WritesAreYoung'
    BY Zenon, <2>1, <2>4 DEF HubSane, HubTypeOK, WritesAreYoung
  <2>6. SocksOK' /\ FeedsOK'
    BY Zenon, <2>1, <2>2, <2>3 DEF Good, SocksOK, FeedsOK
  <2> QED BY Zenon, <2>5, <2>6 DEF HubSane
<1>7. CASE EndSession
  <2>1. /\ signedIn' = FALSE /\ atEnd' = [r \in Rows |-> rows[r].version]
        /\ UNCHANGED <<time, rows, writes, hints, socks, hubFaults>>
    BY Zenon, <1>7 DEF EndSession
  <2>2. atEnd' \in [Rows -> Nat] /\ \A r \in Rows : atEnd'[r] = rows[r].version
    BY Zenon, <2>1 DEF HubSane, HubTypeOK, RowStates
  <2>3. HubTypeOK' /\ WritesAreYoung'
    BY Zenon, <2>1, <2>2 DEF HubSane, HubTypeOK, WritesAreYoung
  <2>4. \A c \in Sockets : socks[c].batch \in SUBSET [row : Rows, version : Nat]
    BY Zenon, SocketFields DEF HubSane, HubTypeOK
  <2>5. \A c \in Sockets : \A m \in socks[c].batch : m.row \in Rows
    BY Zenon, <2>4
  <2>6. SocksOK'
    BY Zenon, <2>1, <2>2, <2>5 DEF HubSane, SocksOK, SockOK
  <2> QED BY Zenon, <2>1, <2>3, <2>6 DEF HubSane, FeedsOK
<1>8. ASSUME NEW c \in Sockets, SocketStep(c) PROVE HubSane' /\ FeedsOK'
  BY Zenon, <1>8, SocketStepIsSafe
<1>9. CASE UNCHANGED hubVars
  BY Zenon, <1>9 DEF hubVars, HubSane, HubTypeOK, WritesAreYoung, SocksOK, FeedsOK
<1> QED BY Zenon, <1>1, <1>2, <1>3, <1>4, <1>5, <1>6, <1>7, <1>8, <1>9 DEF HubNext

LEMMA HubInvariant == HubSpec => [](HubSane /\ FeedsOK)
  BY HubStart, HubStep, PTL DEF HubSpec

(* For every number of sockets and orders, every pace of commits and checks  *)
(* and every failure: no order version committed after the session ended is  *)
(* sent to any socket (hub.ts, pushAccount: the session is looked up after   *)
(* the rows were read).                                                      *)
THEOREM PrivateStopsAlways == HubSpec => []PrivateStopsWithSession
<1>1. HubSane => PrivateStopsWithSession
  BY Zenon DEF HubSane, SocksOK, SockOK, PrivateStopsWithSession
<1> QED BY <1>1, HubInvariant, PTL

(* When a read reaches back at least as far as a commit may lag behind its   *)
(* statement and its limit covers the user's orders, the private channel     *)
(* also misses no version: a subscribed socket at rest, with no hint on its  *)
(* way and no failure so far, was sent the newest version of every order     *)
(* that changed since it subscribed (hub.ts, PRIVATE_OVERLAP_MS,             *)
(* PRIVATE_BATCH and the `again` flag of pushAccount).                       *)
THEOREM PrivateFeedIsRightAlways ==
  ASSUME Reaches
  PROVE  HubSpec => []PrivateFeedIsRight
<1>1. HubSane /\ FeedsOK => PrivateFeedIsRight
  <2> SUFFICES ASSUME HubSane, FeedsOK PROVE PrivateFeedIsRight
    BY Zenon
  <2>1. PrivateStopsWithSession
    BY Zenon DEF HubSane, SocksOK, SockOK, PrivateStopsWithSession
  <2>2. ASSUME NEW c \in Sockets, NEW r \in Rows,
               "account" \in socks[c].subs, socks[c].stage = "idle", hints = 0, hubFaults = 0,
               rows[r].version > socks[c].base[r]
        PROVE  socks[c].sent[r] = rows[r].version
    <3>1. Fresh(socks[c], rows, r) \/ Owed(socks[c], rows, r, hints)
      BY Zenon, <2>2 DEF FeedsOK, FeedOK
    <3>2. ~Owed(socks[c], rows, r, hints)
      BY <2>2 DEF Owed
    <3>3. socks[c].base[r] \in Nat /\ rows[r].version \in Nat
      BY Zenon, SocketFields DEF HubSane, HubTypeOK, RowStates
    <3> QED BY <2>2, <3>1, <3>2, <3>3 DEF Fresh
  <2>3. RowsReachSocket
    BY Zenon, <2>2 DEF RowsReachSocket
  <2> QED BY Zenon, <2>1, <2>3 DEF PrivateFeedIsRight
<1> QED BY <1>1, HubInvariant, PTL

=============================================================================
