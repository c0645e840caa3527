---------------------------- MODULE MCServices ----------------------------
(* Systems that share no state: the cache comparison, the broker            *)
(* benchmark, the contracts, and the gateways to the chains.  In a          *)
(* behaviour one of them runs and the others are not started, so the run    *)
(* explores each by itself.                                                 *)
EXTENDS LoadExperiment, BrokerBenchmark, DepositWallets, ChainGateways

VARIABLE service    \* the one that runs

servicesVars == <<service, experimentVars, benchVars, walletVars, gatewayVars>>

(* A read, a write and a read show a stale cache; write-back, which has     *)
(* more states, shows its own with two requests.                            *)
PerWorkload == [s \in Strategies |-> IF s = "write_back" THEN 2 ELSE 3]

(* The scripts leave config.consumers at 1, a request may ask for more;     *)
(* requests that follow each other are started as a script starts its runs. *)
(* Requests that overlap send one message each.                             *)
Script == <<[target |-> 3, consumers |-> {1, 2}], [target |-> 2, consumers |-> {1}]>>
Api == <<[target |-> 1, consumers |-> {1, 2}], [target |-> 1, consumers |-> {1, 2}]>>
Configs == [s \in Scenarios |-> IF s = "api" THEN Api ELSE Script]

(* A generator that is done, and a service without a flush task.            *)
NoExperiment ==
    /\ CacheInit /\ strategy = "cache_aside"
    /\ phase = "done" /\ left = 0 /\ awaited = {} /\ workloads = Workloads
    /\ disturbed = FALSE

(* Contracts that nobody has deployed.                                      *)
NoWallets == WalletsInit /\ chain = "ton" /\ owner = treasury
             /\ treasury = CHOOSE p \in Parties : TRUE

(* A process that is down, with payments on neither chain.                  *)
NoGateways ==
    /\ GatewaysInit
    /\ settings = [eth |-> "missing", factory |-> FALSE, solana |-> "missing"]

ServicesInit ==
    /\ service \in {"cache", "broker", "wallets", "gateways"}
    /\ IF service = "cache" THEN ExperimentInit ELSE NoExperiment
    /\ BenchInit
    /\ service # "broker" => broker = "redis" /\ scenario = "script"
    /\ IF service = "wallets" THEN WalletsInit ELSE NoWallets
    /\ IF service = "gateways" THEN GatewaysInit ELSE NoGateways

ServicesNext ==
    /\ UNCHANGED service
    /\ \/ /\ service = "cache" /\ ExperimentNext
          /\ UNCHANGED <<benchVars, walletVars, gatewayVars>>
       \/ /\ service = "broker" /\ BenchNext
          /\ UNCHANGED <<experimentVars, walletVars, gatewayVars>>
       \/ /\ service = "wallets" /\ WalletsNext
          /\ UNCHANGED <<experimentVars, benchVars, gatewayVars>>
       \/ /\ service = "gateways" /\ GatewaysNext
          /\ UNCHANGED <<experimentVars, benchVars, walletVars>>

(* The services that are not started enable no fair action.                 *)
ServicesSpec ==
    /\ ServicesInit
    /\ [][ServicesNext]_servicesVars
    /\ ExperimentFairness
    /\ BenchFairness
=============================================================================
