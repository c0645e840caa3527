\* The cache comparison: a workload of two or three requests, then one of none, two threads, one fault.
CONSTANTS
    Items = {1, 2}
    Threads = {t1, t2}
    FlushTask = flusher
    Strategies = {"cache_aside", "write_through", "write_back"}
    BatchSize = 1
    CacheFaults = 1
    Requests <- PerWorkload
    Later = 1
    Further = 0
    Concurrency = 2
    Workloads = 2
\* The benchmark: two runs, two producers, up to two consumers, one fault.
    Runs = {1, 2}
    Producers = {0, 1}
    Consumers = {1, 2}
    Config <- Configs
    Prefetch = 2
    BrokerFaults = 1
\* The contracts: one wallet, two units of each asset, two sweeps ordered.
    Deposits = {d1}
    Parties = {p1, p2}
    ZeroAddress = zero
    Chains = {"eth", "sol", "ton"}
    MaxDeposited = 2
    MaxOrders = 2
\* The gateways: a poll and a gRPC call, an address on each chain, two faults.
    Checks = {c1, c2}
    Polls = {c1}
    EthAddresses = {e1}
    SolAddresses = {s1}
    NodeFaults = 2
SPECIFICATION ServicesSpec
INVARIANTS
    CacheTypeOK AckedWriteKept ReadSeesAckedWrite CacheAgrees
    LoadTypeOK WorkloadStartsClean FlushStoresAll
    BenchTypeOK LossIsReal LossIsExact QuotaIsSent
    WalletsTypeOK MoneyAccounted MoneyGoesToTreasury
    GatewayTypeOK SweptOncePerCheck NoNonceGap GatewayOutlivesChecks
PROPERTIES DirtyIsFlushed RunsEnd
CHECK_DEADLOCK FALSE
