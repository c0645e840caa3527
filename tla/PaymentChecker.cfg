\* The checker alone, on a payment of either chain, with failing calls and restarts.
CONSTANTS
    Crypto = {sol1, eth1}
    Solana = {sol1}
    Stars = {}
    Tasks = {}
    Checker = checker
    NoPayment = NoPayment
    Price = 2
    Timeout = 1
    PlanDays = 2
    MaxTime = 3
    MaxPaid = 2
    MaxFaults = 2
SPECIFICATION FairSpec
INVARIANTS OneOutcome SweptIsSettled
PROPERTIES SettledForGood CryptoDecided
