\* The checker beside a gRPC call, on an Ethereum and a Stars payment.
CONSTANTS
    Crypto = {eth1}
    Solana = {}
    Stars = {star1}
    Tasks = {call1}
    Checker = checker
    NoPayment = NoPayment
    Price = 2
    Timeout = 1
    PlanDays = 2
    MaxTime = 3
    MaxPaid = 2
    MaxFaults = 1
SPECIFICATION Spec
INVARIANTS TypeOK SettledTogether NeverFailedEarly GrantBounded
PROPERTY AccessFollowsMoney
