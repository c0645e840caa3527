\* A gRPC call beside the checker, on one Ethereum payment.
CONSTANTS
    Crypto = {eth1}
    Solana = {}
    Stars = {}
    Tasks = {call1}
    Checker = checker
    NoPayment = NoPayment
    Price = 2
    Timeout = 1
    PlanDays = 2
    MaxTime = 3
    MaxPaid = 2
    MaxFaults = 1
SPECIFICATION Spec
INVARIANT OnePlanPerPayment
