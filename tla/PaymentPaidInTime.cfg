\* Money that arrives in time and is looked at too late.
CONSTANTS
    Crypto = {eth1}
    Solana = {}
    Stars = {}
    Tasks = {call1}
    Checker = checker
    NoPayment = NoPayment
    Price = 2
    Timeout = 1
    PlanDays = 2
    MaxTime = 3
    MaxPaid = 2
    MaxFaults = 0
SPECIFICATION Spec
INVARIANT PaidInTimeIsNotFailed
