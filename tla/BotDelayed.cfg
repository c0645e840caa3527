\* A confirmation that fails is promised to be made up for.
CONSTANTS
    user1 = user1
    user2 = user2
    star1 = star1
    Users = {user1, user2}
    Owner <- TwoOwners
    Crypto = {}
    Solana = {}
    Stars = {star1, star2}
    Tasks = {call1}
    Checker = checker
    NoPayment = NoPayment
    Price = 1
    Timeout = 0
    PlanDays = 2
    MaxTime = 3
    MaxPaid = 1
    MaxFaults = 1
SPECIFICATION FairBotSpec
PROPERTY DelayedIsActivated
