\* One user buys a plan for Stars, another for crypto; calls fail and the bot restarts.
CONSTANTS
    user1 = user1
    user2 = user2
    star1 = star1
    Users = {user1, user2}
    Owner <- TwoOwners
    Crypto = {eth1}
    Solana = {}
    Stars = {star1, star2}
    Tasks = {call1}
    Checker = checker
    NoPayment = NoPayment
    Price = 1
    Timeout = 1
    PlanDays = 2
    MaxTime = 2
    MaxPaid = 1
    MaxFaults = 1
SPECIFICATION ShopSpec
INVARIANTS BotTypeOK ToldActiveIsActive AccessIsBacked
PROPERTY ChargedIsActivated
