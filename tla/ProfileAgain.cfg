\* One user with a profile, one coroutine, no failures.
CONSTANTS
    People = {1}
    Nobody = 0
    Seeded = {1}
    Applicants = {1}
    BotTasks = {b1}
    Consumers = {c1}
    MaxUpdates = 4
    RatingFaults = 0
SPECIFICATION RatingSpec
INVARIANT ConfirmGivesProfile
CHECK_DEADLOCK FALSE
