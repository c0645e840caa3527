\* Two users, three taps at a time, one failure.
CONSTANTS
    Users = {u1, u2}
    NoUser = NoUser
    Subscribers = {u1}
    Taps = {t1, t2, t3}
    FreeLimit = 1
    MaxSwipes = 4
    MaxFaults = 1
\* Profiles and ratings: one profile from the start, three updates, one fault.
    People = {1, 2}
    Nobody = 0
    Seeded = {1}
    Applicants = {2}
    BotTasks = {b1, b2}
    Consumers = {c1}
    MaxUpdates = 3
    RatingFaults = 1
SYMMETRY Symmetry
SPECIFICATION TapsSpec
INVARIANTS
    SwipeTypeOK ContactsAreMutual MutualIsMatched
    RatingTypeOK CombinedMatches RatingSettles
CHECK_DEADLOCK FALSE
