\* One user without a subscription, two cards to swipe.
CONSTANTS
    Users = {u1, u2, u3}
    NoUser = NoUser
    Subscribers = {u2, u3}
    Taps = {t1, t2}
    FreeLimit = 1
    MaxSwipes = 2
    MaxFaults = 0
SYMMETRY Symmetry
SPECIFICATION Spec
INVARIANT FreeSwipesAreLimited
CHECK_DEADLOCK FALSE
