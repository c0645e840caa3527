\* Two likes at the same moment.
CONSTANTS
    Users = {u1, u2}
    NoUser = NoUser
    Subscribers = {u1}
    Taps = {t1, t2}
    FreeLimit = 1
    MaxSwipes = 2
    MaxFaults = 0
SYMMETRY Symmetry
SPECIFICATION Spec
INVARIANT OneMatchPerPair
CHECK_DEADLOCK FALSE
