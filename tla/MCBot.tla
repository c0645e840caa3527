-------------------------------- MODULE MCBot --------------------------------
(* One user who buys twice: a renewal, or the same menu used again.         *)
EXTENDS SubscriptionBot

CONSTANT user1
OneOwner == [p \in Payments |-> user1]

(* Two users, one purchase each.                                            *)
CONSTANTS user2, star1
TwoOwners == [p \in Payments |-> IF p = star1 THEN user1 ELSE user2]
=============================================================================
