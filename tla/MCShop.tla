------------------------------- MODULE MCShop -------------------------------
(* Purchases for Stars or for crypto: in a behaviour only one of the two is *)
(* sold, so that their state spaces are added and not multiplied.  A user   *)
(* who has bought nothing has nothing to sync.                              *)
EXTENDS MCBot

VARIABLE shop

ShopInit == BotInit /\ shop \in {"stars", "crypto"}

ShopNext ==
    /\ BotNext
    /\ \A p \in IF shop = "stars" THEN Crypto ELSE Stars : chat'[p] = "none"
    /\ \A u \in Users : sync'[u] # Nothing => \E p \in Payments : Owner[p] = u /\ chat'[p] # "none"
    /\ UNCHANGED shop

ShopSpec == ShopInit /\ [][ShopNext]_<<allVars, shop>> /\ BotFairness
=============================================================================
