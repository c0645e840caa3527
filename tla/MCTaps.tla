------------------------------- MODULE MCTaps -------------------------------
(* What taps do: to likes, matches and contacts (SwipeMatch), and to        *)
(* profiles and ratings (ProfileRating).  The two modules share no state; a *)
(* behaviour is one of the first or one of the second.                      *)
EXTENDS MCSwipe, ProfileRating

VARIABLE part   \* the module at work

tapsVars == <<part, vars, ratingVars>>

TapsInit == part \in {"matches", "ratings"} /\ Init /\ RatingInit

TapsNext ==
    /\ UNCHANGED part
    /\ \/ part = "matches" /\ Next /\ UNCHANGED ratingVars
       \/ part = "ratings" /\ RatingNext /\ UNCHANGED vars

TapsSpec == TapsInit /\ [][TapsNext]_tapsVars
=============================================================================
