------------------------------ MODULE MCSwipe ------------------------------
(* SwipeMatch on small instances.                                           *)
EXTENDS SwipeMatch, TLC

(* The taps are interchangeable, and so are the users with a subscription.  *)
Symmetry == Permutations(Taps) \cup Permutations(Subscribers)
=============================================================================
