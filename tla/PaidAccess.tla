----------------------------- MODULE PaidAccess -----------------------------
(***************************************************************************)
(* What the payment service promises about one purchase, whatever its      *)
(* provider: access follows money, the news of it follows the access, and  *)
(* access once given is not taken back.                                    *)
(***************************************************************************)
CONSTANT Purchases      \* every payment the service can be asked for

VARIABLES
    paid,               \* purchases whose whole price has been received
    access,             \* purchases that have opened their subscription
    announced           \* purchases whose success has been told to anyone

vars == <<paid, access, announced>>

Init ==
    /\ paid = {}
    /\ access = {}
    /\ announced = {}

Pay(p) ==
    /\ paid' = paid \cup {p}
    /\ UNCHANGED <<access, announced>>

Open(p) ==
    /\ p \in paid
    /\ access' = access \cup {p}
    /\ UNCHANGED <<paid, announced>>

Announce(p) ==
    /\ p \in access
    /\ announced' = announced \cup {p}
    /\ UNCHANGED <<paid, access>>

Next == \E p \in Purchases : Pay(p) \/ Open(p) \/ Announce(p)

Spec == Init /\ [][Next]_vars
=============================================================================
