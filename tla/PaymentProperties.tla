-------------------------- MODULE PaymentProperties --------------------------
(***************************************************************************)
(* The payment service with the properties its runs check.  The runs       *)
(* differ in how many handlers there are: the checker alone, or the        *)
(* checker beside gRPC calls.                                              *)
(***************************************************************************)
EXTENDS PaymentService, FiniteSets

(* A process has only so many coroutines.                                   *)
ASSUME TasksAssumption == IsFiniteSet(Tasks)

(* A payment only reads as succeeded together with its subscription's       *)
(* activation: the two rows are written by two save() calls of one          *)
(* transaction, from objects read at different times.                       *)
SettledTogether ==
    \A p \in Payments : payment[p] = "succeeded" => subscription[p] = "active"

(* No check gives a crypto payment up before its deadline, and nothing ever *)
(* fails a Stars payment.                                                   *)
NeverFailedEarly ==
    \A p \in Payments :
        payment[p] = "failed" => p \in Crypto /\ now > deadline[p]

(* One payment prolongs its subscription at most once per handler that was  *)
(* running side by side: a check that starts after the first commit finds   *)
(* the payment settled, so repeated polling adds nothing.                   *)
GrantBounded ==
    \A p \in Payments : expires[p] <= now + PlanDays * Cardinality(Handlers)

(* Money, then access, then the news of it (PaidAccess): a subscription is  *)
(* active only when its whole price was received, it is never deactivated   *)
(* by a racing check, and an event or a "succeeded" reply is only ever sent *)
(* after the activation was committed.                                      *)
Promise == INSTANCE PaidAccess WITH
    Purchases <- Payments,
    paid <- {p \in Payments : paid[p] >= Price},
    access <- {p \in Payments : subscription[p] = "active"},
    announced <- {p \in Payments :
                      \/ \E e \in Events : <<p, e>> \in published
                      \/ <<p, "succeeded">> \in replied}

AccessFollowsMoney == Promise!Spec

-----------------------------------------------------------------------------
(* What holds as long as the checker is the only one that checks.           *)

(* The payment row and the subscription row tell the same story, also after *)
(* interrupted checks.                                                      *)
OneOutcome ==
    \A p \in Payments : payment[p] = "succeeded" <=> subscription[p] = "active"

(* A settled payment keeps its status and its paid period.                  *)
SettledForGood ==
    [][\A p \in Payments : payment[p] \in {"succeeded", "failed"} =>
           payment'[p] = payment[p] /\ expires'[p] = expires[p]]_vars

(* If no call fails, money that has left a deposit wallet belongs to a      *)
(* payment that succeeded, or to the check now working on it.               *)
SweptIsSettled ==
    \A p \in Crypto :
        faults = 0 /\ wallet[p] < paid[p] =>
            \/ payment[p] = "succeeded"
            \/ \E t \in Handlers : handler[t].job = p

(* Every crypto payment is decided: paid in time and swept, or failed by    *)
(* the checker once its deadline has passed, in spite of failed calls and   *)
(* restarts.                                                                *)
CryptoDecided ==
    \A p \in Crypto : payment[p] = "pending" ~> payment[p] # "pending"

-----------------------------------------------------------------------------
(* What the bot tells the user, and the service does not keep.              *)

(* keyboards/profile.py:60 sells one month for one payment.                 *)
OnePlanPerPayment == \A p \in Payments : expires[p] <= now + PlanDays

(* routers/subscription.py:175 gives the user 15 minutes to send the money. *)
PaidInTimeIsNotFailed == \A p \in inTime : payment[p] # "failed"
=============================================================================
