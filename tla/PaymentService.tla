--------------------------- MODULE PaymentService ---------------------------
(***************************************************************************)
(* The payment service: the handlers that create, confirm and check        *)
(* payments, the Postgres rows they read and write, and the deposit        *)
(* wallets they sweep.                                                     *)
(*                                                                         *)
(* Every payment has a subscription row of its own, created in the same    *)
(* transaction, so a subscription is named by its payment.  A handler is   *)
(* one coroutine with one database session; it can be overtaken by the     *)
(* others at every await, and a step of this module is the code between    *)
(* two awaits.  Rows are read and written under READ COMMITTED.  The       *)
(* session forgets an object as soon as the repository has copied it, so   *)
(* save() selects the row again and the commit writes only the columns in  *)
(* which that fresh row differs from the handler's object.                 *)
(***************************************************************************)
EXTENDS Integers

CONSTANTS
    Crypto,         \* payments made by CreateCryptoPaymentHandler ...
    Solana,         \* ... those of them on Solana, the others on Ethereum
    Stars,          \* payments made by CreatePaymentHandler (Telegram Stars)
    Tasks,          \* coroutines serving gRPC calls, one call each at a time
    Checker,        \* the background coroutine crypto_payment_checker
    NoPayment,      \* the payment of a handler that is doing nothing
    Price,          \* price of a plan, in parts a user may send separately
    Timeout,        \* crypto_payment_timeout_minutes
    PlanDays,       \* length of a plan
    MaxTime,        \* bound on the clock
    MaxPaid,        \* bound on what one user sends for one payment
    MaxFaults       \* bound on the number of interrupted handlers

Payments == Crypto \cup Stars
Handlers == Tasks \cup {Checker}

ASSUME PaymentsAssumption ==
    /\ Crypto \cap Stars = {}
    /\ Solana \subseteq Crypto
    /\ NoPayment \notin Payments
    /\ Checker \notin Tasks

ASSUME NumbersAssumption ==
    /\ Price \in Nat \ {0}
    /\ Timeout \in Nat
    /\ PlanDays \in Nat \ {0}
    /\ MaxTime \in Nat
    /\ MaxPaid \in Nat
    /\ MaxFaults \in Nat

VARIABLES
    now,            \* the clock every datetime.now() reads
    payment,        \* payments.status, "none" before the row exists
    deadline,       \* payments.expires_at, 0 for NULL
    subscription,   \* subscriptions.status of the payment's subscription
    expires,        \* subscriptions.expires_at of it, 0 for NULL
    paid,           \* all the user has sent for the payment so far
    inTime,         \* payments whose price had arrived by their deadline
    wallet,         \* balance of the payment's deposit address
    sweeping,       \* payments with a sweep transaction not yet mined
    handler,        \* what each handler is doing, with its domain objects
    todo,           \* rest of the checker's list of pending payments
    published,      \* events handed to RabbitMQ
    replied,        \* final answers given to gRPC callers ("pending" is not one)
    faults          \* how many handlers were interrupted

rows  == <<payment, deadline, subscription, expires>>
chain == <<paid, inTime, wallet, sweeping>>
vars  == <<now, rows, chain, handler, todo, published, replied, faults>>

PaymentColumn == "payments.status"
SubscriptionColumns == {"subscriptions.status", "subscriptions.expires_at"}
Columns == {PaymentColumn} \cup SubscriptionColumns

(* A handler between two calls, and the states a call goes through.  The    *)
(* fields status and expires are those of the handler's Payment and         *)
(* Subscription objects; dirty holds the columns its commit will write.     *)
Idle == [pc |-> "idle", job |-> NoPayment, status |-> "pending",
         expires |-> 0, dirty |-> {}]

ProgramPoints == {"idle", "balance", "sweep", "read_subscription", "save_first",
                  "save_second", "commit", "publish_succeeded", "publish_activated"}

HandlerState ==
    [pc : ProgramPoints, job : Payments \cup {NoPayment},
     status : {"pending", "succeeded", "failed"}, expires : Nat,
     dirty : SUBSET Columns]

Events == {"PaymentSucceeded", "SubscriptionActivated"}
Replies == {"ok", "succeeded", "failed", "expired"}

TypeOK ==
    /\ now \in Nat
    /\ payment \in [Payments -> {"none", "pending", "succeeded", "failed"}]
    /\ deadline \in [Payments -> Nat]
    /\ subscription \in [Payments -> {"none", "pending", "active"}]
    /\ expires \in [Payments -> Nat]
    /\ paid \in [Payments -> Nat]
    /\ inTime \subseteq Crypto
    /\ wallet \in [Payments -> Nat]
    /\ sweeping \subseteq Crypto
    /\ handler \in [Handlers -> HandlerState]
    /\ todo \subseteq Crypto
    /\ published \subseteq (Payments \X Events)
    /\ replied \subseteq (Payments \X Replies)
    /\ faults \in Nat

Init ==
    /\ now = 0
    /\ payment = [p \in Payments |-> "none"]
    /\ deadline = [p \in Payments |-> 0]
    /\ subscription = [p \in Payments |-> "none"]
    /\ expires = [p \in Payments |-> 0]
    /\ paid = [p \in Payments |-> 0]
    /\ inTime = {}
    /\ wallet = [p \in Payments |-> 0]
    /\ sweeping = {}
    /\ handler = [t \in Handlers |-> Idle]
    /\ todo = {}
    /\ published = {}
    /\ replied = {}
    /\ faults = 0

-----------------------------------------------------------------------------
(* The world around the service.                                            *)

Tick ==
    /\ now < MaxTime
    /\ now' = now + 1
    /\ UNCHANGED <<rows, chain, handler, todo, published, replied, faults>>

(* The user sends part or all of the price to the deposit address, in time *)
(* or too late.                                                            *)
Deposit(p, amount) ==
    /\ p \in Crypto
    /\ payment[p] # "none"
    /\ paid[p] + amount <= MaxPaid
    /\ paid' = [paid EXCEPT ![p] = @ + amount]
    /\ wallet' = [wallet EXCEPT ![p] = @ + amount]
    /\ inTime' = IF paid[p] + amount >= Price /\ now <= deadline[p]
                 THEN inTime \cup {p} ELSE inTime
    /\ UNCHANGED <<now, rows, sweeping, handler, todo, published, replied, faults>>

(* Telegram charges the invoice of a Stars payment.                         *)
Charge(p) ==
    /\ p \in Stars
    /\ payment[p] # "none"
    /\ paid[p] = 0
    /\ paid' = [paid EXCEPT ![p] = Price]
    /\ UNCHANGED <<now, rows, inTime, wallet, sweeping, handler, todo, published,
                   replied, faults>>

(* Mutant: sweeps the price, not the balance.                               *)
MutantLeftAfterSweep(p) == wallet[p] - Price

(* DepositWallet.sweep sends the whole balance to the treasury, whatever it *)
(* is.                                                                      *)
LeftAfterSweep(p) == 0

(* A sweep transaction is mined; another of the same wallet may be queued   *)
(* behind it.                                                               *)
SweepMined(p) ==
    /\ p \in sweeping
    /\ wallet' = [wallet EXCEPT ![p] = LeftAfterSweep(p)]
    /\ sweeping' \in {sweeping, sweeping \ {p}}
    /\ UNCHANGED <<now, rows, paid, inTime, handler, todo, published, replied, faults>>

(* A sweep transaction is evicted, replaced under the same nonce, or        *)
(* reverts: nobody waits for its receipt.                                   *)
SweepDropped(p) ==
    /\ p \in sweeping
    /\ sweeping' = sweeping \ {p}
    /\ UNCHANGED <<now, rows, paid, inTime, wallet, handler, todo, published, replied,
                   faults>>

-----------------------------------------------------------------------------
(* Creating a payment: both rows appear in one commit.                      *)

CreateRows(p) ==
    /\ payment[p] = "none"
    /\ payment' = [payment EXCEPT ![p] = "pending"]
    /\ subscription' = [subscription EXCEPT ![p] = "pending"]
    /\ UNCHANGED <<now, expires, chain, handler, todo, published, replied, faults>>

CreatePayment(p) ==
    /\ p \in Stars
    /\ CreateRows(p)
    /\ UNCHANGED deadline

(* The clock bound leaves room for the deadline to pass.                    *)
CreateCryptoPayment(p) ==
    /\ p \in Crypto
    /\ now + Timeout < MaxTime
    /\ CreateRows(p)
    /\ deadline' = [deadline EXCEPT ![p] = now + Timeout]

-----------------------------------------------------------------------------
(* Checking a crypto payment and confirming a Stars payment.                *)

Goto(t, pc) == handler' = [handler EXCEPT ![t].pc = pc]
Return(t) == handler' = [handler EXCEPT ![t] = Idle]

(* A gRPC caller learns the result; the checker only logs it.               *)
Reply(t, p, r) ==
    replied' = IF t = Checker THEN replied ELSE replied \cup {<<p, r>>}

(* The checker's list of pending payments is read in a session of its own   *)
(* and worked off one by one; the order of the list is not kept.            *)
ListPending ==
    /\ handler[Checker].pc = "idle"
    /\ todo = {}
    /\ todo' = {p \in Crypto : payment[p] = "pending"}
    /\ UNCHANGED <<now, rows, chain, handler, published, replied, faults>>

Takes(t, p) ==
    /\ handler[t].pc = "idle"
    /\ payment[p] # "none"
    /\ IF t = Checker THEN p \in todo /\ todo' = todo \ {p} ELSE UNCHANGED todo

(* Mutant: expired already at the deadline.                                 *)
MutantIsExpired(p) == now >= deadline[p]

IsExpired(p) == now > deadline[p]

(* Check: the payment is already settled.                                   *)
CheckSettled(t, p) ==
    /\ p \in Crypto
    /\ Takes(t, p)
    /\ payment[p] \in {"succeeded", "failed"}
    /\ Reply(t, p, payment[p])
    /\ UNCHANGED <<now, rows, chain, handler, published, faults>>

(* Check: the deadline is looked at before the balance.                     *)
CheckExpired(t, p) ==
    /\ p \in Crypto
    /\ Takes(t, p)
    /\ payment[p] = "pending"
    /\ IsExpired(p)
    /\ handler' = [handler EXCEPT ![t] = [Idle EXCEPT !.pc = "save_first", !.job = p,
                                                      !.status = "failed"]]
    /\ UNCHANGED <<now, rows, chain, published, replied, faults>>

CheckLive(t, p) ==
    /\ p \in Crypto
    /\ Takes(t, p)
    /\ payment[p] = "pending"
    /\ ~IsExpired(p)
    /\ handler' = [handler EXCEPT ![t] = [Idle EXCEPT !.pc = "balance", !.job = p]]
    /\ UNCHANGED <<now, rows, chain, published, replied, faults>>

(* Mutant: any deposit will do.                                             *)
MutantHasSufficientPayment(p) == wallet[p] > 0

HasSufficientPayment(p) == wallet[p] >= Price

BalanceSufficient(t) ==
    /\ handler[t].pc = "balance"
    /\ HasSufficientPayment(handler[t].job)
    /\ Goto(t, "sweep")
    /\ UNCHANGED <<now, rows, chain, todo, published, replied, faults>>

BalanceShort(t) ==
    /\ handler[t].pc = "balance"
    /\ ~HasSufficientPayment(handler[t].job)
    /\ Return(t)
    /\ UNCHANGED <<now, rows, chain, todo, published, replied, faults>>

(* An Ethereum node accepts the sweep of an empty wallet, Solana's preflight *)
(* rejects it.                                                              *)
NodeAccepts(p) == p \in Solana => wallet[p] > 0

(* deploy_and_sweep sends the transaction; its hash is all it waits for.    *)
SendSweep(p) == sweeping' = sweeping \cup {p}

Sweep(t) ==
    LET p == handler[t].job IN
    /\ handler[t].pc = "sweep"
    /\ NodeAccepts(p)
    /\ SendSweep(p)
    /\ handler' = [handler EXCEPT ![t].pc = "read_subscription",
                                  ![t].status = "succeeded"]
    /\ UNCHANGED <<now, rows, paid, inTime, wallet, todo, published, replied, faults>>

(* The gateway raises: the payment stays pending.  The transaction may have *)
(* reached the node all the same.                                           *)
SweepFails(t) ==
    LET p == handler[t].job IN
    /\ handler[t].pc = "sweep"
    /\ \/ ~NodeAccepts(p) /\ UNCHANGED <<sweeping, faults>>
       \/ /\ faults < MaxFaults
          /\ faults' = faults + 1
          /\ sweeping' \in {sweeping, sweeping \cup {p}}
    /\ Return(t)
    /\ UNCHANGED <<now, rows, paid, inTime, wallet, todo, published, replied>>

(* Confirm: Telegram has charged the user and the bot reports it.           *)
ConfirmPending(t, p) ==
    /\ p \in Stars
    /\ t # Checker
    /\ Takes(t, p)
    /\ paid[p] > 0
    /\ payment[p] = "pending"
    /\ handler' = [handler EXCEPT ![t] = [Idle EXCEPT !.pc = "read_subscription",
                                                      !.job = p,
                                                      !.status = "succeeded"]]
    /\ UNCHANGED <<now, rows, chain, published, replied, faults>>

ConfirmSettled(t, p) ==
    /\ p \in Stars
    /\ t # Checker
    /\ Takes(t, p)
    /\ paid[p] > 0
    /\ payment[p] # "pending"
    /\ Reply(t, p, "ok")
    /\ UNCHANGED <<now, rows, chain, handler, published, faults>>

(* Subscription.activate: a running period is prolonged.                    *)
Activated(p) == (IF expires[p] > now THEN expires[p] ELSE now) + PlanDays

(* The subscription is selected only now and activated in memory.           *)
ReadSubscription(t) ==
    /\ handler[t].pc = "read_subscription"
    /\ handler' = [handler EXCEPT ![t].pc = "save_first",
                                  ![t].expires = Activated(handler[t].job)]
    /\ UNCHANGED <<now, rows, chain, todo, published, replied, faults>>

(* Mutant: save() forgets the payment's status.                             *)
MutantChanged(t) ==
    LET h == handler[t] IN
    {c \in SubscriptionColumns :
        \/ c = "subscriptions.status" /\ subscription[h.job] # "active"
        \/ c = "subscriptions.expires_at" /\ expires[h.job] # h.expires}

(* What save() marks as changed: the columns in which the row selected now  *)
(* differs from the handler's object.                                       *)
Changed(t) ==
    LET h == handler[t] IN
    {c \in Columns :
        \/ c = PaymentColumn /\ payment[h.job] # h.status
        \/ c = "subscriptions.status" /\ subscription[h.job] # "active"
        \/ c = "subscriptions.expires_at" /\ expires[h.job] # h.expires}

(* A failing payment saves its own row only; a check saves the subscription *)
(* first, a confirmation the payment.                                       *)
FirstSaved(t) ==
    IF handler[t].status = "succeeded" /\ handler[t].job \in Crypto
    THEN SubscriptionColumns ELSE {PaymentColumn}

(* Mutant: the second save() is forgotten.                                  *)
MutantSecondSaved(t) == {}

SecondSaved(t) == Columns \ FirstSaved(t)

SaveFirst(t) ==
    /\ handler[t].pc = "save_first"
    /\ handler' = [handler EXCEPT
           ![t].pc = IF handler[t].status = "failed" THEN "commit" ELSE "save_second",
           ![t].dirty = Changed(t) \cap FirstSaved(t)]
    /\ UNCHANGED <<now, rows, chain, todo, published, replied, faults>>

(* Mutant: the second save() uses a session of its own.                     *)
MutantHoldsRow(t) ==
    /\ handler[t].status = "succeeded"
    /\ handler[t].dirty \cap FirstSaved(t) # {}

(* The second save() selects its row, which flushes the first one: UPDATE   *)
(* takes the row lock and holds it until the transaction ends.              *)
HoldsRow(t) ==
    /\ handler[t].pc = "commit"
    /\ handler[t].status = "succeeded"
    /\ handler[t].dirty \cap FirstSaved(t) # {}

SaveSecond(t) ==
    /\ handler[t].pc = "save_second"
    /\ handler[t].dirty # {} =>
           \A u \in Handlers : handler[u].job = handler[t].job => ~HoldsRow(u)
    /\ handler' = [handler EXCEPT
           ![t].pc = "commit",
           ![t].dirty = @ \cup (Changed(t) \cap SecondSaved(t))]
    /\ UNCHANGED <<now, rows, chain, todo, published, replied, faults>>

(* One transaction writes the changed columns of both rows.                 *)
CommitRows(t) ==
    LET h == handler[t] IN
    /\ payment' = IF PaymentColumn \in h.dirty
                  THEN [payment EXCEPT ![h.job] = h.status] ELSE payment
    /\ subscription' = IF "subscriptions.status" \in h.dirty
                       THEN [subscription EXCEPT ![h.job] = "active"] ELSE subscription
    /\ expires' = IF "subscriptions.expires_at" \in h.dirty
                  THEN [expires EXCEPT ![h.job] = h.expires] ELSE expires

CommitSucceeded(t) ==
    /\ handler[t].pc = "commit"
    /\ handler[t].status = "succeeded"
    /\ CommitRows(t)
    /\ Goto(t, "publish_succeeded")
    /\ UNCHANGED <<now, deadline, chain, todo, published, replied, faults>>

(* PaymentFailed has no routing key, so publishing it does nothing.         *)
CommitFailed(t) ==
    /\ handler[t].pc = "commit"
    /\ handler[t].status = "failed"
    /\ CommitRows(t)
    /\ Reply(t, handler[t].job, "expired")
    /\ Return(t)
    /\ UNCHANGED <<now, deadline, chain, todo, published, faults>>

PublishSucceeded(t) ==
    /\ handler[t].pc = "publish_succeeded"
    /\ published' = published \cup {<<handler[t].job, "PaymentSucceeded">>}
    /\ Goto(t, "publish_activated")
    /\ UNCHANGED <<now, rows, chain, todo, replied, faults>>

PublishActivated(t) ==
    LET p == handler[t].job IN
    /\ handler[t].pc = "publish_activated"
    /\ published' = published \cup {<<p, "SubscriptionActivated">>}
    /\ Reply(t, p, IF p \in Crypto THEN "succeeded" ELSE "ok")
    /\ Return(t)
    /\ UNCHANGED <<now, rows, chain, todo, faults>>

-----------------------------------------------------------------------------
(* Mutant: a failed publication repeats the activation.                     *)
MutantRetryInterrupt(t) ==
    /\ handler[t].pc # "idle"
    /\ faults < MaxFaults
    /\ faults' = faults + 1
    /\ IF handler[t].pc = "publish_succeeded" THEN Goto(t, "read_subscription")
                                             ELSE Return(t)
    /\ UNCHANGED <<now, rows, chain, todo, published, replied>>

(* An awaited call raises, or the coroutine is cancelled: the session rolls *)
(* back and the handler is gone, wherever it was.                           *)
Interrupt(t) ==
    /\ handler[t].pc # "idle"
    /\ faults < MaxFaults
    /\ faults' = faults + 1
    /\ Return(t)
    /\ UNCHANGED <<now, rows, chain, todo, published, replied>>

(* The process dies and starts again: every coroutine is gone and so is the *)
(* checker's list.                                                          *)
Restart ==
    /\ faults < MaxFaults
    /\ faults' = faults + 1
    /\ handler' = [t \in Handlers |-> Idle]
    /\ todo' = {}
    /\ UNCHANGED <<now, rows, chain, published, replied>>

Begin(t, p) ==
    \/ CheckSettled(t, p)
    \/ CheckExpired(t, p)
    \/ CheckLive(t, p)
    \/ ConfirmPending(t, p)
    \/ ConfirmSettled(t, p)

Proceed(t) ==
    \/ BalanceSufficient(t)
    \/ BalanceShort(t)
    \/ Sweep(t)
    \/ SweepFails(t)
    \/ ReadSubscription(t)
    \/ SaveFirst(t)
    \/ SaveSecond(t)
    \/ CommitSucceeded(t)
    \/ CommitFailed(t)
    \/ PublishSucceeded(t)
    \/ PublishActivated(t)

World ==
    \/ Tick
    \/ \E p \in Payments :
           \/ \E amount \in 1..Price : Deposit(p, amount)
           \/ Charge(p)
           \/ SweepMined(p)
           \/ SweepDropped(p)

Next ==
    \/ World
    \/ \E p \in Payments : CreatePayment(p) \/ CreateCryptoPayment(p)
    \/ ListPending
    \/ \E t \in Handlers :
           \/ \E p \in Payments : Begin(t, p)
           \/ Proceed(t)
           \/ Interrupt(t)
    \/ Restart

Spec == Init /\ [][Next]_vars

(* The event loop keeps running every coroutine it has, the checker polls   *)
(* for ever, the chain clients give up on a silent node, and time passes.   *)
Fairness ==
    /\ WF_now(Tick)
    /\ WF_vars(ListPending)
    /\ WF_vars(\E p \in Payments : Begin(Checker, p))
    /\ \A t \in Handlers : WF_vars(Proceed(t))

FairSpec == Spec /\ Fairness
=============================================================================
