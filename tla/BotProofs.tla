----------------------------- MODULE BotProofs -----------------------------
(***************************************************************************)
(* Proofs, for any number of users, purchases and calls, of what the bot   *)
(* tells its users and grants them.  The bot runs beside the payment       *)
(* service: each of its steps is a step of the service, or changes no more *)
(* of it than the count of failures, so the service's invariant Inv holds  *)
(* here too.                                                               *)
(***************************************************************************)
EXTENDS SubscriptionBot, PaymentProofs

AtWork(p) == {t \in Handlers : handler[t].job = p}

(* The states of a chat in which the bot has not yet asked the service to   *)
(* confirm a Stars payment.                                                 *)
Unconfirmed == {"none", "invoice", "charged"}

(* A Stars payment is confirmed by one call at most, which is the one that  *)
(* activates its subscription.                                              *)
StarsOK(p) ==
    /\ \A t, u \in AtWork(p) : t = u
    /\ chat[p] \in Unconfirmed => AtWork(p) = {} /\ subscription[p] # "active"
    /\ \A t \in AtWork(p) : handler[t].pc \notin Published => subscription[p] # "active"

(* The end date e of user u comes from an active subscription.              *)
Backed(u, e) ==
    \E p \in Payments : /\ Owner[p] = u
                        /\ subscription[p] = "active"
                        /\ p \in Stars => expires[p] = e

ToldOK ==
    \A p \in Payments : chat[p] \in {"syncing", "active"} => subscription[p] = "active"

(* What a running sync has fetched; the sync of a purchase runs while its   *)
(* chat waits for it.                                                       *)
SyncsOK ==
    \A f \in Syncs : sync[f] # Nothing =>
        /\ sync[f] # 0 => Backed(UserOf(f), sync[f])
        /\ f \in Payments => chat[f] = "syncing"

BotInv ==
    /\ Inv
    /\ BotTypeOK
    /\ ToldOK
    /\ \A p \in Stars : StarsOK(p)
    /\ SyncsOK
    /\ AccessIsBacked

-----------------------------------------------------------------------------
(* The service under the bot.                                               *)

(* The commits take nothing back.                                           *)
LEMMA CommitMonotone ==
    ASSUME Inv, NEW t \in Handlers, CommitSucceeded(t) \/ CommitFailed(t)
    PROVE  Monotone
<1>1. PICK h : h = handler[t]
    OBVIOUS
<1>2. /\ h.job \in Payments /\ h.status \in {"succeeded", "failed"} /\ now \in Nat
      /\ payment \in [Payments -> {"none", "pending", "succeeded", "failed"}]
      /\ subscription \in [Payments -> {"none", "pending", "active"}]
      /\ paid \in [Payments -> Nat]
    BY <1>1 DEF Inv, TypeOK, StateOK, CommitSucceeded, CommitFailed
<1>3. UNCHANGED <<now, deadline, paid>>
    BY DEF CommitSucceeded, CommitFailed, chain
<1>4. \A p \in Payments :
          /\ payment'[p] \in {payment[p], h.status}
          /\ subscription'[p] \in {subscription[p], "active"}
    BY <1>1, <1>2 DEF CommitSucceeded, CommitFailed, CommitRows
<1> QED BY <1>2, <1>3, <1>4 DEF Monotone

(* No step of the service takes anything back.                              *)
LEMMA NextMonotone ==
    ASSUME Inv, [Next]_vars
    PROVE  Monotone
<1>1. /\ now \in Nat /\ paid \in [Payments -> Nat]
      /\ payment \in [Payments -> {"none", "pending", "succeeded", "failed"}]
      /\ subscription \in [Payments -> {"none", "pending", "active"}]
    BY DEF Inv, TypeOK
<1>2. CASE UNCHANGED <<now, rows, paid>>
    BY <1>1, <1>2 DEF Monotone, rows
<1>3. CASE Tick
    BY <1>1, <1>3 DEF Tick, Monotone, rows, chain
<1>4. ASSUME NEW p \in Payments, NEW amount \in 1..Price, Deposit(p, amount)
      PROVE  Monotone
    <2>1. amount \in Nat
        BY NumbersAssumption
    <2> QED BY <1>1, <1>4, <2>1 DEF Deposit, Monotone, rows
<1>5. ASSUME NEW p \in Payments, Charge(p) PROVE Monotone
    BY <1>1, <1>5, NumbersAssumption DEF Charge, Monotone, rows
<1>6. ASSUME NEW p \in Payments, CreatePayment(p) \/ CreateCryptoPayment(p) PROVE Monotone
    <2>1. /\ payment[p] = "none" /\ subscription[p] = "none" /\ UNCHANGED <<now, paid>>
          /\ payment' = [payment EXCEPT ![p] = "pending"]
          /\ subscription' = [subscription EXCEPT ![p] = "pending"]
          /\ \A q \in Payments : q # p => deadline'[q] = deadline[q]
        BY <1>6 DEF CreatePayment, CreateCryptoPayment, CreateRows, chain, Inv, RowOK, TypeOK
    <2> QED BY <1>1, <2>1 DEF Monotone
<1>7. ASSUME NEW t \in Handlers, CommitSucceeded(t) \/ CommitFailed(t) PROVE Monotone
    BY <1>7, CommitMonotone
<1>8. ASSUME NEW t \in Handlers, NEW p \in Payments, Begin(t, p)
      PROVE  UNCHANGED <<now, rows, paid>>
    BY <1>8 DEF Begin, CheckSettled, CheckExpired, CheckLive, ConfirmPending, ConfirmSettled,
                chain
<1>9. ASSUME NEW t \in Handlers, Proceed(t), ~CommitSucceeded(t), ~CommitFailed(t)
      PROVE  UNCHANGED <<now, rows, paid>>
    BY <1>9 DEF Proceed, BalanceSufficient, BalanceShort, Sweep, SweepFails, ReadSubscription,
                SaveFirst, SaveSecond, PublishSucceeded, PublishActivated, chain
<1>10. ASSUME NEW p \in Payments, SweepMined(p) \/ SweepDropped(p)
       PROVE  UNCHANGED <<now, rows, paid>>
    BY <1>10 DEF SweepMined, SweepDropped
<1>11. CASE ListPending \/ Restart \/ UNCHANGED vars \/ \E t \in Handlers : Interrupt(t)
    BY <1>2, <1>11 DEF ListPending, Restart, Interrupt, vars, chain
<1> QED BY <1>2, <1>3, <1>4, <1>5, <1>6, <1>7, <1>8, <1>9, <1>10, <1>11 DEF Next, World

(* A failure outside the service changes nothing in it.                     *)
OnlyFaults ==
    /\ UNCHANGED <<now, rows, chain, handler, todo, published, replied>>
    /\ faults' \in Nat

(* Such a step keeps what the service relies on.                            *)
LEMMA OnlyFaultsInv ==
    ASSUME Inv, OnlyFaults
    PROVE  Inv' /\ Monotone
<1>1. TypeOK' /\ Monotone
    BY DEF OnlyFaults, Inv, TypeOK, Monotone, rows, chain
<1>2. \A p \in Payments : RowOK(p)'
    BY DEF OnlyFaults, Inv, RowOK, Funded, rows, chain
<1>3. handler' = handler /\ UNCHANGED <<published, replied>>
    BY DEF OnlyFaults
<1> QED BY <1>1, <1>2, <1>3, WorldStep

(* Every step of the whole system is a step of the service, or changes no   *)
(* more of it than the count of failures.                                   *)
LEMMA BotStepsService ==
    ASSUME Inv, [BotNext]_allVars
    PROVE  [Next]_vars \/ OnlyFaults
<1>1. faults \in Nat /\ Checker \in Handlers /\ Tasks \subseteq Handlers
      /\ Stars \subseteq Payments /\ Crypto \subseteq Payments
    BY DEF Inv, TypeOK, Handlers, Payments
<1>2. CASE ServiceAlone
    BY <1>1, <1>2 DEF ServiceAlone, Next, World
<1>3. ASSUME NEW p \in Stars, ChoosePlan(p) \/ Pay(p) PROVE Next
    BY <1>1, <1>3 DEF ChoosePlan, Pay, Next, World
<1>4. ASSUME NEW p \in Stars, NEW t \in Tasks, Confirm(t, p) PROVE Next
    BY <1>1, <1>4 DEF Confirm, Next, Begin
<1>5. ASSUME NEW p \in Crypto, ShowAddress(p) \/ \E t \in Tasks : TapCheck(t, p) PROVE Next
    BY <1>1, <1>5 DEF ShowAddress, TapCheck, Next, Begin
<1>6. ASSUME NEW t \in Handlers, ServiceProceeds(t) \/ ServiceInterrupted(t) PROVE Next
    BY <1>6 DEF ServiceProceeds, ServiceInterrupted, Next
<1>7. ASSUME NEW p \in Stars, ConfirmUnreachable(p) PROVE OnlyFaults
    BY <1>1, <1>7 DEF ConfirmUnreachable, OnlyFaults
<1>8. CASE BotRestart
    BY <1>1, <1>8 DEF BotRestart, OnlyFaults
<1>9. ASSUME NEW f \in Syncs, SyncFetch(f) \/ SyncStore(f) PROVE UNCHANGED vars \/ OnlyFaults
    BY <1>1, <1>9 DEF SyncFetch, SyncStore, OnlyFaults, vars
<1> QED BY <1>2, <1>3, <1>4, <1>5, <1>6, <1>7, <1>8, <1>9 DEF BotNext, allVars

(* The service's invariant under the bot.                                   *)
LEMMA BotStepsInv ==
    ASSUME Inv, [BotNext]_allVars
    PROVE  Inv' /\ Monotone
BY BotStepsService, NextInv, NextMonotone, OnlyFaultsInv

(* A step of a handler: it goes on with its payment or is done, and the     *)
(* only step that touches a subscription is the commit of a success.        *)
LEMMA ProceedShape ==
    ASSUME Inv, Inv', NEW t \in Handlers, Proceed(t)
    PROVE  /\ \A u \in Handlers : u # t => handler'[u] = handler[u]
           /\ \/ handler'[t] = Idle
              \/ /\ handler'[t].job = handler[t].job
                 /\ handler[t].pc \in Published => handler'[t].pc \in Published
           /\ \A p \in Payments :
                  \/ subscription'[p] = subscription[p] /\ expires'[p] = expires[p]
                  \/ p = handler[t].job /\ handler[t].pc = "commit" /\ handler'[t].pc \in Published
<1>1. PICK h \in HandlerState : h = handler[t]
    BY DEF Inv, TypeOK
<1>2. /\ handler \in [Handlers -> HandlerState] /\ StateOK(h) /\ h.pc \in ProgramPoints
      /\ subscription \in [Payments -> {"none", "pending", "active"}]
      /\ expires \in [Payments -> Nat]
    BY <1>1 DEF Inv, TypeOK, HandlerState
<1>3. CASE BalanceShort(t) \/ SweepFails(t) \/ PublishActivated(t)
    BY <1>2, <1>3 DEF BalanceShort, SweepFails, PublishActivated, Return, rows
<1>4. CASE BalanceSufficient(t) \/ Sweep(t) \/ SaveFirst(t) \/ SaveSecond(t)
           \/ ReadSubscription(t) \/ PublishSucceeded(t)
    <2>1. UNCHANGED <<subscription, expires>>
        BY <1>4 DEF BalanceSufficient, Sweep, SaveFirst, SaveSecond, ReadSubscription,
                    PublishSucceeded, rows
    <2>2. \A u \in Handlers : u # t => handler'[u] = handler[u]
        BY <1>2, <1>4 DEF BalanceSufficient, Sweep, SaveFirst, SaveSecond, ReadSubscription,
                          PublishSucceeded, Goto
    <2>3. CASE BalanceSufficient(t)
        BY <1>1, <1>2, <2>1, <2>2, <2>3 DEF BalanceSufficient, Goto, HandlerState, Published
    <2>4. CASE Sweep(t)
        BY <1>1, <1>2, <2>1, <2>2, <2>4 DEF Sweep, HandlerState, Published
    <2>5. CASE SaveFirst(t)
        BY <1>1, <1>2, <2>1, <2>2, <2>5 DEF SaveFirst, HandlerState, Published
    <2>6. CASE SaveSecond(t)
        BY <1>1, <1>2, <2>1, <2>2, <2>6 DEF SaveSecond, HandlerState, Published
    <2>7. CASE ReadSubscription(t)
        BY <1>1, <1>2, <2>1, <2>2, <2>7 DEF ReadSubscription, HandlerState, Published
    <2>8. CASE PublishSucceeded(t)
        BY <1>1, <1>2, <2>1, <2>2, <2>8 DEF PublishSucceeded, Goto, HandlerState, Published
    <2> QED BY <1>4, <2>3, <2>4, <2>5, <2>6, <2>7, <2>8
<1>5. CASE CommitSucceeded(t)
    <2>1. /\ h.job \in Payments /\ h.pc = "commit"
          /\ \A u \in Handlers : u # t => handler'[u] = handler[u]
        BY <1>1, <1>2, <1>5 DEF CommitSucceeded, Goto, StateOK
    <2>2. handler'[t].pc = "publish_succeeded" /\ handler'[t].job = h.job
        BY <1>1, <1>2, <1>5 DEF CommitSucceeded, Goto, HandlerState
    <2>3. \A p \in Payments : p # h.job =>
              subscription'[p] = subscription[p] /\ expires'[p] = expires[p]
        BY <1>1, <1>2, <1>5, <2>1 DEF CommitSucceeded, CommitRows
    <2> QED BY <1>1, <2>1, <2>2, <2>3 DEF Published
<1>6. CASE CommitFailed(t)
    <2>1. h.dirty \subseteq {PaymentColumn}
        BY <1>1, <1>2, <1>6 DEF CommitFailed, StateOK
    <2>2. UNCHANGED <<subscription, expires>>
        BY <1>1, <1>6, <2>1 DEF CommitFailed, CommitRows, PaymentColumn
    <2> QED BY <1>2, <1>6, <2>2 DEF CommitFailed, Return
<1> QED BY <1>3, <1>4, <1>5, <1>6 DEF Proceed

(* Of two Stars handlers of one payment there is none, and the end date of  *)
(* an active Stars subscription stays as it is.                             *)
Steady ==
    \A p \in Payments : subscription[p] = "active" =>
        /\ subscription'[p] = "active"
        /\ p \in Stars => expires'[p] = expires[p]

(* What a user holds stays backed while the rows are steady.                *)
LEMMA BackedKept ==
    ASSUME Steady, NEW u, NEW e, Backed(u, e)
    PROVE  Backed(u, e)'
BY DEF Steady, Backed

(* Handlers that stay where they are, or leave, and chats that do not go    *)
(* back to before the confirmation, keep StarsOK.                           *)
LEMMA StarsKept ==
    ASSUME NEW p \in Stars, StarsOK(p),
           \A t \in AtWork(p)' : t \in AtWork(p) /\ handler'[t] = handler[t],
           chat'[p] \in Unconfirmed => chat[p] \in Unconfirmed,
           subscription'[p] = "active" => subscription[p] = "active"
    PROVE  StarsOK(p)'
BY DEF StarsOK

(* A handler's step beside the bot keeps StarsOK and the rows steady.       *)
LEMMA ProceedStars ==
    ASSUME BotInv, Inv', Monotone, NEW t \in Handlers, Proceed(t),
           \A p \in Stars : chat'[p] \in Unconfirmed => chat[p] \in Unconfirmed
    PROVE  Steady /\ \A p \in Stars : StarsOK(p)'
<1>1. PICK h \in HandlerState : h = handler[t]
    BY DEF BotInv, Inv, TypeOK
<1>2. h.job \in Payments /\ StateOK(h)
    BY <1>1 DEF BotInv, Inv, Proceed, BalanceSufficient, BalanceShort, Sweep, SweepFails,
                ReadSubscription, SaveFirst, SaveSecond, CommitSucceeded, CommitFailed,
                PublishSucceeded, PublishActivated, StateOK
<1>3. /\ \A u \in Handlers : u # t => handler'[u] = handler[u]
      /\ \/ handler'[t] = Idle
         \/ /\ handler'[t].job = h.job
            /\ h.pc \in Published => handler'[t].pc \in Published
      /\ \A p \in Payments :
             \/ subscription'[p] = subscription[p] /\ expires'[p] = expires[p]
             \/ p = h.job /\ h.pc = "commit" /\ handler'[t].pc \in Published
    BY <1>1, ProceedShape DEF BotInv
<1>4. Stars \subseteq Payments /\ Idle.job \notin Payments /\ Idle.pc \notin Published
    BY PaymentsAssumption DEF Payments, Idle, Published
<1>5. ASSUME NEW p \in Stars PROVE StarsOK(p)'
    <2>1. StarsOK(p)
        BY DEF BotInv
    <2>2. CASE p # h.job
        <3>1. \A u \in AtWork(p)' : u \in AtWork(p) /\ handler'[u] = handler[u]
            BY <1>3, <1>4, <2>2 DEF AtWork, Handlers
        <3>2. subscription'[p] = subscription[p]
            BY <1>3, <1>4, <2>2
        <3> QED BY <2>1, <3>1, <3>2, StarsKept
    <2>3. CASE p = h.job
        <3>1. AtWork(p) = {t}
            BY <1>1, <2>1, <2>3 DEF StarsOK, AtWork
        <3>2. AtWork(p)' \subseteq {t}
            BY <1>3, <3>1 DEF AtWork, Handlers
        <3>3. chat'[p] \notin Unconfirmed
            BY <2>1, <3>1 DEF StarsOK
        <3>4. ASSUME t \in AtWork(p)', handler'[t].pc \notin Published
              PROVE  subscription'[p] # "active"
            <4>1. h.pc \notin Published
                BY <1>3, <1>4, <3>4 DEF AtWork
            <4>2. subscription[p] # "active"
                BY <1>1, <2>1, <3>1, <4>1 DEF StarsOK
            <4> QED BY <1>3, <1>4, <3>4, <4>2
        <3> QED BY <3>2, <3>3, <3>4 DEF StarsOK
    <2> QED BY <2>2, <2>3
<1>6. ASSUME NEW p \in Payments, subscription[p] = "active"
      PROVE  subscription'[p] = "active" /\ (p \in Stars => expires'[p] = expires[p])
    <2>1. subscription'[p] = "active"
        BY <1>6 DEF Monotone
    <2>2. ASSUME p \in Stars PROVE expires'[p] = expires[p]
        <3>1. ~(p = h.job /\ h.pc = "commit")
            BY <1>1, <1>6, <2>2 DEF BotInv, StarsOK, AtWork, Published
        <3> QED BY <1>3, <3>1
    <2> QED BY <2>1, <2>2
<1> QED BY <1>5, <1>6 DEF Steady

-----------------------------------------------------------------------------
(* The bot.                                                                 *)

(* A step that only touches the chats among the bot's variables.            *)
LEMMA ChatStep ==
    ASSUME BotInv, Inv', Steady, \A p \in Stars : StarsOK(p)',
           UNCHANGED <<subExpires, sync>>,
           chat' \in [Payments -> StarsChat \cup CryptoChat],
           \A p \in Payments :
               /\ chat'[p] = chat[p]
                  \/ chat'[p] \in IF p \in Stars THEN StarsChat ELSE CryptoChat
               /\ chat'[p] \in {"syncing", "active"} =>
                      chat'[p] = chat[p] \/ subscription'[p] = "active"
               /\ chat[p] = "syncing" => chat'[p] = "syncing"
    PROVE  BotInv'
<1>1. BotTypeOK'
    BY DEF BotInv, BotTypeOK, Inv
<1>2. ToldOK'
    BY DEF BotInv, ToldOK, Steady
<1>3. SyncsOK'
    <2> SUFFICES ASSUME NEW f \in Syncs, sync[f] # Nothing
                 PROVE  /\ sync[f] # 0 => Backed(UserOf(f), sync[f])'
                        /\ f \in Payments => chat'[f] = "syncing"
        BY DEF SyncsOK
    <2>1. /\ sync[f] # 0 => Backed(UserOf(f), sync[f])
          /\ f \in Payments => chat[f] = "syncing"
        BY DEF BotInv, SyncsOK
    <2>2. PICK e : e = sync[f]
        OBVIOUS
    <2>3. sync[f] # 0 => Backed(UserOf(f), e)'
        BY <2>1, <2>2, BackedKept
    <2> QED BY <2>1, <2>2, <2>3 DEF Backed
<1>4. AccessIsBacked'
    BY DEF BotInv, AccessIsBacked, Steady
<1> QED BY <1>1, <1>2, <1>3, <1>4 DEF BotInv

(* Such a step in which no handler moves and no subscription is activated.  *)
LEMMA QuietChatStep ==
    ASSUME BotInv, Inv', handler' = handler,
           UNCHANGED <<subExpires, sync, expires>>,
           \A p \in Payments : (subscription'[p] = "active") <=> (subscription[p] = "active"),
           chat' \in [Payments -> StarsChat \cup CryptoChat],
           \A p \in Payments :
               /\ chat'[p] = chat[p]
                  \/ chat'[p] \in IF p \in Stars THEN StarsChat ELSE CryptoChat
               /\ chat'[p] \in Unconfirmed => chat[p] \in Unconfirmed \/ p \in Crypto
               /\ chat'[p] \in {"syncing", "active"} =>
                      chat'[p] = chat[p] \/ subscription'[p] = "active"
               /\ chat[p] = "syncing" => chat'[p] = "syncing"
    PROVE  BotInv'
<1>1. Steady
    BY DEF Steady
<1>2. ASSUME NEW p \in Stars PROVE StarsOK(p)'
    <2>1. StarsOK(p) /\ p \in Payments /\ p \notin Crypto
        BY PaymentsAssumption DEF BotInv, Payments
    <2>2. \A t \in AtWork(p)' : t \in AtWork(p) /\ handler'[t] = handler[t]
        BY DEF AtWork, Handlers
    <2> QED BY <2>1, <2>2, StarsKept
<1> QED BY <1>1, <1>2, ChatStep

(* What the actions that keep the sync and the handlers alone say.          *)
LEMMA ShopSteps ==
    ASSUME BotInv, Inv',
           \/ \E p \in Stars : ChoosePlan(p) \/ Pay(p) \/ ConfirmUnreachable(p)
           \/ \E p \in Crypto : ShowAddress(p)
           \/ UNCHANGED allVars
    PROVE  BotInv'
<1>1. /\ chat \in [Payments -> StarsChat \cup CryptoChat]
      /\ subscription \in [Payments -> {"none", "pending", "active"}]
      /\ \A p \in Payments : payment[p] = "none" => subscription[p] = "none"
    BY DEF BotInv, BotTypeOK, Inv, TypeOK, RowOK
<1>2. Stars \subseteq Payments /\ Crypto \subseteq Payments /\ Crypto \cap Stars = {}
    BY PaymentsAssumption DEF Payments
<1>3. ASSUME NEW p \in Stars, ChoosePlan(p) PROVE BotInv'
    <2>1. /\ chat[p] = "none" /\ chat' = [chat EXCEPT ![p] = "invoice"]
          /\ payment[p] = "none" /\ subscription' = [subscription EXCEPT ![p] = "pending"]
          /\ UNCHANGED <<subExpires, sync, expires, handler>>
        BY <1>3 DEF ChoosePlan, Say, CreatePayment, CreateRows
    <2>2. subscription[p] = "none" /\ p \in Payments
        BY <1>1, <1>2, <2>1
    <2> QED BY <1>1, <1>2, <2>1, <2>2, QuietChatStep DEF StarsChat, CryptoChat, Unconfirmed
<1>4. ASSUME NEW p \in Stars, Pay(p) PROVE BotInv'
    <2>1. /\ chat[p] = "invoice" /\ chat' = [chat EXCEPT ![p] = "charged"]
          /\ UNCHANGED <<subExpires, sync, expires, handler, subscription>>
        BY <1>4 DEF Pay, Say, Charge, rows
    <2> QED BY <1>1, <1>2, <2>1, QuietChatStep DEF StarsChat, CryptoChat, Unconfirmed
<1>5. ASSUME NEW p \in Stars, ConfirmUnreachable(p) PROVE BotInv'
    <2>1. /\ chat[p] = "charged" /\ chat' = [chat EXCEPT ![p] = "delayed"]
          /\ UNCHANGED <<subExpires, sync, expires, handler, subscription>>
        BY <1>5 DEF ConfirmUnreachable, Say, rows
    <2> QED BY <1>1, <1>2, <2>1, QuietChatStep DEF StarsChat, CryptoChat, Unconfirmed
<1>6. ASSUME NEW p \in Crypto, ShowAddress(p) PROVE BotInv'
    <2>1. /\ chat[p] = "none" /\ chat' = [chat EXCEPT ![p] = "address"]
          /\ payment[p] = "none" /\ subscription' = [subscription EXCEPT ![p] = "pending"]
          /\ UNCHANGED <<subExpires, sync, expires, handler>>
        BY <1>6 DEF ShowAddress, Say, CreateCryptoPayment, CreateRows
    <2>2. subscription[p] = "none" /\ p \in Payments
        BY <1>1, <1>2, <2>1
    <2> QED BY <1>1, <1>2, <2>1, <2>2, QuietChatStep DEF StarsChat, CryptoChat, Unconfirmed
<1>7. CASE UNCHANGED allVars
    BY <1>1, <1>7, QuietChatStep DEF allVars, vars, botVars, rows
<1> QED BY <1>3, <1>4, <1>5, <1>6, <1>7

(* A handler that starts: on a crypto payment, or on a Stars payment that   *)
(* the bot has not confirmed before.                                        *)
LEMMA StartStars ==
    ASSUME BotInv, Inv', NEW t \in Handlers, NEW q \in Payments, handler[t].pc = "idle",
           handler' = [handler EXCEPT ![t] = handler'[t]],
           handler'[t].job \notin Stars \/ handler'[t].job = q,
           q \in Stars => chat[q] \in Unconfirmed /\ chat'[q] \notin Unconfirmed,
           \A p \in Stars : chat'[p] \in Unconfirmed => chat[p] \in Unconfirmed,
           UNCHANGED rows
    PROVE  Steady /\ \A p \in Stars : StarsOK(p)'
<1>1. Steady /\ subscription' = subscription
    BY DEF Steady, rows
<1>2. handler[t].job \notin Payments /\ Stars \subseteq Payments
    BY PaymentsAssumption DEF BotInv, Inv, StateOK, Idle, Payments
<1>3. \A u \in Handlers : u # t => handler'[u] = handler[u]
    BY DEF BotInv, Inv, TypeOK
<1>4. ASSUME NEW p \in Stars PROVE StarsOK(p)'
    <2>1. StarsOK(p)
        BY DEF BotInv
    <2>2. CASE t \notin AtWork(p)'
        <3>1. \A u \in AtWork(p)' : u \in AtWork(p) /\ handler'[u] = handler[u]
            BY <1>3, <2>2 DEF AtWork, Handlers
        <3> QED BY <1>1, <2>1, <3>1, StarsKept
    <2>3. CASE t \in AtWork(p)'
        <3>1. p = q
            BY <2>3 DEF AtWork
        <3>2. AtWork(p) = {} /\ subscription[p] # "active" /\ chat'[p] \notin Unconfirmed
            BY <2>1, <3>1 DEF StarsOK
        <3>3. AtWork(p)' \subseteq {t}
            BY <1>3, <3>2 DEF AtWork, Handlers
        <3> QED BY <1>1, <3>2, <3>3 DEF StarsOK
    <2> QED BY <2>2, <2>3
<1> QED BY <1>1, <1>4

(* The bot asks the service to confirm or to check.                         *)
LEMMA AskSteps ==
    ASSUME BotInv, Inv', NEW t \in Tasks,
           \/ \E p \in Stars : Confirm(t, p)
           \/ \E p \in Crypto : TapCheck(t, p)
    PROVE  BotInv'
<1>1. /\ chat \in [Payments -> StarsChat \cup CryptoChat] /\ t \in Handlers
      /\ handler \in [Handlers -> HandlerState]
    BY DEF BotInv, BotTypeOK, Inv, TypeOK, Handlers
<1>2. /\ Stars \subseteq Payments /\ Crypto \subseteq Payments /\ Crypto \cap Stars = {}
      /\ NoPayment \notin Payments
    BY PaymentsAssumption DEF Payments
<1>3. ASSUME NEW p \in Stars, Confirm(t, p) PROVE BotInv'
    <2>1. /\ chat[p] = "charged" /\ chat' = [chat EXCEPT ![p] = "confirming"]
          /\ UNCHANGED <<subExpires, sync, rows>>
        BY <1>3 DEF Confirm, Say, ConfirmPending
    <2>2. /\ handler[t].pc = "idle" /\ handler'[t].job = p
          /\ handler' = [handler EXCEPT ![t] = handler'[t]]
        BY <1>1, <1>3 DEF Confirm, ConfirmPending, Takes, Idle
    <2>3. Steady /\ \A q \in Stars : StarsOK(q)'
        BY <1>1, <1>2, <2>1, <2>2, StartStars DEF Unconfirmed
    <2> QED BY <1>1, <1>2, <2>1, <2>3, ChatStep DEF StarsChat, CryptoChat
<1>4. ASSUME NEW p \in Crypto, TapCheck(t, p) PROVE BotInv'
    <2>1. /\ \/ chat' = [chat EXCEPT ![p] = "failed"]
             \/ chat' = [chat EXCEPT ![p] = "checking"]
             \/ chat' = [chat EXCEPT ![p] = "syncing"] /\ payment[p] = "succeeded"
          /\ chat[p] = "address" /\ UNCHANGED <<subExpires, sync, rows>>
        BY <1>4 DEF TapCheck, Say, CheckSettled, CheckExpired, CheckLive
    <2>2. payment[p] = "succeeded" => subscription[p] = "active"
        BY <1>2 DEF BotInv, Inv, RowOK
    <2>3. /\ handler[t].pc = "idle" /\ handler'[t].job \in {p, handler[t].job}
          /\ handler' = [handler EXCEPT ![t] = handler'[t]]
        BY <1>1, <1>4 DEF TapCheck, CheckSettled, CheckExpired, CheckLive, Takes, Idle
    <2>4. handler[t].job = NoPayment
        BY <1>1, <2>3 DEF BotInv, Inv, StateOK, Idle
    <2>5. Steady /\ \A q \in Stars : StarsOK(q)'
        BY <1>1, <1>2, <2>1, <2>3, <2>4, StartStars DEF Unconfirmed
    <2>6. subscription' = subscription
        BY <2>1 DEF rows
    <2> QED BY <1>1, <1>2, <2>1, <2>2, <2>5, <2>6, ChatStep DEF StarsChat, CryptoChat
<1> QED BY <1>3, <1>4

(* What the bot has no part in: nobody but the bot confirms.                *)
LEMMA AloneSteps ==
    ASSUME BotInv, Inv', Monotone, ServiceAlone
    PROVE  BotInv'
<1>1. /\ chat \in [Payments -> StarsChat \cup CryptoChat] /\ Checker \in Handlers
      /\ handler \in [Handlers -> HandlerState]
      /\ Stars \subseteq Payments /\ Crypto \cap Stars = {} /\ NoPayment \notin Payments
    BY PaymentsAssumption DEF BotInv, BotTypeOK, Inv, TypeOK, Handlers, Payments
<1>2. UNCHANGED <<chat, subExpires, sync>>
    BY DEF ServiceAlone, botVars
<1>3. ASSUME NEW p \in Payments, Begin(Checker, p) PROVE BotInv'
    <2>1. /\ p \in Crypto /\ UNCHANGED rows /\ handler[Checker].pc = "idle"
          /\ handler'[Checker].job \in {p, handler[Checker].job}
          /\ handler' = [handler EXCEPT ![Checker] = handler'[Checker]]
        BY <1>1, <1>3 DEF Begin, CheckSettled, CheckExpired, CheckLive, ConfirmPending,
                          ConfirmSettled, Takes, Idle
    <2>2. handler[Checker].job = NoPayment
        BY <1>1, <2>1 DEF BotInv, Inv, StateOK, Idle
    <2>3. Steady /\ \A q \in Stars : StarsOK(q)'
        BY <1>1, <1>2, <2>1, <2>2, StartStars
    <2> QED BY <1>1, <1>2, <2>3, ChatStep
<1>4. CASE \/ Tick \/ ListPending
           \/ \E p \in Payments :
                  \/ \E amount \in 1..Price : Deposit(p, amount)
                  \/ SweepMined(p) \/ SweepDropped(p)
    <2>1. UNCHANGED <<handler, subscription, expires>>
        BY <1>4 DEF Tick, ListPending, Deposit, SweepMined, SweepDropped, rows
    <2> QED BY <1>1, <1>2, <2>1, QuietChatStep
<1> QED BY <1>3, <1>4 DEF ServiceAlone

(* What a call that ends means to the user: "syncing" follows an            *)
(* activation, and only a crypto chat hears of an expiry or goes back.      *)
LEMMA HeardIsTrue ==
    ASSUME Inv, NEW t \in Handlers, Proceed(t), handler'[t] = Idle
    PROVE  /\ Heard(handler[t]) \in IF handler[t].job \in Stars THEN StarsChat ELSE CryptoChat
           /\ Heard(handler[t]) = "syncing" => subscription[handler[t].job] = "active"
           /\ handler[t].job \in Stars => Heard(handler[t]) = "syncing"
           /\ Heard(handler[t]) # "active"
<1>1. PICK h \in HandlerState : h = handler[t]
    BY DEF Inv, TypeOK
<1>2. StateOK(h) /\ handler \in [Handlers -> HandlerState] /\ Crypto \cap Stars = {}
    BY <1>1, PaymentsAssumption DEF Inv, TypeOK
<1>3. CASE h.pc = "publish_activated"
    BY <1>1, <1>2, <1>3 DEF Heard, StateOK, Published, StarsChat, CryptoChat
<1>4. CASE h.pc # "publish_activated"
    <2>1. CASE h.pc = "commit"
        <3>1. ~CommitSucceeded(t)
            BY <1>1, <1>2, <2>1 DEF CommitSucceeded, Goto, Idle
        <3>2. h.status = "failed"
            BY <1>1, <2>1, <3>1
               DEF Proceed, BalanceSufficient, BalanceShort, Sweep, SweepFails,
                   ReadSubscription, SaveFirst, SaveSecond, CommitFailed, PublishSucceeded,
                   PublishActivated
        <3> QED BY <1>1, <1>2, <2>1, <3>2 DEF Heard, StateOK, StarsChat, CryptoChat
    <2>2. CASE h.pc # "commit"
        <3>1. BalanceShort(t) \/ SweepFails(t)
            <4>1. CASE BalanceSufficient(t) \/ PublishSucceeded(t)
                BY <1>1, <1>2, <4>1 DEF BalanceSufficient, PublishSucceeded, Goto, Idle
            <4>2. CASE Sweep(t)
                <5>1. handler'[t].pc = "read_subscription"
                    BY <1>1, <1>2, <4>2 DEF Sweep, HandlerState
                <5> QED BY <5>1 DEF Idle
            <4>3. CASE SaveFirst(t)
                <5>1. handler'[t].pc \in {"commit", "save_second"}
                    BY <1>1, <1>2, <4>3 DEF SaveFirst, HandlerState
                <5> QED BY <5>1 DEF Idle
            <4>4. CASE SaveSecond(t)
                <5>1. handler'[t].pc = "commit"
                    BY <1>1, <1>2, <4>4 DEF SaveSecond, HandlerState
                <5> QED BY <5>1 DEF Idle
            <4>5. CASE ReadSubscription(t)
                <5>1. handler'[t].pc = "save_first"
                    BY <1>1, <1>2, <4>5 DEF ReadSubscription, HandlerState
                <5> QED BY <5>1 DEF Idle
            <4> QED BY <1>1, <1>4, <2>2, <4>1, <4>2, <4>3, <4>4, <4>5
                    DEF Proceed, CommitSucceeded, CommitFailed, PublishActivated
        <3>2. h.job \in Crypto
            BY <1>1, <1>2, <3>1 DEF BalanceShort, SweepFails, StateOK
        <3> QED BY <1>1, <1>2, <1>4, <2>2, <3>2 DEF Heard, StarsChat, CryptoChat
    <2> QED BY <2>1, <2>2
<1> QED BY <1>3, <1>4

(* The service works on, and the bot hears of what is true.                 *)
LEMMA ProceedsStep ==
    ASSUME BotInv, Inv', Monotone, NEW t \in Handlers, ServiceProceeds(t)
    PROVE  BotInv'
<1>1. /\ chat \in [Payments -> StarsChat \cup CryptoChat] /\ Crypto \cap Stars = {}
      /\ handler \in [Handlers -> HandlerState] /\ Inv
    BY PaymentsAssumption DEF BotInv, BotTypeOK, Inv, TypeOK
<1>2. PICK p : p = handler[t].job
    OBVIOUS
<1>3. Proceed(t) /\ UNCHANGED <<subExpires, sync>>
    BY DEF ServiceProceeds
<1>4. p \in Payments
    BY <1>2, <1>3
       DEF BotInv, Inv, Proceed, BalanceSufficient, BalanceShort, Sweep, SweepFails,
           ReadSubscription, SaveFirst, SaveSecond, CommitSucceeded, CommitFailed,
           PublishSucceeded, PublishActivated, StateOK
<1>5. CASE chat' = chat
    <2>1. Steady /\ \A q \in Stars : StarsOK(q)'
        BY <1>3, <1>5, ProceedStars
    <2> QED BY <1>1, <1>3, <1>5, <2>1, ChatStep
<1>6. CASE chat' # chat
    <2>1. /\ handler'[t] = Idle /\ chat[p] # "syncing"
          /\ chat' = [chat EXCEPT ![p] = Heard(handler[t])]
        BY <1>2, <1>6 DEF ServiceProceeds, Waiting
    <2>2. PICK w : w = Heard(handler[t])
        OBVIOUS
    <2>3. /\ w \in IF p \in Stars THEN StarsChat ELSE CryptoChat
          /\ w = "syncing" => subscription[p] = "active"
          /\ p \in Stars => w = "syncing"
          /\ w # "active"
        BY <1>1, <1>2, <1>3, <2>1, <2>2, HeardIsTrue
    <2>4. chat' = [chat EXCEPT ![p] = w]
        BY <2>1, <2>2
    <2>5. subscription[p] = "active" => subscription'[p] = "active"
        BY <1>4 DEF Monotone
    <2>6. \A q \in Stars : chat'[q] \in Unconfirmed => chat[q] \in Unconfirmed
        BY <1>1, <2>3, <2>4 DEF Unconfirmed, Payments
    <2>7. Steady /\ \A q \in Stars : StarsOK(q)'
        BY <1>3, <2>6, ProceedStars
    <2> QED BY <1>1, <1>3, <1>4, <2>1, <2>3, <2>4, <2>5, <2>7, ChatStep
<1> QED BY <1>5, <1>6

(* A call fails; the user of a Stars payment is put off.                    *)
LEMMA InterruptedStep ==
    ASSUME BotInv, Inv', NEW t \in Handlers, ServiceInterrupted(t)
    PROVE  BotInv'
<1>1. /\ chat \in [Payments -> StarsChat \cup CryptoChat] /\ Crypto \cap Stars = {}
      /\ handler \in [Handlers -> HandlerState] /\ Stars \subseteq Payments
    BY PaymentsAssumption DEF BotInv, BotTypeOK, Inv, TypeOK, Payments
<1>2. PICK p : p = handler[t].job
    OBVIOUS
<1>3. /\ handler[t].pc # "idle" /\ handler' = [handler EXCEPT ![t] = Idle]
      /\ UNCHANGED <<subExpires, sync, rows>>
      /\ \/ chat' = chat
         \/ chat[p] # "syncing" /\ chat' = [chat EXCEPT ![p] = AfterRpcError(p)]
    BY <1>2 DEF ServiceInterrupted, Interrupt, Return, Waiting
<1>4. p \in Payments
    BY <1>2, <1>3 DEF BotInv, Inv, StateOK
<1>5. \A q \in Stars : chat'[q] \in Unconfirmed => chat[q] \in Unconfirmed
    BY <1>1, <1>3 DEF AfterRpcError, Unconfirmed
<1>6. ASSUME NEW q \in Stars PROVE StarsOK(q)'
    <2>1. \A u \in AtWork(q)' : u \in AtWork(q) /\ handler'[u] = handler[u]
        BY <1>1, <1>3, PaymentsAssumption DEF AtWork, Handlers, Idle
    <2>2. StarsOK(q) /\ subscription' = subscription
        BY <1>3 DEF BotInv, rows
    <2> QED BY <1>5, <2>1, <2>2, StarsKept
<1>7. Steady
    BY <1>3 DEF Steady, rows
<1> QED BY <1>1, <1>3, <1>4, <1>6, <1>7, ChatStep
        DEF AfterRpcError, StarsChat, CryptoChat, Payments

(* A restart of the bot forgets chats and syncs, and grants nobody anything.*)
LEMMA RestartStep ==
    ASSUME BotInv, Inv', BotRestart
    PROVE  BotInv'
<1>1. /\ chat \in [Payments -> StarsChat \cup CryptoChat] /\ Crypto \cap Stars = {}
      /\ \A p \in Payments : chat[p] \in IF p \in Stars THEN StarsChat ELSE CryptoChat
      /\ sync \in [Syncs -> Nat \cup {Nothing}] /\ subExpires \in [Users -> Nat]
    BY PaymentsAssumption DEF BotInv, BotTypeOK
<1>2. UNCHANGED <<handler, subExpires, rows>>
    BY DEF BotRestart
<1>3. \A p \in Payments :
          chat'[p] = chat[p] \/ chat'[p] = (IF p \in Stars THEN "lost" ELSE "address")
    BY DEF BotRestart
<1>4. chat' \in [Payments -> StarsChat \cup CryptoChat]
    BY <1>1 DEF BotRestart, StarsChat, CryptoChat
<1>5. \A f \in Syncs : sync'[f] = Nothing
    BY DEF BotRestart
<1>6. BotTypeOK'
    <2>1. sync' \in [Syncs -> Nat \cup {Nothing}]
        BY DEF BotRestart
    <2>2. \A p \in Payments : chat'[p] \in IF p \in Stars THEN StarsChat ELSE CryptoChat
        BY <1>1, <1>3 DEF StarsChat, CryptoChat
    <2> QED BY <1>1, <1>2, <1>4, <2>1, <2>2 DEF BotTypeOK, Inv
<1>7. ToldOK'
    BY <1>2, <1>3 DEF BotInv, ToldOK, rows
<1>8. ASSUME NEW p \in Stars PROVE StarsOK(p)'
    <2>1. \A t \in AtWork(p)' : t \in AtWork(p) /\ handler'[t] = handler[t]
        BY <1>2 DEF AtWork, Handlers
    <2>2. StarsOK(p) /\ subscription' = subscription
        BY <1>2 DEF BotInv, rows
    <2>3. chat'[p] \in Unconfirmed => chat[p] \in Unconfirmed
        BY <1>3 DEF Unconfirmed, Payments
    <2> QED BY <2>1, <2>2, <2>3, StarsKept
<1>9. SyncsOK'
    BY <1>5 DEF SyncsOK
<1>10. AccessIsBacked'
    BY <1>2 DEF BotInv, AccessIsBacked, rows
<1> QED BY <1>6, <1>7, <1>8, <1>9, <1>10 DEF BotInv

(* What is fetched is the end of the user's only active subscription.       *)
LEMMA FetchedBacked ==
    ASSUME Inv, NEW u \in Users
    PROVE  /\ Fetched(u) \in Nat
           /\ Fetched(u) # 0 => Backed(u, Fetched(u))
<1>1. CASE \E p \in ActiveRows(u) : ActiveRows(u) = {p} /\ expires[p] > now
    <2>1. PICK p \in ActiveRows(u) : ActiveRows(u) = {p}
        BY <1>1
    <2>2. (CHOOSE q \in ActiveRows(u) : TRUE) = p
        BY <2>1
    <2>3. Fetched(u) = expires[p]
        BY <1>1, <2>2 DEF Fetched
    <2>4. p \in Payments /\ Owner[p] = u /\ subscription[p] = "active"
        BY DEF ActiveRows
    <2>5. expires[p] \in Nat
        BY <2>4 DEF Inv, TypeOK
    <2> QED BY <2>3, <2>4, <2>5 DEF Backed
<1>2. CASE ~\E p \in ActiveRows(u) : ActiveRows(u) = {p} /\ expires[p] > now
    BY <1>2 DEF Fetched
<1> QED BY <1>1, <1>2

(* A sync fetches what is backed and stores what it fetched.                *)
LEMMA SyncSteps ==
    ASSUME BotInv, Inv', NEW f \in Syncs, SyncFetch(f) \/ SyncStore(f)
    PROVE  BotInv'
<1>1. /\ chat \in [Payments -> StarsChat \cup CryptoChat]
      /\ \A p \in Payments : chat[p] \in IF p \in Stars THEN StarsChat ELSE CryptoChat
      /\ sync \in [Syncs -> Nat \cup {Nothing}] /\ subExpires \in [Users -> Nat]
    BY DEF BotInv, BotTypeOK
<1>2. UNCHANGED <<handler, rows>>
    BY DEF SyncFetch, SyncStore, vars
<1>3. UserOf(f) \in Users
    BY OwnerAssumption DEF UserOf, Syncs
<1>4. \A u, e : Backed(u, e)' <=> Backed(u, e)
    BY <1>2 DEF Backed, rows
<1>5. \/ chat' = chat
      \/ f \in Payments /\ chat[f] = "syncing" /\ chat' = [chat EXCEPT ![f] = "active"]
    <2>1. CASE SyncFetch(f)
        BY <2>1 DEF SyncFetch
    <2>2. CASE SyncStore(f)
        BY <2>2 DEF SyncStore, Say, BotInv, SyncsOK
    <2> QED BY <2>1, <2>2
<1>6. ToldOK' /\ \A p \in Payments : chat'[p] \in IF p \in Stars THEN StarsChat ELSE CryptoChat
    BY <1>1, <1>2, <1>5 DEF BotInv, ToldOK, rows, StarsChat, CryptoChat
<1>7. ASSUME NEW p \in Stars PROVE StarsOK(p)'
    <2>1. \A t \in AtWork(p)' : t \in AtWork(p) /\ handler'[t] = handler[t]
        BY <1>2 DEF AtWork, Handlers
    <2>2. StarsOK(p) /\ subscription' = subscription
        BY <1>2 DEF BotInv, rows
    <2>3. chat'[p] \in Unconfirmed => chat[p] \in Unconfirmed
        BY <1>1, <1>5 DEF Unconfirmed, Payments
    <2> QED BY <2>1, <2>2, <2>3, StarsKept
<1>8. chat' \in [Payments -> StarsChat \cup CryptoChat]
    BY <1>1, <1>5 DEF StarsChat, CryptoChat
<1>9. CASE SyncFetch(f)
    <2>2. PICK x : /\ x = Fetched(UserOf(f)) \/ x = 0
                   /\ sync' = [sync EXCEPT ![f] = x]
        BY <1>9 DEF SyncFetch
    <2>3. x \in Nat /\ (x # 0 => Backed(UserOf(f), x))
        BY <1>3, <2>2, FetchedBacked DEF BotInv
    <2>4. /\ UNCHANGED <<chat, subExpires>>
          /\ f \in Payments => chat[f] = "syncing"
        BY <1>9 DEF SyncFetch
    <2>5. SyncsOK'
        BY <1>1, <1>4, <2>2, <2>3, <2>4 DEF BotInv, SyncsOK
    <2>6. AccessIsBacked'
        BY <1>2, <2>4 DEF BotInv, AccessIsBacked, rows
    <2>7. BotTypeOK'
        BY <1>1, <1>6, <1>8, <2>2, <2>3, <2>4 DEF BotTypeOK, Inv
    <2> QED BY <1>6, <1>7, <2>5, <2>6, <2>7 DEF BotInv
<1>10. CASE SyncStore(f)
    <2>1. /\ sync[f] # Nothing /\ subExpires' = [subExpires EXCEPT ![UserOf(f)] = sync[f]]
          /\ sync' = [sync EXCEPT ![f] = Nothing]
        BY <1>10 DEF SyncStore
    <2>2. sync[f] \in Nat /\ (sync[f] # 0 => Backed(UserOf(f), sync[f]))
        BY <1>1, <2>1 DEF BotInv, SyncsOK
    <2>3. \A g \in Syncs : g # f => sync'[g] = sync[g]
        BY <1>1, <2>1
    <2>4. \A g \in Payments : g # f => chat'[g] = chat[g]
        BY <1>1, <1>5
    <2>5. SyncsOK'
        BY <1>1, <1>4, <2>1, <2>3, <2>4 DEF BotInv, SyncsOK
    <2>6. \A u \in Users : subExpires[u] # 0 => Backed(u, subExpires[u])
        BY DEF BotInv, AccessIsBacked, Backed
    <2>7. ASSUME NEW u \in Users, subExpires'[u] # 0
          PROVE  \E p \in Payments : /\ Owner[p] = u
                                     /\ subscription'[p] = "active"
                                     /\ p \in Stars => expires'[p] = subExpires'[u]
        <3>1. PICK e : e = subExpires'[u]
            OBVIOUS
        <3>2. Backed(u, e)
            BY <1>1, <1>3, <2>1, <2>2, <2>6, <2>7, <3>1
        <3>3. Backed(u, e)'
            BY <1>4, <3>2
        <3> QED BY <3>1, <3>3 DEF Backed
    <2>8. AccessIsBacked'
        BY <2>7 DEF AccessIsBacked
    <2>9. BotTypeOK'
        BY <1>1, <1>6, <1>8, <2>1, <2>2 DEF BotTypeOK, Inv
    <2> QED BY <1>6, <1>7, <2>5, <2>8, <2>9 DEF BotInv
<1> QED BY <1>9, <1>10

(* Nothing is bought, granted or fetched when the system starts.            *)
LEMMA BotInitInv == BotInit => BotInv
<1> SUFFICES ASSUME BotInit PROVE BotInv
    OBVIOUS
<1>1. Inv
    BY InitInv DEF BotInit
<1>2. BotTypeOK
    BY <1>1 DEF BotInit, BotTypeOK, Inv, StarsChat, CryptoChat
<1>3. ToldOK /\ SyncsOK
    BY DEF BotInit, ToldOK, SyncsOK
<1>4. ASSUME NEW p \in Stars PROVE StarsOK(p)
    BY PaymentsAssumption
       DEF BotInit, Init, StarsOK, AtWork, Idle, Payments, Unconfirmed
<1>5. AccessIsBacked
    BY DEF BotInit, AccessIsBacked
<1> QED BY <1>1, <1>2, <1>3, <1>4, <1>5 DEF BotInv

(* Every step of service, bot and users keeps BotInv.                       *)
LEMMA BotNextInv == BotInv /\ [BotNext]_allVars => BotInv'
<1> SUFFICES ASSUME BotInv, [BotNext]_allVars PROVE BotInv'
    OBVIOUS
<1>1. Inv' /\ Monotone
    BY BotStepsInv DEF BotInv
<1>2. CASE \/ \E p \in Stars : ChoosePlan(p) \/ Pay(p) \/ ConfirmUnreachable(p)
           \/ \E p \in Crypto : ShowAddress(p)
           \/ UNCHANGED allVars
    BY <1>1, <1>2, ShopSteps
<1>3. CASE \E t \in Tasks : \/ \E p \in Stars : Confirm(t, p)
                          \/ \E p \in Crypto : TapCheck(t, p)
    BY <1>1, <1>3, AskSteps
<1>4. CASE ServiceAlone
    BY <1>1, <1>4, AloneSteps
<1>5. CASE \E t \in Handlers : ServiceProceeds(t) \/ ServiceInterrupted(t)
    BY <1>1, <1>5, ProceedsStep, InterruptedStep
<1>6. CASE BotRestart \/ \E f \in Syncs : SyncFetch(f) \/ SyncStore(f)
    BY <1>1, <1>6, RestartStep, SyncSteps
<1> QED BY <1>2, <1>3, <1>4, <1>5, <1>6 DEF BotNext

(* BotInv is an invariant of the service with the bot in front of it.       *)
LEMMA BotInvariance == BotSpec => []BotInv
BY BotInitInv, BotNextInv, PTL DEF BotSpec

(* Every variable of bot and service keeps its type; a Stars chat and a     *)
(* crypto chat never take each other's states.                              *)
THEOREM BotTypeCorrect == BotSpec => []BotTypeOK
<1>1. BotInv => BotTypeOK
    BY DEF BotInv
<1> QED BY BotInvariance, <1>1, PTL

(* No user is told "subscription activated" before the service has          *)
(* committed the activation, whatever failed on the way.                    *)
THEOREM ToldActiveCorrect == BotSpec => []ToldActiveIsActive
<1>1. BotInv => ToldActiveIsActive
    BY DEF BotInv, ToldOK, ToldActiveIsActive
<1> QED BY BotInvariance, <1>1, PTL

(* The end date the bot grants access by is that of an active subscription  *)
(* of the same user, however syncs, checks and failures interleave.         *)
THEOREM AccessIsBackedCorrect == BotSpec => []AccessIsBacked
<1>1. BotInv => AccessIsBacked
    BY DEF BotInv
<1> QED BY BotInvariance, <1>1, PTL

-----------------------------------------------------------------------------
(* What the service promises, kept with the bot in front of it.             *)

(* A step that only counts a failure is not seen.                           *)
LEMMA OnlyFaultsPromise ==
    ASSUME OnlyFaults
    PROVE  [Promise!Next]_(Promise!vars)
BY NothingSeen DEF OnlyFaults, rows, chain

(* The whole system implements PaidAccess: whatever users, bot, service and *)
(* checker do side by side, access follows money and the news follows       *)
(* access.                                                                  *)
THEOREM BotImplementation == BotSpec => AccessFollowsMoney
<1>1. BotInit => Promise!Init
    BY PromiseInit DEF BotInit
<1>2. BotInv /\ [BotNext]_allVars => [Promise!Next]_(Promise!vars)
    BY BotStepsService, PromiseStep, OnlyFaultsPromise DEF BotInv
<1> QED BY <1>1, <1>2, BotInvariance, PTL DEF BotSpec, AccessFollowsMoney, Promise!Spec

(* The bound on what races can grant holds with the bot as well.            *)
LEMMA OnlyFaultsRace ==
    ASSUME RaceInv, OnlyFaults
    PROVE  RaceInv'
<1>1. Inv'
    BY OnlyFaultsInv DEF RaceInv
<1>2. UNCHANGED <<now, payment, expires, handler>>
    BY DEF OnlyFaults, rows
<1>3. \A p : Racing(p)' = Racing(p)
    BY <1>2 DEF Racing
<1>4. \A t \in Handlers : SettlesOK(handler[t])'
    BY <1>2 DEF RaceInv, SettlesOK
<1>5. \A p \in Payments : RaceOK(p)'
    BY <1>2, <1>3 DEF RaceInv, RaceOK, Granted
<1> QED BY <1>1, <1>4, <1>5 DEF RaceInv

(* Checks that users ask for over and over, and the checker beside them,    *)
(* prolong a subscription at most once per handler.                         *)
THEOREM BotGrantBounded == BotSpec => []GrantBounded
<1>1. BotInit => RaceInv
    BY RaceInit DEF BotInit
<1>2. RaceInv /\ [BotNext]_allVars => RaceInv'
    BY BotStepsService, RaceNext, OnlyFaultsRace DEF RaceInv
<1>3. RaceInv => GrantBounded
    BY RaceBound
<1> QED BY <1>1, <1>2, <1>3, PTL DEF BotSpec
=============================================================================
