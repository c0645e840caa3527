--------------------------- MODULE SubscriptionBot ---------------------------
(***************************************************************************)
(* The Telegram bot in front of the payment service: the purchase of a     *)
(* subscription for Stars, from the invoice to the message "subscription   *)
(* activated", the purchase for crypto, whose message has a button that    *)
(* checks the payment, and the copy of the subscription's end that the bot *)
(* keeps in its own database and asks before every swipe.                  *)
(*                                                                         *)
(* The bot confirms a Stars purchase once, when Telegram delivers the      *)
(* successful_payment update; it has no record of the purchases it could   *)
(* not confirm, and drops the updates it missed when it starts.  A crypto  *)
(* purchase is settled by a tap or by the service's own checker, of which  *)
(* the bot hears nothing.                                                  *)
(***************************************************************************)
EXTENDS PaymentService

CONSTANTS
    Users,
    Owner           \* the user who makes each payment

ASSUME OwnerAssumption == Owner \in [Payments -> Users]

VARIABLES
    chat,           \* how far each purchase has got in the user's chat
    subExpires,     \* users.sub_expires_at in the bot's database, 0 for NULL
    sync            \* what each running sync has fetched and not yet stored

botVars == <<chat, subExpires, sync>>
allVars == <<vars, botVars>>

(* A sync runs at the end of a purchase, or before a swipe of a user.       *)
Syncs == Payments \cup Users
Nothing == -1

UserOf(f) == IF f \in Payments THEN Owner[f] ELSE f

StarsChat == {"none", "invoice", "charged", "confirming", "syncing", "active", "delayed",
              "lost"}
CryptoChat == {"none", "address", "checking", "syncing", "active", "expired", "failed"}

(* The states of the bot, of the chat about each purchase, and of the       *)
(* service.                                                                 *)
BotTypeOK ==
    /\ TypeOK
    /\ chat \in [Payments -> StarsChat \cup CryptoChat]
    /\ \A p \in Payments : chat[p] \in IF p \in Stars THEN StarsChat ELSE CryptoChat
    /\ subExpires \in [Users -> Nat]
    /\ sync \in [Syncs -> Nat \cup {Nothing}]

BotInit ==
    /\ Init
    /\ chat = [p \in Payments |-> "none"]
    /\ subExpires = [u \in Users |-> 0]
    /\ sync = [f \in Syncs |-> Nothing]

Say(p, what) == chat' = [chat EXCEPT ![p] = what]

(* The user picks a plan; whether a subscription is running is not asked.   *)
ChoosePlan(p) ==
    /\ chat[p] = "none"
    /\ CreatePayment(p)
    /\ Say(p, "invoice")
    /\ UNCHANGED <<subExpires, sync>>

(* The pre-checkout query is always approved, and Telegram charges.         *)
Pay(p) ==
    /\ chat[p] = "invoice"
    /\ Charge(p)
    /\ Say(p, "charged")
    /\ UNCHANGED <<subExpires, sync>>

(* successful_payment calls ConfirmPayment, once for each payment ...       *)
Confirm(t, p) ==
    /\ chat[p] = "charged"
    /\ ConfirmPending(t, p)
    /\ Say(p, "confirming")
    /\ UNCHANGED <<subExpires, sync>>

(* ... or does not reach the service, and promises an activation within a   *)
(* minute.                                                                  *)
ConfirmUnreachable(p) ==
    /\ chat[p] = "charged"
    /\ faults < MaxFaults
    /\ faults' = faults + 1
    /\ Say(p, "delayed")
    /\ UNCHANGED <<now, rows, chain, handler, todo, published, replied, subExpires, sync>>

-----------------------------------------------------------------------------
(* The crypto menu: the network and the plan are in the button.  A service  *)
(* without that gateway, or out of reach, leaves the chat as it was.        *)
ShowAddress(p) ==
    /\ chat[p] = "none"
    /\ CreateCryptoPayment(p)
    /\ Say(p, "address")
    /\ UNCHANGED <<subExpires, sync>>

(* check_crypto.  A settled payment is answered at once.  Bound: the button *)
(* is not pressed while the service works on an earlier tap.                *)
TapCheck(t, p) ==
    /\ chat[p] = "address"
    /\ \A u \in Tasks : handler[u].job # p
    /\ \/ /\ CheckSettled(t, p)
          /\ Say(p, IF payment[p] = "succeeded" THEN "syncing" ELSE "failed")
       \/ /\ CheckExpired(t, p) \/ CheckLive(t, p)
          /\ Say(p, "checking")
    /\ UNCHANGED <<subExpires, sync>>

-----------------------------------------------------------------------------
Waiting == {"confirming", "checking"}

(* What the end of a call means to the bot.                                 *)
Heard(h) ==
    IF h.pc = "publish_activated" THEN "syncing"
    ELSE IF h.pc = "commit" THEN "expired"
    ELSE "address"

(* The service works on; its answer resumes the bot's handler, if that is   *)
(* still there.                                                             *)
ServiceProceeds(t) ==
    LET p == handler[t].job IN
    /\ Proceed(t)
    /\ chat' = IF handler'[t] = Idle /\ t # Checker /\ chat[p] \in Waiting
               THEN [chat EXCEPT ![p] = Heard(handler[t])] ELSE chat
    /\ UNCHANGED <<subExpires, sync>>

(* Mutant: the bot takes an AioRpcError for a confirmation.                 *)
MutantAfterRpcError(p) == "syncing"

(* What the user hears when the call ends with an AioRpcError: an alert     *)
(* leaves the crypto message and its button as they are.                    *)
AfterRpcError(p) == IF p \in Stars THEN "delayed" ELSE "address"

ServiceInterrupted(t) ==
    LET p == handler[t].job IN
    /\ Interrupt(t)
    /\ chat' = IF t # Checker /\ chat[p] \in Waiting
               THEN [chat EXCEPT ![p] = AfterRpcError(p)] ELSE chat
    /\ UNCHANGED <<subExpires, sync>>

(* What the bot has no part in.                                             *)
ServiceAlone ==
    /\ \/ Tick
       \/ ListPending
       \/ \E p \in Payments :
           \/ \E amount \in 1..Price : Deposit(p, amount)
           \/ SweepMined(p) \/ SweepDropped(p)
           \/ Begin(Checker, p)
    /\ UNCHANGED botVars

(* The bot dies.  Its coroutines are gone, and on its return                *)
(* delete_webhook(drop_pending_updates=True) discards what Telegram kept;   *)
(* the button of a crypto payment is still there.                           *)
BotRestart ==
    /\ faults < MaxFaults
    /\ faults' = faults + 1
    /\ chat' = [p \in Payments |->
                  IF chat[p] \notin {"charged", "syncing"} \cup Waiting THEN chat[p]
                  ELSE IF p \in Stars THEN "lost" ELSE "address"]
    /\ sync' = [f \in Syncs |-> Nothing]
    /\ UNCHANGED <<now, rows, chain, handler, todo, published, replied, subExpires>>

(* Mutant: the query forgets the user.                                      *)
MutantActiveRows(u) == {p \in Payments : subscription[p] = "active"}

ActiveRows(u) == {p \in Payments : Owner[p] = u /\ subscription[p] = "active"}

(* GetSubscription: scalar_one_or_none() raises when a user has two active  *)
(* rows, and the bot takes that error for "no subscription", like a         *)
(* subscription that has run out.                                           *)
Fetched(u) ==
    IF \E p \in ActiveRows(u) : ActiveRows(u) = {p} /\ expires[p] > now
    THEN expires[CHOOSE p \in ActiveRows(u) : TRUE]
    ELSE 0

(* sync_subscription_from_payment asks the service, before a swipe or after *)
(* a confirmed purchase ...                                                 *)
SyncFetch(f) ==
    /\ sync[f] = Nothing
    /\ f \in Payments => chat[f] = "syncing"
    /\ \/ sync' = [sync EXCEPT ![f] = Fetched(UserOf(f))] /\ UNCHANGED faults
       \/ /\ faults < MaxFaults
          /\ faults' = faults + 1
          /\ sync' = [sync EXCEPT ![f] = 0]
    /\ UNCHANGED <<now, rows, chain, handler, todo, published, replied, chat, subExpires>>

(* Mutant: stores without waiting for the answer.                           *)
MutantSyncStore(f) ==
    /\ f \in Payments => chat[f] = "syncing"
    /\ subExpires' = [subExpires EXCEPT ![UserOf(f)] = sync[f]]
    /\ sync' = [sync EXCEPT ![f] = Nothing]
    /\ IF f \in Payments THEN Say(f, "active") ELSE UNCHANGED chat
    /\ UNCHANGED vars

(* ... and stores what it got; a purchase then reports success.             *)
SyncStore(f) ==
    /\ sync[f] # Nothing
    /\ subExpires' = [subExpires EXCEPT ![UserOf(f)] = sync[f]]
    /\ sync' = [sync EXCEPT ![f] = Nothing]
    /\ IF f \in Payments THEN Say(f, "active") ELSE UNCHANGED chat
    /\ UNCHANGED vars

BotNext ==
    \/ ServiceAlone
    \/ \E p \in Stars :
           \/ ChoosePlan(p)
           \/ Pay(p)
           \/ \E t \in Tasks : Confirm(t, p)
           \/ ConfirmUnreachable(p)
    \/ \E p \in Crypto : ShowAddress(p) \/ \E t \in Tasks : TapCheck(t, p)
    \/ \E t \in Handlers : ServiceProceeds(t) \/ ServiceInterrupted(t)
    \/ BotRestart
    \/ \E f \in Syncs : SyncFetch(f) \/ SyncStore(f)

BotSpec == BotInit /\ [][BotNext]_allVars

(* Both event loops keep running their coroutines, and Telegram delivers an *)
(* update to a bot that is polling.                                         *)
BotFairness ==
    /\ \A t \in Handlers : WF_allVars(ServiceProceeds(t))
    /\ \A p \in Stars : SF_allVars(\E t \in Tasks : Confirm(t, p))
    /\ \A f \in Syncs : WF_allVars(SyncFetch(f)) /\ WF_allVars(SyncStore(f))

FairBotSpec == BotSpec /\ BotFairness

-----------------------------------------------------------------------------
(* "Subscription activated" is said only of a purchase the service has      *)
(* activated, whatever happened to the confirmation or the check on the way.*)
ToldActiveIsActive ==
    \A p \in Payments : chat[p] = "active" => subscription[p] = "active"

(* The end date the bot works with is that of an active subscription of the *)
(* same user, although it was fetched some awaits before it was stored.     *)
(* Checks that race for a crypto payment may have moved its end meanwhile.  *)
AccessIsBacked ==
    \A u \in Users : subExpires[u] # 0 =>
        \E p \in Payments : /\ Owner[p] = u
                            /\ subscription[p] = "active"
                            /\ p \in Stars => expires[p] = subExpires[u]

(* A charged purchase is activated and reported, unless a process or a call *)
(* fails.                                                                   *)
ChargedIsActivated ==
    \A p \in Stars : chat[p] = "charged" ~> chat[p] = "active" \/ faults > 0

-----------------------------------------------------------------------------
(* What the bot says and does not keep.                                     *)

(* routers/subscription.py:109-110: the payment went through, the           *)
(* subscription will be activated within a minute.                          *)
DelayedIsActivated ==
    \A p \in Stars : chat[p] = "delayed" ~> subscription[p] = "active"

(* routers/subscription.py:102-103: subscription activated, all functions   *)
(* are available now; said without a failure, while the plan is running.    *)
ToldActiveHasAccess ==
    [][\A p \in Stars :
           chat[p] # "active" /\ chat'[p] = "active" /\ faults = 0 /\ expires[p] > now =>
               subExpires'[Owner[p]] # 0]_allVars
=============================================================================
