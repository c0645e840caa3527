---------------------------- MODULE PaymentProofs ----------------------------
(***************************************************************************)
(* Proofs, for any number of payments and handlers: a payment reads as     *)
(* succeeded only with an active subscription, none is failed before its   *)
(* deadline, racing handlers prolong a subscription once each, and the     *)
(* service implements PaidAccess.  For the checker alone: both rows of a   *)
(* payment agree, a settled payment stays as it is, and no money is swept  *)
(* without the payment succeeding.                                         *)
(***************************************************************************)
EXTENDS PaymentProperties, FiniteSetTheorems, TLAPS

Funded(p) == paid[p] >= Price

(* The points of a call at which the payment object has been told to        *)
(* succeed, and those past the commit.                                      *)
Published == {"publish_succeeded", "publish_activated"}
Succeeding == {"read_subscription", "save_second"} \cup Published

(* What a handler may rely on between two awaits: a call past the balance   *)
(* check works on a funded payment, a call that fails one saw its deadline  *)
(* pass, and a commit that settles a payment either writes the activation   *)
(* or finds it already written.                                             *)
StateOK(h) ==
    /\ h.pc = "idle" => h = Idle
    /\ h.pc # "idle" => h.job \in Payments /\ payment[h.job] # "none"
    /\ h.pc \in {"balance", "sweep"} => h.job \in Crypto /\ h.status = "pending"
    /\ h.pc \in Succeeding => h.status = "succeeded"
    /\ h.pc \in {"save_first", "commit"} => h.status # "pending"
    /\ h.pc = "sweep" \/ h.status = "succeeded" => Funded(h.job)
    /\ h.status = "failed" => h.job \in Crypto /\ now > deadline[h.job]
    /\ \/ h.pc = "commit" /\ h.status = "succeeded"
       \/ h.pc = "save_second" /\ h.job \in Crypto
       => "subscriptions.status" \in h.dirty \/ subscription[h.job] = "active"
    /\ h.pc = "commit" /\ h.status = "failed" => h.dirty \subseteq {PaymentColumn}
    /\ h.pc \in Published => subscription[h.job] = "active"

RowOK(p) ==
    /\ payment[p] = "none" => subscription[p] = "none"
    /\ payment[p] = "succeeded" => subscription[p] = "active"
    /\ payment[p] = "failed" => p \in Crypto /\ now > deadline[p]
    /\ subscription[p] = "active" => Funded(p)
    /\ wallet[p] <= paid[p]
    /\ p \in Stars /\ paid[p] > 0 => Funded(p)

TellsTheTruth ==
    /\ \A p \in Payments, e \in Events :
           <<p, e>> \in published => subscription[p] = "active"
    /\ \A p \in Payments :
           <<p, "succeeded">> \in replied => subscription[p] = "active"

Inv ==
    /\ TypeOK
    /\ \A t \in Handlers : StateOK(handler[t])
    /\ \A p \in Payments : RowOK(p)
    /\ TellsTheTruth

-----------------------------------------------------------------------------
(* What every step keeps: time and money only grow, a row once created stays *)
(* and keeps its deadline, an activation is not taken back.                 *)
Monotone ==
    /\ now' >= now
    /\ \A p \in Payments :
           /\ payment[p] # "none" => payment'[p] # "none" /\ deadline'[p] = deadline[p]
           /\ subscription[p] = "active" => subscription'[p] = "active"
           /\ paid'[p] >= paid[p]

(* A handler's assumptions survive such a step of somebody else.            *)
LEMMA StateKept ==
    ASSUME TypeOK, TypeOK', Monotone, NEW h \in HandlerState, StateOK(h)
    PROVE  StateOK(h)'
BY PaymentsAssumption, NumbersAssumption
   DEF TypeOK, Monotone, HandlerState, StateOK, Idle, Funded, Succeeding,
       Published,
       ProgramPoints

(* A step of the world, or the creation of rows.                            *)
LEMMA WorldStep ==
    ASSUME Inv, TypeOK', Monotone, handler' = handler,
           \A p \in Payments : RowOK(p)', UNCHANGED <<published, replied>>
    PROVE  Inv'
<1>1. \A t \in Handlers : StateOK(handler[t])'
    <2>1. SUFFICES ASSUME NEW t \in Handlers PROVE StateOK(handler[t])'
        OBVIOUS
    <2>2. handler[t] \in HandlerState
        BY DEF Inv, TypeOK
    <2>3. \A h \in HandlerState : StateOK(h) => StateOK(h)'
        BY StateKept DEF Inv
    <2>4. StateOK(handler[t])
        BY DEF Inv
    <2>5. QED
        BY <2>2, <2>3, <2>4 DEF StateOK, Funded
<1>2. TellsTheTruth'
    BY DEF Inv, Monotone, TellsTheTruth
<1>3. QED
    BY <1>1, <1>2 DEF Inv

(* A step of one handler.                                                   *)
LEMMA HandlerStep ==
    ASSUME Inv, TypeOK', Monotone, NEW t \in Handlers, NEW g \in HandlerState,
           handler' = [handler EXCEPT ![t] = g], StateOK(g)',
           \A p \in Payments : RowOK(p)', TellsTheTruth'
    PROVE  Inv'
<1>1. SUFFICES ASSUME NEW u \in Handlers PROVE StateOK(handler[u])'
    BY DEF Inv
<1>2. handler[u] \in HandlerState /\ StateOK(handler[u])
    BY DEF Inv, TypeOK
<1>3. \A h \in HandlerState : StateOK(h) => StateOK(h)'
    BY StateKept DEF Inv
<1>4. CASE u = t
    BY <1>4 DEF StateOK, Funded, Inv, TypeOK
<1>5. CASE u # t
    <2>1. handler'[u] = handler[u]
        BY <1>5 DEF Inv, TypeOK
    <2>2. QED
        BY <2>1, <1>2, <1>3 DEF StateOK, Funded
<1>6. QED
    BY <1>4, <1>5

(* A step of one handler that writes no row and moves no money.             *)
LEMMA LocalStep ==
    ASSUME Inv, NEW t \in Handlers, NEW g \in HandlerState, StateOK(g),
           handler' = [handler EXCEPT ![t] = g],
           UNCHANGED <<now, rows, paid, inTime, wallet, published>>,
           sweeping' \subseteq Crypto, todo' \subseteq Crypto, faults' \in Nat,
           replied' \subseteq (Payments \X Replies), TellsTheTruth'
    PROVE  Inv'
<1>1. TypeOK'
    BY DEF Inv, TypeOK, rows
<1>2. Monotone
    BY DEF Inv, TypeOK, Monotone, rows
<1>3. StateOK(g)'
    BY StateKept, <1>1, <1>2 DEF Inv
<1>4. \A p \in Payments : RowOK(p)'
    BY DEF Inv, RowOK, Funded, rows
<1>5. QED
    BY HandlerStep, <1>1, <1>2, <1>3, <1>4

-----------------------------------------------------------------------------
(* The world and the creation of payments.                                  *)

(* The clock moving on disturbs no part of Inv: deadlines only come closer. *)
LEMMA TickInv ==
    ASSUME Inv, Tick
    PROVE  Inv'
<1>1. TypeOK'
    BY NumbersAssumption DEF Tick, Inv, TypeOK, rows, chain
<1>2. Monotone
    BY NumbersAssumption DEF Tick, Inv, TypeOK, Monotone, RowOK, rows, chain
<1>3. \A p1 \in Payments : RowOK(p1)'
    BY NumbersAssumption DEF Tick, Inv, TypeOK, RowOK, Funded, rows, chain
<1>4. QED
    BY WorldStep, <1>1, <1>2, <1>3 DEF Tick

(* A deposit only adds to what was paid and to the wallet.                  *)
LEMMA DepositInv ==
    ASSUME Inv, NEW p \in Payments, NEW amount \in 1..Price, Deposit(p, amount)
    PROVE  Inv'
<1>1. TypeOK'
    BY NumbersAssumption, PaymentsAssumption DEF Deposit, Payments, Inv, TypeOK,
        rows, chain
<1>2. Monotone
    BY NumbersAssumption, PaymentsAssumption DEF Deposit, Payments, Inv, TypeOK,
        Monotone, RowOK, rows, chain
<1>3. \A p1 \in Payments : RowOK(p1)'
    BY NumbersAssumption, PaymentsAssumption DEF Deposit, Payments, Inv, TypeOK,
        RowOK, Funded, rows, chain
<1>4. QED
    BY WorldStep, <1>1, <1>2, <1>3 DEF Deposit

(* A Stars charge only adds to what was paid.                               *)
LEMMA ChargeInv ==
    ASSUME Inv, NEW p \in Payments, Charge(p)
    PROVE  Inv'
<1>1. TypeOK'
    BY NumbersAssumption DEF Charge, Payments, Inv, TypeOK, rows, chain
<1>2. Monotone
    BY NumbersAssumption DEF Charge, Payments, Inv, TypeOK, Monotone, RowOK,
        rows, chain
<1>3. \A p1 \in Payments : RowOK(p1)'
    BY NumbersAssumption DEF Charge, Payments, Inv, TypeOK, RowOK, Funded, rows,
        chain
<1>4. QED
    BY WorldStep, <1>1, <1>2, <1>3 DEF Charge

(* A mined sweep empties a wallet and leaves the record of the money alone. *)
LEMMA SweepMinedInv ==
    ASSUME Inv, NEW p \in Payments, SweepMined(p)
    PROVE  Inv'
<1>1. TypeOK'
    BY NumbersAssumption DEF SweepMined, LeftAfterSweep, Payments, Inv, TypeOK,
        rows, chain
<1>2. Monotone
    BY NumbersAssumption DEF SweepMined, LeftAfterSweep, Payments, Inv, TypeOK,
        Monotone, RowOK, rows, chain
<1>3. \A p1 \in Payments : RowOK(p1)'
    BY NumbersAssumption DEF SweepMined, LeftAfterSweep, Payments, Inv, TypeOK,
        RowOK, Funded, rows, chain
<1>4. QED
    BY WorldStep, <1>1, <1>2, <1>3 DEF SweepMined

(* A sweep that is never mined changes nothing but the queue of sweeps.     *)
LEMMA SweepDroppedInv ==
    ASSUME Inv, NEW p \in Payments, SweepDropped(p)
    PROVE  Inv'
<1>1. TypeOK'
    BY NumbersAssumption DEF SweepDropped, Inv, TypeOK, rows, chain
<1>2. Monotone
    BY NumbersAssumption DEF SweepDropped, Inv, TypeOK, Monotone, RowOK, rows,
        chain
<1>3. \A p1 \in Payments : RowOK(p1)'
    BY NumbersAssumption DEF SweepDropped, Inv, TypeOK, RowOK, Funded, rows,
        chain
<1>4. QED
    BY WorldStep, <1>1, <1>2, <1>3 DEF SweepDropped

(* The new rows of a Stars payment satisfy Inv: no handler knows them yet.  *)
LEMMA CreatePaymentInv ==
    ASSUME Inv, NEW p \in Payments, CreatePayment(p)
    PROVE  Inv'
<1>1. TypeOK'
    BY NumbersAssumption DEF CreatePayment, CreateRows, Inv, TypeOK, rows, chain
<1>2. Monotone
    BY NumbersAssumption DEF CreatePayment, CreateRows, Inv, TypeOK, Monotone,
        RowOK, rows, chain
<1>3. \A p1 \in Payments : RowOK(p1)'
    BY NumbersAssumption DEF CreatePayment, CreateRows, Inv, TypeOK, RowOK,
        Funded, rows, chain
<1>4. QED
    BY WorldStep, <1>1, <1>2, <1>3 DEF CreatePayment, CreateRows

(* The new rows of a crypto payment satisfy Inv, deadline included.         *)
LEMMA CreateCryptoPaymentInv ==
    ASSUME Inv, NEW p \in Payments, CreateCryptoPayment(p)
    PROVE  Inv'
<1>1. TypeOK'
    BY NumbersAssumption DEF CreateCryptoPayment, CreateRows, Inv, TypeOK, rows,
        chain
<1>2. Monotone
    BY NumbersAssumption DEF CreateCryptoPayment, CreateRows, Inv, TypeOK,
        Monotone, RowOK, rows, chain
<1>3. \A p1 \in Payments : RowOK(p1)'
    BY NumbersAssumption DEF CreateCryptoPayment, CreateRows, Inv, TypeOK,
        RowOK, Funded, rows, chain
<1>4. QED
    BY WorldStep, <1>1, <1>2, <1>3 DEF CreateCryptoPayment, CreateRows

(* The checker lists only crypto payments.                                  *)
LEMMA ListPendingInv ==
    ASSUME Inv, ListPending
    PROVE  Inv'
<1>1. TypeOK'
    BY DEF ListPending, Inv, TypeOK, rows, chain
<1>2. Monotone
    BY DEF ListPending, Inv, TypeOK, Monotone, rows, chain
<1>3. \A p \in Payments : RowOK(p)'
    BY DEF ListPending, Inv, RowOK, Funded, rows, chain
<1>4. QED
    BY WorldStep, <1>1, <1>2, <1>3 DEF ListPending

-----------------------------------------------------------------------------
(* The steps of a handler that write no row.                                *)

(* Reporting a settled payment repeats what its row says.                   *)
LEMMA CheckSettledInv ==
    ASSUME Inv, NEW t \in Handlers, NEW p \in Payments, CheckSettled(t, p)
    PROVE  Inv'
<1>1. handler[t] \in HandlerState /\ StateOK(handler[t])
    BY DEF Inv, TypeOK
<1>2. PICK g : g = handler[t]
    OBVIOUS
<1>3. g \in HandlerState
    BY <1>1, <1>2, PaymentsAssumption, NumbersAssumption
       DEF CheckSettled, HandlerState, ProgramPoints, StateOK, Inv, TypeOK
<1>4. StateOK(g)
    BY <1>1, <1>2, PaymentsAssumption
       DEF CheckSettled, StateOK, HandlerState, Funded, Succeeding, Published,
           Inv,
           TypeOK, RowOK, Takes
<1>5. handler' = [handler EXCEPT ![t] = g]
    BY <1>1, <1>2 DEF CheckSettled, Takes, Reply, Inv, TypeOK, HandlerState
<1>6. /\ UNCHANGED <<now, rows, paid, inTime, wallet, published>>
      /\ sweeping' \subseteq Crypto /\ todo' \subseteq Crypto /\ faults' \in Nat
      /\ replied' \subseteq (Payments \X Replies) /\ TellsTheTruth'
    BY <1>1 DEF CheckSettled, Takes, Reply, chain, rows, Inv, TypeOK,
        TellsTheTruth, RowOK, Replies, StateOK
<1>7. QED
    BY LocalStep, <1>3, <1>4, <1>5, <1>6

(* A check that decides to fail a payment has seen its deadline pass.       *)
LEMMA CheckExpiredInv ==
    ASSUME Inv, NEW t \in Handlers, NEW p \in Payments, CheckExpired(t, p)
    PROVE  Inv'
<1>1. handler[t] \in HandlerState /\ StateOK(handler[t])
    BY DEF Inv, TypeOK
<1>2. PICK g : g = [Idle EXCEPT !.pc = "save_first", !.job = p,
                                 !.status = "failed"]
    OBVIOUS
<1>3. g \in HandlerState
    BY <1>1, <1>2, PaymentsAssumption, NumbersAssumption
       DEF CheckExpired, IsExpired, Idle, HandlerState, ProgramPoints, StateOK,
           Inv, TypeOK
<1>4. StateOK(g)
    BY <1>1, <1>2, PaymentsAssumption
       DEF CheckExpired, IsExpired, Idle, StateOK, HandlerState, Funded,
           Succeeding, Published, Inv,
           TypeOK, RowOK, Takes
<1>5. handler' = [handler EXCEPT ![t] = g]
    BY <1>1, <1>2 DEF CheckExpired, Takes, Inv, TypeOK, HandlerState
<1>6. /\ UNCHANGED <<now, rows, paid, inTime, wallet, published>>
      /\ sweeping' \subseteq Crypto /\ todo' \subseteq Crypto /\ faults' \in Nat
      /\ replied' \subseteq (Payments \X Replies) /\ TellsTheTruth'
    BY <1>1 DEF CheckExpired, Takes, chain, rows, Inv, TypeOK, TellsTheTruth,
        RowOK, Replies, StateOK
<1>7. QED
    BY LocalStep, <1>3, <1>4, <1>5, <1>6

(* A check that goes on to the balance holds no decision yet.               *)
LEMMA CheckLiveInv ==
    ASSUME Inv, NEW t \in Handlers, NEW p \in Payments, CheckLive(t, p)
    PROVE  Inv'
<1>1. handler[t] \in HandlerState /\ StateOK(handler[t])
    BY DEF Inv, TypeOK
<1>2. PICK g : g = [Idle EXCEPT !.pc = "balance", !.job = p]
    OBVIOUS
<1>3. g \in HandlerState
    BY <1>1, <1>2, PaymentsAssumption, NumbersAssumption
       DEF CheckLive, Idle, HandlerState, ProgramPoints, StateOK, Inv, TypeOK
<1>4. StateOK(g)
    BY <1>1, <1>2, PaymentsAssumption
       DEF CheckLive, Idle, StateOK, HandlerState, Funded, Succeeding,
           Published, Inv,
           TypeOK, RowOK, Takes
<1>5. handler' = [handler EXCEPT ![t] = g]
    BY <1>1, <1>2 DEF CheckLive, Takes, Inv, TypeOK, HandlerState
<1>6. /\ UNCHANGED <<now, rows, paid, inTime, wallet, published>>
      /\ sweeping' \subseteq Crypto /\ todo' \subseteq Crypto /\ faults' \in Nat
      /\ replied' \subseteq (Payments \X Replies) /\ TellsTheTruth'
    BY <1>1 DEF CheckLive, Takes, chain, rows, Inv, TypeOK, TellsTheTruth,
        RowOK, Replies, StateOK
<1>7. QED
    BY LocalStep, <1>3, <1>4, <1>5, <1>6

(* A confirmation that starts has a fully charged payment in hand.          *)
LEMMA ConfirmPendingInv ==
    ASSUME Inv, NEW t \in Handlers, NEW p \in Payments, ConfirmPending(t, p)
    PROVE  Inv'
<1>1. handler[t] \in HandlerState /\ StateOK(handler[t])
    BY DEF Inv, TypeOK
<1>2. PICK g : g = [Idle EXCEPT !.pc = "read_subscription", !.job = p,
                                 !.status = "succeeded"]
    OBVIOUS
<1>3. g \in HandlerState
    BY <1>1, <1>2, PaymentsAssumption, NumbersAssumption
       DEF ConfirmPending, Idle, HandlerState, ProgramPoints, StateOK, Inv,
           TypeOK
<1>4. StateOK(g)
    BY <1>1, <1>2, PaymentsAssumption
       DEF ConfirmPending, Idle, StateOK, HandlerState, Funded, Succeeding,
           Published, Inv,
           TypeOK, RowOK, Takes
<1>5. handler' = [handler EXCEPT ![t] = g]
    BY <1>1, <1>2 DEF ConfirmPending, Takes, Inv, TypeOK, HandlerState
<1>6. /\ UNCHANGED <<now, rows, paid, inTime, wallet, published>>
      /\ sweeping' \subseteq Crypto /\ todo' \subseteq Crypto /\ faults' \in Nat
      /\ replied' \subseteq (Payments \X Replies) /\ TellsTheTruth'
    BY <1>1 DEF ConfirmPending, Takes, chain, rows, Inv, TypeOK, TellsTheTruth,
        RowOK, Replies, StateOK
<1>7. QED
    BY LocalStep, <1>3, <1>4, <1>5, <1>6

(* Confirming a settled Stars payment announces what is active already.     *)
LEMMA ConfirmSettledInv ==
    ASSUME Inv, NEW t \in Handlers, NEW p \in Payments, ConfirmSettled(t, p)
    PROVE  Inv'
<1>1. handler[t] \in HandlerState /\ StateOK(handler[t])
    BY DEF Inv, TypeOK
<1>2. PICK g : g = handler[t]
    OBVIOUS
<1>3. g \in HandlerState
    BY <1>1, <1>2, PaymentsAssumption, NumbersAssumption
       DEF ConfirmSettled, HandlerState, ProgramPoints, StateOK, Inv, TypeOK
<1>4. StateOK(g)
    BY <1>1, <1>2, PaymentsAssumption
       DEF ConfirmSettled, StateOK, HandlerState, Funded, Succeeding, Published,
           Inv,
           TypeOK, RowOK, Takes
<1>5. handler' = [handler EXCEPT ![t] = g]
    BY <1>1, <1>2 DEF ConfirmSettled, Takes, Reply, Inv, TypeOK, HandlerState
<1>6. /\ UNCHANGED <<now, rows, paid, inTime, wallet, published>>
      /\ sweeping' \subseteq Crypto /\ todo' \subseteq Crypto /\ faults' \in Nat
      /\ replied' \subseteq (Payments \X Replies) /\ TellsTheTruth'
    BY <1>1 DEF ConfirmSettled, Takes, Reply, chain, rows, Inv, TypeOK,
        TellsTheTruth, RowOK, Replies, StateOK
<1>7. QED
    BY LocalStep, <1>3, <1>4, <1>5, <1>6

(* A check passes the balance only when the whole price was received.       *)
LEMMA BalanceSufficientInv ==
    ASSUME Inv, NEW t \in Handlers, BalanceSufficient(t)
    PROVE  Inv'
<1>1. handler[t] \in HandlerState /\ StateOK(handler[t])
    BY DEF Inv, TypeOK
<1>0. handler[t].job \in Payments /\ paid[handler[t].job] >= Price
    <2>1. handler[t].job \in Payments /\ wallet[handler[t].job] >= Price
        BY <1>1 DEF BalanceSufficient, HasSufficientPayment, StateOK
    <2>2. wallet[handler[t].job] <= paid[handler[t].job]
        BY <2>1 DEF Inv, RowOK
    <2>3. QED
        BY <2>1, <2>2, NumbersAssumption DEF Inv, TypeOK
<1>2. PICK g : g = [handler[t] EXCEPT !.pc = "sweep"]
    OBVIOUS
<1>3. g \in HandlerState
    BY <1>0, <1>1, <1>2, PaymentsAssumption, NumbersAssumption
       DEF BalanceSufficient, HasSufficientPayment, HandlerState, ProgramPoints,
           StateOK, Inv, TypeOK
<1>4. StateOK(g)
    BY <1>0, <1>1, <1>2, PaymentsAssumption
       DEF BalanceSufficient, HasSufficientPayment, StateOK, HandlerState,
           Funded, Succeeding, Published, Inv,
           TypeOK, RowOK, Takes
<1>5. handler' = [handler EXCEPT ![t] = g]
    BY <1>1, <1>2 DEF BalanceSufficient, Goto, Inv, TypeOK, HandlerState
<1>6. /\ UNCHANGED <<now, rows, paid, inTime, wallet, published>>
      /\ sweeping' \subseteq Crypto /\ todo' \subseteq Crypto /\ faults' \in Nat
      /\ replied' \subseteq (Payments \X Replies) /\ TellsTheTruth'
    BY <1>1 DEF BalanceSufficient, Goto, chain, rows, Inv, TypeOK,
        TellsTheTruth, RowOK, Replies, StateOK
<1>7. QED
    BY LocalStep, <1>3, <1>4, <1>5, <1>6

(* A check that finds too little money leaves everything as it was.         *)
LEMMA BalanceShortInv ==
    ASSUME Inv, NEW t \in Handlers, BalanceShort(t)
    PROVE  Inv'
<1>1. handler[t] \in HandlerState /\ StateOK(handler[t])
    BY DEF Inv, TypeOK
<1>2. PICK g : g = Idle
    OBVIOUS
<1>3. g \in HandlerState
    BY <1>1, <1>2, PaymentsAssumption, NumbersAssumption
       DEF Idle, HandlerState, ProgramPoints, StateOK, Inv, TypeOK
<1>4. StateOK(g)
    BY <1>1, <1>2, PaymentsAssumption
       DEF Idle, StateOK, HandlerState, Funded, Succeeding, Published, Inv,
           TypeOK, RowOK, Takes
<1>5. handler' = [handler EXCEPT ![t] = g]
    BY <1>1, <1>2 DEF BalanceShort, Return, Inv, TypeOK, HandlerState
<1>6. /\ UNCHANGED <<now, rows, paid, inTime, wallet, published>>
      /\ sweeping' \subseteq Crypto /\ todo' \subseteq Crypto /\ faults' \in Nat
      /\ replied' \subseteq (Payments \X Replies) /\ TellsTheTruth'
    BY <1>1 DEF BalanceShort, Return, chain, rows, Inv, TypeOK, TellsTheTruth,
        RowOK, Replies, StateOK
<1>7. QED
    BY LocalStep, <1>3, <1>4, <1>5, <1>6

(* A check that has swept is still working on a funded payment.             *)
LEMMA SweepInv ==
    ASSUME Inv, NEW t \in Handlers, Sweep(t)
    PROVE  Inv'
<1>1. handler[t] \in HandlerState /\ StateOK(handler[t])
    BY DEF Inv, TypeOK
<1>2. PICK g : g = [handler[t] EXCEPT !.pc = "read_subscription", !.status = "succeeded"]
    OBVIOUS
<1>3. g \in HandlerState
    BY <1>1, <1>2, PaymentsAssumption, NumbersAssumption
       DEF Sweep, SendSweep, HandlerState, ProgramPoints, StateOK, Inv, TypeOK
<1>4. StateOK(g)
    BY <1>1, <1>2, PaymentsAssumption
       DEF Sweep, SendSweep, StateOK, HandlerState, Funded, Succeeding, Published, Inv,
           TypeOK, RowOK, Takes
<1>5. handler' = [handler EXCEPT ![t] = g]
    BY <1>1, <1>2 DEF Sweep, SendSweep, Inv, TypeOK, HandlerState
<1>6. /\ UNCHANGED <<now, rows, paid, inTime, wallet, published>>
      /\ sweeping' \subseteq Crypto /\ todo' \subseteq Crypto /\ faults' \in Nat
      /\ replied' \subseteq (Payments \X Replies) /\ TellsTheTruth'
    BY <1>1 DEF Sweep, SendSweep, chain, rows, Inv, TypeOK, TellsTheTruth, RowOK, Replies,
        StateOK
<1>7. QED
    BY LocalStep, <1>3, <1>4, <1>5, <1>6

(* A failed sweep ends the check and leaves the rows alone.                 *)
LEMMA SweepFailsInv ==
    ASSUME Inv, NEW t \in Handlers, SweepFails(t)
    PROVE  Inv'
<1>1. handler[t] \in HandlerState /\ StateOK(handler[t])
    BY DEF Inv, TypeOK
<1>2. PICK g : g = Idle
    OBVIOUS
<1>3. g \in HandlerState
    BY <1>1, <1>2, PaymentsAssumption, NumbersAssumption
       DEF Idle, HandlerState, ProgramPoints, StateOK, Inv, TypeOK
<1>4. StateOK(g)
    BY <1>1, <1>2, PaymentsAssumption
       DEF Idle, StateOK, HandlerState, Funded, Succeeding, Published, Inv,
           TypeOK, RowOK, Takes
<1>5. handler' = [handler EXCEPT ![t] = g]
    BY <1>1, <1>2 DEF SweepFails, Return, Inv, TypeOK, HandlerState
<1>6. /\ UNCHANGED <<now, rows, paid, inTime, wallet, published>>
      /\ sweeping' \subseteq Crypto /\ todo' \subseteq Crypto /\ faults' \in Nat
      /\ replied' \subseteq (Payments \X Replies) /\ TellsTheTruth'
    BY <1>1 DEF SweepFails, Return, chain, rows, Inv, TypeOK, TellsTheTruth,
        RowOK, Replies, StateOK
<1>7. QED
    BY LocalStep, <1>3, <1>4, <1>5, <1>6

(* Activating the subscription in memory touches no row.                    *)
LEMMA ReadSubscriptionInv ==
    ASSUME Inv, NEW t \in Handlers, ReadSubscription(t)
    PROVE  Inv'
<1>1. handler[t] \in HandlerState /\ StateOK(handler[t])
    BY DEF Inv, TypeOK
<1>0. handler[t].job \in Payments /\ Activated(handler[t].job) \in Nat
    <2>1. handler[t].job \in Payments
        BY <1>1 DEF ReadSubscription, StateOK
    <2>2. expires[handler[t].job] \in Nat /\ now \in Nat
        BY <2>1 DEF Inv, TypeOK
    <2>3. QED
        BY <2>1, <2>2, NumbersAssumption DEF Activated
<1>2. PICK g : g = [handler[t] EXCEPT !.pc = "save_first",
                                       !.expires = Activated(handler[t].job)]
    OBVIOUS
<1>3. g \in HandlerState
    BY <1>0, <1>1, <1>2, PaymentsAssumption, NumbersAssumption
       DEF ReadSubscription, HandlerState, ProgramPoints, StateOK, Inv, TypeOK
<1>4. StateOK(g)
    BY <1>0, <1>1, <1>2, PaymentsAssumption
       DEF ReadSubscription, StateOK, HandlerState, Funded, Succeeding,
           Published, Inv,
           TypeOK, RowOK, Takes
<1>5. handler' = [handler EXCEPT ![t] = g]
    BY <1>1, <1>2 DEF ReadSubscription, Inv, TypeOK, HandlerState
<1>6. /\ UNCHANGED <<now, rows, paid, inTime, wallet, published>>
      /\ sweeping' \subseteq Crypto /\ todo' \subseteq Crypto /\ faults' \in Nat
      /\ replied' \subseteq (Payments \X Replies) /\ TellsTheTruth'
    BY <1>1 DEF ReadSubscription, chain, rows, Inv, TypeOK, TellsTheTruth,
        RowOK, Replies, StateOK
<1>7. QED
    BY LocalStep, <1>3, <1>4, <1>5, <1>6

(* The first save() marks the columns of its row that still differ.         *)
LEMMA SaveFirstInv ==
    ASSUME Inv, NEW t \in Handlers, SaveFirst(t)
    PROVE  Inv'
<1>1. handler[t] \in HandlerState /\ StateOK(handler[t])
    BY DEF Inv, TypeOK
<1>2. PICK g : g = [handler[t] EXCEPT 
              !.pc = IF handler[t].status = "failed" THEN "commit" ELSE "save_second",
              !.dirty = Changed(t) \cap FirstSaved(t)]
    OBVIOUS
<1>3. g \in HandlerState
    BY <1>1, <1>2, PaymentsAssumption, NumbersAssumption
       DEF SaveFirst, Changed, FirstSaved, Columns, PaymentColumn,
           SubscriptionColumns, HandlerState, ProgramPoints, StateOK, Inv,
           TypeOK
<1>4. StateOK(g)
    BY <1>1, <1>2, PaymentsAssumption
       DEF SaveFirst, Changed, FirstSaved, Columns, PaymentColumn,
           SubscriptionColumns, StateOK, HandlerState, Funded, Succeeding,
           Published, Inv,
           TypeOK, RowOK, Takes
<1>5. handler' = [handler EXCEPT ![t] = g]
    BY <1>1, <1>2 DEF SaveFirst, Inv, TypeOK, HandlerState
<1>6. /\ UNCHANGED <<now, rows, paid, inTime, wallet, published>>
      /\ sweeping' \subseteq Crypto /\ todo' \subseteq Crypto /\ faults' \in Nat
      /\ replied' \subseteq (Payments \X Replies) /\ TellsTheTruth'
    BY <1>1 DEF SaveFirst, chain, rows, Inv, TypeOK, TellsTheTruth, RowOK,
        Replies, StateOK
<1>7. QED
    BY LocalStep, <1>3, <1>4, <1>5, <1>6

(* After the second save() the commit leaves out no column it has to write. *)
LEMMA SaveSecondInv ==
    ASSUME Inv, NEW t \in Handlers, SaveSecond(t)
    PROVE  Inv'
<1>1. handler[t] \in HandlerState /\ StateOK(handler[t])
    BY DEF Inv, TypeOK
<1>2. PICK g : g = [handler[t] EXCEPT !.pc = "commit",
                  !.dirty = @ \cup (Changed(t) \cap SecondSaved(t))]
    OBVIOUS
<1>3. g \in HandlerState
    BY <1>1, <1>2, PaymentsAssumption, NumbersAssumption
       DEF SaveSecond, Changed, SecondSaved, FirstSaved, Columns, PaymentColumn,
           SubscriptionColumns, HandlerState, ProgramPoints, StateOK, Inv,
           TypeOK
<1>4. StateOK(g)
    BY <1>1, <1>2, PaymentsAssumption
       DEF SaveSecond, Changed, SecondSaved, FirstSaved, Columns, PaymentColumn,
           SubscriptionColumns, StateOK, HandlerState, Funded, Succeeding,
           Published, Inv,
           TypeOK, RowOK, Takes
<1>5. handler' = [handler EXCEPT ![t] = g]
    BY <1>1, <1>2 DEF SaveSecond, Inv, TypeOK, HandlerState
<1>6. /\ UNCHANGED <<now, rows, paid, inTime, wallet, published>>
      /\ sweeping' \subseteq Crypto /\ todo' \subseteq Crypto /\ faults' \in Nat
      /\ replied' \subseteq (Payments \X Replies) /\ TellsTheTruth'
    BY <1>1 DEF SaveSecond, chain, rows, Inv, TypeOK, TellsTheTruth, RowOK,
        Replies, StateOK
<1>7. QED
    BY LocalStep, <1>3, <1>4, <1>5, <1>6

(* A handler that is rolled back leaves the rows as they were.              *)
LEMMA InterruptInv ==
    ASSUME Inv, NEW t \in Handlers, Interrupt(t)
    PROVE  Inv'
<1>1. handler[t] \in HandlerState /\ StateOK(handler[t])
    BY DEF Inv, TypeOK
<1>2. PICK g : g = Idle
    OBVIOUS
<1>3. g \in HandlerState
    BY <1>1, <1>2, PaymentsAssumption, NumbersAssumption
       DEF Idle, HandlerState, ProgramPoints, StateOK, Inv, TypeOK
<1>4. StateOK(g)
    BY <1>1, <1>2, PaymentsAssumption
       DEF Idle, StateOK, HandlerState, Funded, Succeeding, Published, Inv,
           TypeOK, RowOK, Takes
<1>5. handler' = [handler EXCEPT ![t] = g]
    BY <1>1, <1>2 DEF Interrupt, Return, Inv, TypeOK, HandlerState
<1>6. /\ UNCHANGED <<now, rows, paid, inTime, wallet, published>>
      /\ sweeping' \subseteq Crypto /\ todo' \subseteq Crypto /\ faults' \in Nat
      /\ replied' \subseteq (Payments \X Replies) /\ TellsTheTruth'
    BY <1>1 DEF Interrupt, Return, chain, rows, Inv, TypeOK, TellsTheTruth,
        RowOK, Replies, StateOK
<1>7. QED
    BY LocalStep, <1>3, <1>4, <1>5, <1>6

-----------------------------------------------------------------------------
(* The commits.  Both write through CommitRows.                             *)

(* The commit of a success leaves the payment with an active subscription.  *)
LEMMA CommitSucceededInv ==
    ASSUME Inv, NEW t \in Handlers, CommitSucceeded(t)
    PROVE  Inv'
<1>1. handler[t] \in HandlerState /\ StateOK(handler[t])
    BY DEF Inv, TypeOK
<1>2. PICK h \in HandlerState : h = handler[t]
    BY <1>1
<1>3. PICK g : g = [h EXCEPT !.pc = "publish_succeeded"]
    OBVIOUS
<1>4. g \in HandlerState
    BY <1>2, <1>3 DEF HandlerState, ProgramPoints
<1>5. /\ h.job \in Payments /\ h.pc = "commit" /\ h.status = "succeeded"
      /\ payment[h.job] # "none" /\ Funded(h.job)
      /\ "subscriptions.status" \in h.dirty \/ subscription[h.job] = "active"
    BY <1>1, <1>2 DEF CommitSucceeded, StateOK
<1>6. handler' = [handler EXCEPT ![t] = g]
    BY <1>2, <1>3 DEF CommitSucceeded, Goto, Inv, TypeOK, HandlerState
<1>7. TypeOK'
    <2>1. handler' \in [Handlers -> HandlerState]
        BY <1>4, <1>6 DEF Inv, TypeOK
    <2>2. h.expires \in Nat
        BY DEF HandlerState
    <2>3. QED
        BY <1>2, <1>5, <2>1, <2>2 DEF CommitSucceeded, CommitRows, Inv, TypeOK,
            chain
<1>8. subscription'[h.job] = "active"
    BY <1>2, <1>5 DEF CommitSucceeded, CommitRows, Inv, TypeOK
<1>9. Monotone
    BY <1>2, <1>5 DEF CommitSucceeded, CommitRows, Inv, TypeOK, Monotone, chain
<1>10. StateOK(g)'
    <2>1. payment'[h.job] # "none" /\ paid' = paid
        BY <1>2, <1>5 DEF CommitSucceeded, CommitRows, Inv, TypeOK, chain
    <2>2. g.pc = "publish_succeeded" /\ g.job = h.job /\ g.status = "succeeded"
        BY <1>3, <1>5 DEF HandlerState
    <2>3. QED
        BY <1>5, <1>8, <2>1, <2>2 DEF StateOK, Funded, Succeeding, Published
<1>11. \A p \in Payments : RowOK(p)'
    <2>1. SUFFICES ASSUME NEW p \in Payments PROVE RowOK(p)'
        OBVIOUS
    <2>2. RowOK(p)
        BY DEF Inv
    <2>3. CASE p = h.job
        <3>1. payment'[p] \in {payment[p], "succeeded"}
            BY <1>2, <1>5, <2>3 DEF CommitSucceeded, CommitRows, Inv, TypeOK
        <3>2. QED
            BY <1>5, <1>8, <2>2, <2>3, <3>1
               DEF CommitSucceeded, RowOK, Funded, chain
    <2>4. CASE p # h.job
        <3>1. payment'[p] = payment[p] /\ subscription'[p] = subscription[p]
            BY <1>2, <2>4 DEF CommitSucceeded, CommitRows, Inv, TypeOK
        <3>2. QED
            BY <2>2, <3>1 DEF CommitSucceeded, RowOK, Funded, chain
    <2>5. QED
        BY <2>3, <2>4
<1>12. TellsTheTruth'
    BY <1>9 DEF CommitSucceeded, Inv, TellsTheTruth, Monotone
<1>13. QED
    BY HandlerStep, <1>4, <1>6, <1>7, <1>9, <1>10, <1>11, <1>12

(* The commit of a failure touches only a payment past its deadline.        *)
LEMMA CommitFailedInv ==
    ASSUME Inv, NEW t \in Handlers, CommitFailed(t)
    PROVE  Inv'
<1>1. handler[t] \in HandlerState /\ StateOK(handler[t])
    BY DEF Inv, TypeOK
<1>2. PICK h \in HandlerState : h = handler[t]
    BY <1>1
<1>3. /\ h.job \in Crypto /\ h.job \in Payments /\ h.pc = "commit"
      /\ h.status = "failed" /\ now > deadline[h.job] /\ payment[h.job] # "none"
      /\ h.dirty \subseteq {PaymentColumn}
    BY <1>1, <1>2 DEF CommitFailed, StateOK
<1>4. UNCHANGED <<now, deadline, subscription, expires, paid, wallet>>
    BY <1>2, <1>3 DEF CommitFailed, CommitRows, PaymentColumn, chain
<1>5. /\ payment' \in [Payments -> {"none", "pending", "succeeded", "failed"}]
      /\ payment'[h.job] \in {payment[h.job], "failed"}
      /\ \A p \in Payments : p # h.job => payment'[p] = payment[p]
    BY <1>2, <1>3 DEF CommitFailed, CommitRows, Inv, TypeOK
<1>6. PICK g \in HandlerState : g = Idle
    BY <1>1, PaymentsAssumption DEF Idle, HandlerState, ProgramPoints
<1>7. handler' = [handler EXCEPT ![t] = g]
    BY <1>6 DEF CommitFailed, Return
<1>8. /\ replied' \subseteq (Payments \X Replies)
      /\ \A p \in Payments : <<p, "succeeded">> \in replied' => <<p, "succeeded">> \in replied
    BY <1>2, <1>3 DEF CommitFailed, Reply, Replies, Inv, TypeOK
<1>9. TypeOK'
    <2>1. handler' \in [Handlers -> HandlerState]
        BY <1>6, <1>7 DEF Inv, TypeOK
    <2>2. QED
        BY <1>4, <1>5, <1>8, <2>1 DEF CommitFailed, Inv, TypeOK, chain
<1>10. Monotone
    BY <1>3, <1>4, <1>5 DEF Monotone, Inv, TypeOK
<1>11. StateOK(g)'
    BY <1>6 DEF StateOK, Idle, Succeeding, Published
<1>12. \A p \in Payments : RowOK(p)'
    <2>1. SUFFICES ASSUME NEW p \in Payments PROVE RowOK(p)'
        OBVIOUS
    <2>2. RowOK(p)
        BY DEF Inv
    <2>3. QED
        BY <1>3, <1>4, <1>5, <2>2 DEF RowOK, Funded
<1>13. TellsTheTruth'
    BY <1>4, <1>8 DEF CommitFailed, Inv, TellsTheTruth
<1>14. QED
    BY HandlerStep, <1>6, <1>7, <1>9, <1>10, <1>11, <1>12, <1>13

-----------------------------------------------------------------------------
(* Publishing, and the death of the process.                                *)

(* PaymentSucceeded is published after the activation was committed.        *)
LEMMA PublishSucceededInv ==
    ASSUME Inv, NEW t \in Handlers, PublishSucceeded(t)
    PROVE  Inv'
<1>1. handler[t] \in HandlerState /\ StateOK(handler[t])
    BY DEF Inv, TypeOK
<1>2. PICK g : g = [handler[t] EXCEPT !.pc = "publish_activated"]
    OBVIOUS
<1>3. g \in HandlerState
    BY <1>1, <1>2 DEF HandlerState, ProgramPoints
<1>4. handler' = [handler EXCEPT ![t] = g]
    BY <1>1, <1>2 DEF PublishSucceeded, Goto, Inv, TypeOK, HandlerState
<1>5. handler[t].job \in Payments /\ subscription[handler[t].job] = "active"
    BY <1>1 DEF PublishSucceeded, StateOK, Published
<1>6. TypeOK'
    <2>1. handler' \in [Handlers -> HandlerState]
        BY <1>3, <1>4 DEF Inv, TypeOK
    <2>2. QED
        BY <1>5, <2>1 DEF PublishSucceeded, Events, Inv, TypeOK, rows, chain
<1>7. Monotone
    BY DEF PublishSucceeded, Inv, TypeOK, Monotone, rows, chain
<1>8. StateOK(g)
    BY <1>1, <1>2 DEF PublishSucceeded, StateOK, HandlerState, Succeeding,
        Published
<1>9. StateOK(g)'
    BY StateKept, <1>3, <1>6, <1>7, <1>8 DEF Inv
<1>10. \A p \in Payments : RowOK(p)'
    BY DEF PublishSucceeded, Inv, RowOK, Funded, rows, chain
<1>11. TellsTheTruth'
    BY <1>5 DEF PublishSucceeded, Inv, TellsTheTruth, rows
<1>12. QED
    BY HandlerStep, <1>3, <1>4, <1>6, <1>7, <1>9, <1>10, <1>11

(* SubscriptionActivated and the reply follow the committed activation.     *)
LEMMA PublishActivatedInv ==
    ASSUME Inv, NEW t \in Handlers, PublishActivated(t)
    PROVE  Inv'
<1>1. handler[t] \in HandlerState /\ StateOK(handler[t])
    BY DEF Inv, TypeOK
<1>2. PICK g \in HandlerState : g = Idle
    BY PaymentsAssumption DEF Idle, HandlerState, ProgramPoints
<1>3. handler' = [handler EXCEPT ![t] = g]
    BY <1>2 DEF PublishActivated, Return
<1>4. handler[t].job \in Payments /\ subscription[handler[t].job] = "active"
    BY <1>1 DEF PublishActivated, StateOK, Published
<1>5. TypeOK'
    <2>1. handler' \in [Handlers -> HandlerState]
        BY <1>2, <1>3 DEF Inv, TypeOK
    <2>2. QED
        BY <1>4, <2>1
           DEF PublishActivated, Reply, Events, Replies, Inv, TypeOK, rows,
               chain
<1>6. Monotone
    BY DEF PublishActivated, Inv, TypeOK, Monotone, rows, chain
<1>7. StateOK(g)'
    BY <1>2 DEF StateOK, Idle, Succeeding, Published
<1>8. \A p \in Payments : RowOK(p)'
    BY DEF PublishActivated, Inv, RowOK, Funded, rows, chain
<1>9. TellsTheTruth'
    BY <1>4 DEF PublishActivated, Reply, Inv, TellsTheTruth, rows
<1>10. QED
    BY HandlerStep, <1>2, <1>3, <1>5, <1>6, <1>7, <1>8, <1>9

(* A restart forgets every handler and keeps the rows.                      *)
LEMMA RestartInv ==
    ASSUME Inv, Restart
    PROVE  Inv'
<1>1. Idle \in HandlerState /\ StateOK(Idle)'
    BY PaymentsAssumption
       DEF Idle, HandlerState, ProgramPoints, StateOK, Succeeding, Published
<1>2. TypeOK'
    BY <1>1 DEF Restart, Inv, TypeOK, rows, chain
<1>3. \A t \in Handlers : StateOK(handler[t])'
    BY <1>1 DEF Restart, StateOK, Funded
<1>4. (\A p \in Payments : RowOK(p)') /\ TellsTheTruth'
    BY DEF Restart, Inv, RowOK, Funded, TellsTheTruth, rows, chain
<1>5. QED
    BY <1>2, <1>3, <1>4 DEF Inv

-----------------------------------------------------------------------------
(* Inv holds before the first payment.                                      *)
LEMMA InitInv == Init => Inv
BY PaymentsAssumption, NumbersAssumption
   DEF Init, Inv, TypeOK, StateOK, RowOK, TellsTheTruth, Idle, HandlerState,
       ProgramPoints, Funded, Succeeding, Published

(* Every step of the service and of the world around it preserves Inv.      *)
LEMMA NextInv == Inv /\ [Next]_vars => Inv'
<1>1. SUFFICES ASSUME Inv, [Next]_vars PROVE Inv'
    OBVIOUS
<1>2. CASE World
    BY <1>1, <1>2, TickInv, DepositInv, ChargeInv, SweepMinedInv,
        SweepDroppedInv
       DEF World
<1>3. CASE \E p \in Payments : CreatePayment(p) \/ CreateCryptoPayment(p)
    BY <1>1, <1>3, CreatePaymentInv, CreateCryptoPaymentInv
<1>4. CASE ListPending
    BY <1>1, <1>4, ListPendingInv
<1>5. CASE \E t \in Handlers, p \in Payments : Begin(t, p)
    BY <1>1, <1>5, CheckSettledInv, CheckExpiredInv, CheckLiveInv,
        ConfirmPendingInv,
       ConfirmSettledInv DEF Begin
<1>6. CASE \E t \in Handlers : Proceed(t)
    BY <1>1, <1>6, BalanceSufficientInv, BalanceShortInv, SweepInv,
        SweepFailsInv,
       ReadSubscriptionInv, SaveFirstInv, SaveSecondInv, CommitSucceededInv,
       CommitFailedInv, PublishSucceededInv, PublishActivatedInv DEF Proceed
<1>7. CASE \E t \in Handlers : Interrupt(t)
    BY <1>1, <1>7, InterruptInv
<1>8. CASE Restart
    BY <1>1, <1>8, RestartInv
<1>9. CASE UNCHANGED vars
    BY <1>1, <1>9
       DEF vars, rows, chain, Inv, TypeOK, StateOK, RowOK, TellsTheTruth, Funded
<1>10. QED
    BY <1>1, <1>2, <1>3, <1>4, <1>5, <1>6, <1>7, <1>8, <1>9 DEF Next

(* Inv is an invariant of the payment service.                              *)
THEOREM Invariance == Spec => []Inv
BY InitInv, NextInv, PTL DEF Spec

(* Every variable keeps its type.                                           *)
THEOREM TypeCorrect == Spec => []TypeOK
<1>1. Inv => TypeOK
    BY DEF Inv
<1>2. QED
    BY Invariance, <1>1, PTL

(* A succeeded payment has an active subscription, however many handlers    *)
(* check and confirm it side by side.                                       *)
THEOREM SettledTogetherCorrect == Spec => []SettledTogether
<1>1. Inv => SettledTogether
    BY DEF Inv, RowOK, SettledTogether
<1>2. QED
    BY Invariance, <1>1, PTL

(* No crypto payment fails within the time its user was given, no Stars     *)
(* payment fails at all.                                                    *)
THEOREM NeverFailedEarlyCorrect == Spec => []NeverFailedEarly
<1>1. Inv => NeverFailedEarly
    BY DEF Inv, RowOK, NeverFailedEarly
<1>2. QED
    BY Invariance, <1>1, PTL

-----------------------------------------------------------------------------
(* The service implements PaidAccess.  The three abstract sets:             *)
PaidSet == {p \in Payments : paid[p] >= Price}
AccessSet == {p \in Payments : subscription[p] = "active"}
AnnouncedSet == {p \in Payments : \/ \E e \in Events : <<p, e>> \in published
                                  \/ <<p, "succeeded">> \in replied}

(* Money only arrives, for one payment at a time.                           *)
LEMMA MoneyArrives ==
    ASSUME Inv, NEW p \in Payments, NEW x \in Nat, paid' = [paid EXCEPT ![p] = x],
           x >= paid[p], UNCHANGED <<subscription, published, replied>>
    PROVE  [Promise!Next]_(Promise!vars)
<1>1. PaidSet' \in {PaidSet, PaidSet \cup {p}}
    BY NumbersAssumption DEF PaidSet, Inv, TypeOK
<1>2. UNCHANGED <<AccessSet, AnnouncedSet>>
    BY DEF AccessSet, AnnouncedSet
<1>3. Promise!Pay(p) \/ UNCHANGED Promise!vars
    BY <1>1, <1>2 DEF PaidSet, AccessSet, AnnouncedSet, Promise!Pay,
        Promise!vars
<1>4. QED
    BY <1>3 DEF Promise!Next

(* A subscription is activated, after its payment was funded.               *)
LEMMA AccessOpens ==
    ASSUME Inv, NEW p \in Payments, Funded(p),
           \A q \in Payments : (subscription'[q] = "active") <=>
               (subscription[q] = "active" \/ (q = p /\ subscription'[p] = "active")),
           UNCHANGED <<paid, published, replied>>
    PROVE  [Promise!Next]_(Promise!vars)
<1>1. AccessSet' \in {AccessSet, AccessSet \cup {p}}
    BY DEF AccessSet
<1>2. UNCHANGED <<PaidSet, AnnouncedSet>> /\ p \in PaidSet
    BY DEF PaidSet, AnnouncedSet, Funded
<1>3. Promise!Open(p) \/ UNCHANGED Promise!vars
    BY <1>1, <1>2 DEF PaidSet, AccessSet, AnnouncedSet, Promise!Open,
        Promise!vars
<1>4. QED
    BY <1>3 DEF Promise!Next

(* Somebody is told, after the activation was committed.                    *)
LEMMA NewsIsTold ==
    ASSUME Inv, NEW p \in Payments, subscription[p] = "active" \/ UNCHANGED AnnouncedSet,
           AnnouncedSet' \in {AnnouncedSet, AnnouncedSet \cup {p}},
           UNCHANGED <<paid, subscription>>
    PROVE  [Promise!Next]_(Promise!vars)
<1>1. UNCHANGED <<PaidSet, AccessSet>>
    BY DEF PaidSet, AccessSet
<1>2. Promise!Announce(p) \/ UNCHANGED Promise!vars
    BY <1>1 DEF PaidSet, AccessSet, AnnouncedSet, Promise!Announce, Promise!vars
<1>3. QED
    BY <1>2 DEF Promise!Next

(* A step that moves no money, opens nothing and tells nobody is a stutter. *)
LEMMA NothingSeen ==
    ASSUME UNCHANGED <<paid, subscription, published, replied>>
    PROVE  [Promise!Next]_(Promise!vars)
BY DEF Promise!vars

(* A step of the world pays for one purchase or is not seen.                *)
LEMMA WorldPromise ==
    ASSUME Inv, World
    PROVE  [Promise!Next]_(Promise!vars)
<1>1. CASE Tick \/ \E p \in Payments : SweepMined(p) \/ SweepDropped(p)
    BY <1>1, NothingSeen DEF Tick, SweepMined, SweepDropped, rows, chain
<1>2. ASSUME NEW p \in Payments, NEW amount \in 1..Price, Deposit(p, amount)
      PROVE  [Promise!Next]_(Promise!vars)
    <2>1. paid[p] \in Nat /\ paid[p] + amount \in Nat /\ paid[p] + amount >= paid[p]
        BY NumbersAssumption DEF Inv, TypeOK
    <2>2. /\ paid' = [paid EXCEPT ![p] = paid[p] + amount]
          /\ UNCHANGED <<subscription, published, replied>>
        BY <1>2 DEF Deposit, rows
    <2>3. QED
        BY <2>1, <2>2, MoneyArrives
<1>3. ASSUME NEW p \in Payments, Charge(p)
      PROVE  [Promise!Next]_(Promise!vars)
    <2>1. /\ paid' = [paid EXCEPT ![p] = Price]
          /\ UNCHANGED <<subscription, published, replied>>
        BY <1>3 DEF Charge, rows
    <2>2. Price \in Nat /\ Price >= paid[p]
        BY <1>3, NumbersAssumption DEF Charge
    <2>3. QED
        BY <2>1, <2>2, MoneyArrives
<1>4. QED
    BY <1>1, <1>2, <1>3 DEF World

(* A call that starts repeats settled news or is not seen.                  *)
LEMMA BeginPromise ==
    ASSUME Inv, NEW t \in Handlers, NEW p \in Payments, Begin(t, p)
    PROVE  [Promise!Next]_(Promise!vars)
<1>1. CASE CheckExpired(t, p) \/ CheckLive(t, p) \/ ConfirmPending(t, p)
    BY <1>1, NothingSeen DEF CheckExpired, CheckLive, ConfirmPending, rows,
        chain
<1>2. CASE CheckSettled(t, p)
    <2>1. payment[p] = "succeeded" => subscription[p] = "active"
        BY DEF Inv, RowOK
    <2>2. UNCHANGED <<paid, subscription, published>>
        BY <1>2 DEF CheckSettled, rows, chain
    <2>3. /\ AnnouncedSet' \in {AnnouncedSet, AnnouncedSet \cup {p}}
          /\ payment[p] # "succeeded" => UNCHANGED AnnouncedSet
        BY <1>2, <2>2 DEF CheckSettled, Reply, AnnouncedSet
    <2>4. QED
        BY <2>1, <2>2, <2>3, NewsIsTold
<1>3. CASE ConfirmSettled(t, p)
    <2>1. UNCHANGED <<paid, subscription, published>>
        BY <1>3 DEF ConfirmSettled, rows, chain
    <2>2. UNCHANGED AnnouncedSet
        BY <1>3, <2>1 DEF ConfirmSettled, Reply, AnnouncedSet
    <2>3. QED
        BY <2>1, <2>2, NewsIsTold
<1>4. QED
    BY <1>1, <1>2, <1>3 DEF Begin

(* A step of a handler opens or announces one purchase, or is not seen.     *)
LEMMA ProceedPromise ==
    ASSUME Inv, NEW t \in Handlers, Proceed(t)
    PROVE  [Promise!Next]_(Promise!vars)
<1>1. CASE \/ BalanceSufficient(t) \/ BalanceShort(t) \/ Sweep(t) \/ SweepFails(t)
           \/ ReadSubscription(t) \/ SaveFirst(t) \/ SaveSecond(t)
    BY <1>1, NothingSeen
       DEF BalanceSufficient, BalanceShort, Sweep, SendSweep, SweepFails, ReadSubscription,
           SaveFirst, SaveSecond, rows, chain
<1>2. StateOK(handler[t])
    BY DEF Inv
<1>3. CASE CommitSucceeded(t)
    <2>1. PICK p \in Payments : p = handler[t].job /\ Funded(p)
        BY <1>2, <1>3 DEF CommitSucceeded, StateOK
    <2>2. UNCHANGED <<paid, published, replied>>
        BY <1>3 DEF CommitSucceeded, chain
    <2>3. \A q \in Payments : (subscription'[q] = "active") <=>
              (subscription[q] = "active" \/ (q = p /\ subscription'[p] = "active"))
        BY <1>3, <2>1 DEF CommitSucceeded, CommitRows, Inv, TypeOK
    <2>4. QED
        BY <2>1, <2>2, <2>3, AccessOpens
<1>4. CASE CommitFailed(t)
    <2>1. PICK p \in Payments : p = handler[t].job
        BY <1>2, <1>4 DEF CommitFailed, StateOK
    <2>2. handler[t].dirty \subseteq {PaymentColumn}
        BY <1>2, <1>4 DEF CommitFailed, StateOK
    <2>3. UNCHANGED <<paid, subscription, published>>
        BY <1>4, <2>2 DEF CommitFailed, CommitRows, chain, PaymentColumn
    <2>4. UNCHANGED AnnouncedSet
        BY <1>4, <2>1, <2>3 DEF CommitFailed, Reply, AnnouncedSet
    <2>5. QED
        BY <2>3, <2>4, NewsIsTold
<1>5. CASE PublishSucceeded(t) \/ PublishActivated(t)
    <2>1. PICK p \in Payments : p = handler[t].job /\ subscription[p] = "active"
        BY <1>2, <1>5 DEF PublishSucceeded, PublishActivated, StateOK, Published
    <2>2. UNCHANGED <<paid, subscription>>
        BY <1>5 DEF PublishSucceeded, PublishActivated, rows, chain
    <2>3. AnnouncedSet' = AnnouncedSet \cup {p}
        BY <1>5, <2>1
           DEF PublishSucceeded, PublishActivated, Reply, AnnouncedSet, Events
    <2>4. QED
        BY <2>1, <2>2, <2>3, NewsIsTold
<1>6. QED
    BY <1>1, <1>3, <1>4, <1>5 DEF Proceed

(* Creating the rows of a payment is not seen.                              *)
LEMMA CreatePromise ==
    ASSUME Inv, NEW p \in Payments, CreatePayment(p) \/ CreateCryptoPayment(p)
    PROVE  [Promise!Next]_(Promise!vars)
<1>1. subscription[p] = "none" /\ UNCHANGED <<paid, published, replied>>
    BY DEF CreatePayment, CreateCryptoPayment, CreateRows, Inv, RowOK, chain
<1>2. subscription' = [subscription EXCEPT ![p] = "pending"]
    BY DEF CreatePayment, CreateCryptoPayment, CreateRows
<1>3. UNCHANGED AccessSet
    BY <1>1, <1>2 DEF AccessSet, Inv, TypeOK
<1>4. UNCHANGED <<PaidSet, AnnouncedSet>>
    BY <1>1 DEF PaidSet, AnnouncedSet
<1>5. QED
    BY <1>3, <1>4 DEF PaidSet, AccessSet, AnnouncedSet, Promise!vars

(* The service starts where PaidAccess does.                                *)
LEMMA PromiseInit == Init => Promise!Init
BY NumbersAssumption DEF Init, Promise!Init

(* A step of the service is one of PaidAccess, or is not seen there.        *)
LEMMA PromiseStep ==
    ASSUME Inv, [Next]_vars
    PROVE  [Promise!Next]_(Promise!vars)
<1>1. CASE World
    BY <1>1, WorldPromise
<1>2. CASE \E p \in Payments : CreatePayment(p) \/ CreateCryptoPayment(p)
    BY <1>2, CreatePromise
<1>3. CASE \E t \in Handlers, p \in Payments : Begin(t, p)
    BY <1>3, BeginPromise
<1>4. CASE \E t \in Handlers : Proceed(t)
    BY <1>4, ProceedPromise
<1>5. CASE \/ ListPending \/ Restart \/ (\E t \in Handlers : Interrupt(t))
           \/ UNCHANGED vars
    BY <1>5, NothingSeen DEF ListPending, Restart, Interrupt, vars, rows, chain
<1> QED BY <1>1, <1>2, <1>3, <1>4, <1>5 DEF Next

(* Every behaviour of the service is one of PaidAccess: money, then access, *)
(* then the news, and access is never taken back.                           *)
THEOREM Implementation == Spec => AccessFollowsMoney
<1>1. Init => Promise!Init
    BY PromiseInit
<1>2. Inv /\ [Next]_vars => [Promise!Next]_(Promise!vars)
    BY PromiseStep
<1> QED BY <1>1, <1>2, Invariance, PTL DEF Spec, AccessFollowsMoney, Promise!Spec

-----------------------------------------------------------------------------
(* How far a payment's period can reach.  Each handler that works on it     *)
(* while others do can prolong the period once; a settled payment gets no   *)
(* new ones.                                                                *)
Settled == {"succeeded", "failed"}

Racing(p) == {t \in Handlers : handler[t].job = p /\ handler[t].pc \notin Published}

(* What the handlers that no longer work on p may have granted it.          *)
Granted(p) == PlanDays * (Cardinality(Handlers) - Cardinality(Racing(p)))

(* A success about to be committed settles the payment, or finds it         *)
(* settled.                                                                 *)
SettlesOK(h) ==
    \/ h.pc = "commit" /\ h.status = "succeeded"
    \/ h.pc = "save_second" /\ h.job \in Stars
    => PaymentColumn \in h.dirty \/ payment[h.job] \in Settled

RaceOK(p) ==
    /\ expires[p] <= IF payment[p] \in Settled THEN now + Granted(p) ELSE 0
    /\ \A t \in Racing(p) :
           handler[t].expires <= now + PlanDays
                                   + (IF payment[p] \in Settled THEN Granted(p) ELSE 0)

RaceInv ==
    /\ Inv
    /\ \A t \in Handlers : SettlesOK(handler[t])
    /\ \A p \in Payments : RaceOK(p)

(* The racing handlers are a finite set, and never more than there are.     *)
LEMMA RacingSize ==
    ASSUME NEW p
    PROVE  /\ IsFiniteSet(Racing(p))
           /\ Cardinality(Racing(p)) \in Nat /\ Cardinality(Handlers) \in Nat
           /\ Cardinality(Racing(p)) <= Cardinality(Handlers)
<1>1. IsFiniteSet(Handlers)
    BY TasksAssumption, FS_Singleton, FS_Union DEF Handlers
<1>2. Racing(p) \subseteq Handlers
    BY DEF Racing
<1> QED BY <1>1, <1>2, FS_Subset, FS_CardinalityType

(* Multiples of a period.                                                   *)
LEMMA PeriodsGrow ==
    ASSUME NEW m \in Nat, NEW n \in Nat, m <= n
    PROVE  /\ PlanDays * m \in Nat
           /\ PlanDays * m <= PlanDays * n
           /\ PlanDays * (m + 1) = PlanDays * m + PlanDays
<1>1. PICK d \in Nat : d = PlanDays
    BY NumbersAssumption
<1>2. d * (n - m) >= 0
    BY <1>1
<1>3. d * n = d * m + d * (n - m)
    BY <1>1
<1> QED BY <1>1, <1>2, <1>3

(* What is granted is a natural number, grows when handlers leave, and by a *)
(* whole period when a handler leaves that others do not follow into it.    *)
LEMMA GrantedGrows ==
    ASSUME NEW p
    PROVE  /\ Granted(p) \in Nat
           /\ Granted(p) <= PlanDays * Cardinality(Handlers)
           /\ Racing(p)' \subseteq Racing(p) => Granted(p)' \in Nat /\ Granted(p)' >= Granted(p)
           /\ \A t \in Racing(p) :
                Racing(p)' = Racing(p) \ {t} => Granted(p)' = Granted(p) + PlanDays
<1>1. PICK n \in Nat, k \in Nat : n = Cardinality(Handlers) /\ k = Cardinality(Racing(p)) /\ k <= n
    BY RacingSize
<1>2. Granted(p) = PlanDays * (n - k) /\ n - k \in Nat /\ n - k <= n
    BY <1>1 DEF Granted
<1>3. Granted(p) \in Nat /\ Granted(p) <= PlanDays * n
    BY <1>1, <1>2, PeriodsGrow
<1>4. ASSUME Racing(p)' \subseteq Racing(p)
      PROVE  Granted(p)' \in Nat /\ Granted(p)' >= Granted(p)
    <2>1. PICK j \in Nat : j = Cardinality(Racing(p)') /\ j <= k
        BY <1>1, <1>4, RacingSize, FS_Subset, FS_CardinalityType
    <2>2. n - j \in Nat /\ n - k <= n - j
        BY <1>1, <2>1
    <2>3. PlanDays * (n - k) <= PlanDays * (n - j) /\ PlanDays * (n - j) \in Nat
        BY <1>2, <2>2, PeriodsGrow
    <2>4. Granted(p)' = PlanDays * (n - j)
        BY <1>1, <2>1 DEF Granted, Handlers
    <2> QED BY <1>2, <2>3, <2>4
<1>5. ASSUME NEW t \in Racing(p), Racing(p)' = Racing(p) \ {t}
      PROVE  Granted(p)' = Granted(p) + PlanDays
    <2>1. Cardinality(Racing(p)') = k - 1
        BY <1>1, <1>5, RacingSize, FS_RemoveElement
    <2>2. Granted(p)' = PlanDays * (n - (k - 1))
        BY <1>1, <2>1 DEF Granted, Handlers
    <2>3. n - (k - 1) = (n - k) + 1
        BY <1>1
    <2> QED BY <1>2, <2>2, <2>3, PeriodsGrow
<1> QED BY <1>1, <1>3, <1>4, <1>5

(* A step that leaves p's rows alone, lets nobody join once p is settled,   *)
(* and gives no handler a later end date, keeps the bound.                  *)
LEMMA RaceKept ==
    ASSUME Inv, Inv', NEW p \in Payments, RaceOK(p), now' >= now,
           expires'[p] = expires[p],
           payment'[p] \in Settled <=> payment[p] \in Settled,
           payment[p] \in Settled => Racing(p)' \subseteq Racing(p),
           \A t \in Racing(p)' :
               \/ handler'[t].expires = 0
               \/ t \in Racing(p) /\ handler'[t].expires = handler[t].expires
    PROVE  RaceOK(p)'
<1>1. now \in Nat /\ now' \in Nat /\ PlanDays \in Nat /\ Granted(p) \in Nat
    BY GrantedGrows, NumbersAssumption DEF Inv, TypeOK
<1>2. payment[p] \in Settled => Granted(p)' \in Nat /\ Granted(p)' >= Granted(p)
    BY GrantedGrows
<1>3. expires[p] \in Nat
    BY DEF Inv, TypeOK
<1>4. \A t \in Racing(p) : t \in Handlers /\ handler[t].expires \in Nat
    BY DEF Inv, TypeOK, HandlerState, Racing
<1>5. expires'[p] <= IF payment'[p] \in Settled THEN now' + Granted(p)' ELSE 0
    BY <1>1, <1>2, <1>3 DEF RaceOK
<1>6. ASSUME NEW t \in Racing(p)'
      PROVE  handler'[t].expires <= now' + PlanDays
                                      + (IF payment'[p] \in Settled THEN Granted(p)' ELSE 0)
    <2>1. CASE handler'[t].expires = 0
        BY <1>1, <1>2, <2>1
    <2>2. CASE t \in Racing(p) /\ handler'[t].expires = handler[t].expires
        BY <1>1, <1>2, <1>4, <2>2 DEF RaceOK
    <2> QED BY <1>6, <2>1, <2>2
<1> QED BY <1>5, <1>6 DEF RaceOK

(* A handler keeps what it knows of its payment's row while others move.    *)
LEMMA SettlesKept ==
    ASSUME Inv, NEW h \in HandlerState, SettlesOK(h),
           h.job \in Payments => (payment[h.job] \in Settled => payment'[h.job] \in Settled),
           h.pc # "idle" => h.job \in Payments
    PROVE  SettlesOK(h)'
BY DEF SettlesOK, Settled

(* A step of one handler that writes no row: the handler starts on a        *)
(* pending payment, goes on with the end date it has, or leaves.            *)
LEMMA MoverStep ==
    ASSUME RaceInv, Inv', NEW t \in Handlers, NEW g \in HandlerState,
           handler' = [handler EXCEPT ![t] = g],
           UNCHANGED <<now, payment, expires>>, SettlesOK(g),
           \/ g.job \notin Payments \/ g.pc \in Published
           \/ g.expires = 0 /\ payment[g.job] = "pending"
           \/ /\ g.job = handler[t].job /\ handler[t].pc \notin Published
              /\ g.expires = handler[t].expires
    PROVE  RaceInv'
<1>1. /\ handler \in [Handlers -> HandlerState] /\ handler'[t] = g
      /\ \A u \in Handlers : u # t => handler'[u] = handler[u]
    BY DEF RaceInv, Inv, TypeOK
<1>2. now' = now /\ payment' = payment /\ expires' = expires
    OBVIOUS
<1>3. \A u \in Handlers : SettlesOK(handler[u])'
    BY <1>1, <1>2 DEF RaceInv, SettlesOK
<1>4. ASSUME NEW p \in Payments PROVE RaceOK(p)'
    <2>1. payment[p] \in Settled => Racing(p)' \subseteq Racing(p)
        BY <1>1 DEF Racing, Settled
    <2>2. \A u \in Racing(p)' :
              \/ handler'[u].expires = 0
              \/ u \in Racing(p) /\ handler'[u].expires = handler[u].expires
        BY <1>1 DEF Racing
    <2>3. now \in Nat /\ now' >= now
        BY <1>2 DEF RaceInv, Inv, TypeOK
    <2> QED BY <1>2, <2>1, <2>2, <2>3, RaceKept DEF RaceInv
<1> QED BY <1>3, <1>4 DEF RaceInv

(* A step in which no handler moves and no period changes.                  *)
LEMMA OutsideStep ==
    ASSUME RaceInv, Inv', handler' = handler, expires' = expires, now' >= now,
           \A p \in Payments : payment'[p] \in Settled <=> payment[p] \in Settled
    PROVE  RaceInv'
<1>1. \A u \in Handlers : SettlesOK(handler[u])'
    <2> SUFFICES ASSUME NEW u \in Handlers PROVE SettlesOK(handler[u])'
        OBVIOUS
    <2>1. handler[u] \in HandlerState /\ StateOK(handler[u]) /\ SettlesOK(handler[u])
        BY DEF RaceInv, Inv, TypeOK
    <2> QED BY <2>1 DEF SettlesOK, StateOK
<1>2. ASSUME NEW p \in Payments PROVE RaceOK(p)'
    <2>1. Racing(p)' = Racing(p)
        BY DEF Racing
    <2> QED BY <2>1, RaceKept DEF RaceInv
<1> QED BY <1>1, <1>2 DEF RaceInv

(* A call starts on a pending payment, or finds it settled and ends.        *)
LEMMA BeginRace ==
    ASSUME RaceInv, Inv', NEW t \in Handlers, NEW p \in Payments, Begin(t, p)
    PROVE  RaceInv'
<1>1. UNCHANGED <<now, payment, expires>> /\ now \in Nat
    BY DEF Begin, CheckSettled, CheckExpired, CheckLive, ConfirmPending, ConfirmSettled, rows,
           RaceInv, Inv, TypeOK
<1>2. CASE CheckSettled(t, p) \/ ConfirmSettled(t, p)
    BY <1>1, <1>2, OutsideStep DEF CheckSettled, ConfirmSettled
<1>3. CASE CheckExpired(t, p)
    <2>1. PICK g : g = [Idle EXCEPT !.pc = "save_first", !.job = p, !.status = "failed"]
        OBVIOUS
    <2>2. /\ g \in HandlerState /\ g.pc = "save_first" /\ g.job = p /\ g.expires = 0
        BY <2>1 DEF Idle, HandlerState, ProgramPoints
    <2>3. handler' = [handler EXCEPT ![t] = g] /\ payment[p] = "pending"
        BY <1>3, <2>1 DEF CheckExpired
    <2>4. SettlesOK(g)
        BY <2>2 DEF SettlesOK
    <2> QED BY <1>1, <2>2, <2>3, <2>4, MoverStep
<1>4. CASE CheckLive(t, p)
    <2>1. PICK g : g = [Idle EXCEPT !.pc = "balance", !.job = p]
        OBVIOUS
    <2>2. /\ g \in HandlerState /\ g.pc = "balance" /\ g.job = p /\ g.expires = 0
        BY <2>1 DEF Idle, HandlerState, ProgramPoints
    <2>3. handler' = [handler EXCEPT ![t] = g] /\ payment[p] = "pending"
        BY <1>4, <2>1 DEF CheckLive
    <2>4. SettlesOK(g)
        BY <2>2 DEF SettlesOK
    <2> QED BY <1>1, <2>2, <2>3, <2>4, MoverStep
<1>5. CASE ConfirmPending(t, p)
    <2>1. PICK g : g = [Idle EXCEPT !.pc = "read_subscription", !.job = p, !.status = "succeeded"]
        OBVIOUS
    <2>2. /\ g \in HandlerState /\ g.pc = "read_subscription" /\ g.job = p /\ g.expires = 0
        BY <2>1 DEF Idle, HandlerState, ProgramPoints
    <2>3. handler' = [handler EXCEPT ![t] = g] /\ payment[p] = "pending"
        BY <1>5, <2>1 DEF ConfirmPending
    <2>4. SettlesOK(g)
        BY <2>2 DEF SettlesOK
    <2> QED BY <1>1, <2>2, <2>3, <2>4, MoverStep
<1> QED BY <1>2, <1>3, <1>4, <1>5 DEF Begin

(* A handler that is gone.                                                  *)
LEMMA LeavesRace ==
    ASSUME RaceInv, Inv', NEW t \in Handlers, Return(t), UNCHANGED <<now, payment, expires>>
    PROVE  RaceInv'
<1>1. PICK g : g = Idle
    OBVIOUS
<1>2. g \in HandlerState /\ g.job \notin Payments /\ SettlesOK(g)
    BY <1>1, PaymentsAssumption DEF Idle, HandlerState, ProgramPoints, SettlesOK
<1>3. handler' = [handler EXCEPT ![t] = g]
    BY <1>1 DEF Return
<1> QED BY <1>2, <1>3, MoverStep

(* The steps that neither start, end, nor read or write a row: the second   *)
(* save() of a confirmation, and both of a check, see what their commit has *)
(* to write.                                                                *)
LEMMA GoesOnRace ==
    ASSUME RaceInv, Inv', NEW t \in Handlers,
           \/ BalanceSufficient(t) \/ Sweep(t) \/ SaveFirst(t) \/ SaveSecond(t)
           \/ PublishSucceeded(t)
    PROVE  RaceInv'
<1>1. PICK h \in HandlerState : h = handler[t]
    BY DEF RaceInv, Inv, TypeOK
<1>2. StateOK(h) /\ SettlesOK(h)
    BY <1>1 DEF RaceInv, Inv
<1>3. UNCHANGED <<now, payment, expires>>
    BY DEF BalanceSufficient, Sweep, SaveFirst, SaveSecond, PublishSucceeded, rows
<1>4. CASE BalanceSufficient(t)
    <2>1. PICK g : g = [h EXCEPT !.pc = "sweep"]
        OBVIOUS
    <2>2. /\ g \in HandlerState /\ g.pc = "sweep" /\ g.job = h.job /\ g.expires = h.expires
        BY <1>1, <2>1 DEF HandlerState, ProgramPoints
    <2>3. handler' = [handler EXCEPT ![t] = g] /\ h.pc \notin Published
        BY <1>1, <1>4, <2>1 DEF BalanceSufficient, Goto, Published
    <2>4. SettlesOK(g)
        BY <2>2 DEF SettlesOK
    <2> QED BY <1>1, <1>3, <2>2, <2>3, <2>4, MoverStep
<1>5. CASE Sweep(t)
    <2>1. PICK g : g = [h EXCEPT !.pc = "read_subscription", !.status = "succeeded"]
        OBVIOUS
    <2>2. /\ g \in HandlerState /\ g.pc = "read_subscription" /\ g.job = h.job
          /\ g.expires = h.expires
        BY <1>1, <2>1 DEF HandlerState, ProgramPoints
    <2>3. handler' = [handler EXCEPT ![t] = g] /\ h.pc \notin Published
        BY <1>1, <1>5, <2>1 DEF Sweep, Published
    <2>4. SettlesOK(g)
        BY <2>2 DEF SettlesOK
    <2> QED BY <1>1, <1>3, <2>2, <2>3, <2>4, MoverStep
<1>6. CASE SaveFirst(t)
    <2>1. PICK g : g = [h EXCEPT
              !.pc = IF h.status = "failed" THEN "commit" ELSE "save_second",
              !.dirty = Changed(t) \cap FirstSaved(t)]
        OBVIOUS
    <2>2. /\ g \in HandlerState /\ g.job = h.job /\ g.expires = h.expires
          /\ g.status = h.status /\ g.dirty = Changed(t) \cap FirstSaved(t)
          /\ g.pc = IF h.status = "failed" THEN "commit" ELSE "save_second"
        BY <1>1, <2>1 DEF HandlerState, ProgramPoints, Changed
    <2>3. handler' = [handler EXCEPT ![t] = g] /\ h.pc = "save_first" /\ h.pc \notin Published
        BY <1>1, <1>6, <2>1 DEF SaveFirst, Published
    <2>4. h.status \in {"succeeded", "failed"} /\ h.job \in Payments /\ payment[h.job] # "none"
        BY <1>2, <2>3, <1>1 DEF StateOK, HandlerState
    <2>5. SettlesOK(g)
        <3> SUFFICES ASSUME g.pc = "save_second", g.job \in Stars, payment[g.job] \notin Settled
                     PROVE  PaymentColumn \in g.dirty
            BY <2>2 DEF SettlesOK
        <3>1. h.status = "succeeded" /\ h.job \notin Crypto
            BY <2>2, <2>4, PaymentsAssumption
        <3> QED BY <1>1, <2>2, <3>1 DEF Changed, FirstSaved, Columns, Settled
    <2> QED BY <1>1, <1>3, <2>2, <2>3, <2>5, MoverStep
<1>7. CASE SaveSecond(t)
    <2>1. PICK g : g = [h EXCEPT !.pc = "commit",
                                 !.dirty = @ \cup (Changed(t) \cap SecondSaved(t))]
        OBVIOUS
    <2>2. /\ g \in HandlerState /\ g.job = h.job /\ g.expires = h.expires
          /\ g.status = h.status /\ g.dirty = h.dirty \cup (Changed(t) \cap SecondSaved(t))
          /\ g.pc = "commit"
        BY <1>1, <2>1 DEF HandlerState, ProgramPoints, Changed
    <2>3. handler' = [handler EXCEPT ![t] = g] /\ h.pc = "save_second" /\ h.pc \notin Published
        BY <1>1, <1>7, <2>1 DEF SaveSecond, Published
    <2>4. h.status = "succeeded" /\ h.job \in Payments
        BY <1>2, <2>3 DEF StateOK, Succeeding
    <2>5. SettlesOK(g)
        <3> SUFFICES ASSUME payment[h.job] \notin Settled PROVE PaymentColumn \in g.dirty
            BY <2>2 DEF SettlesOK
        <3>1. CASE h.job \in Stars
            BY <1>2, <2>2, <2>3, <3>1 DEF SettlesOK
        <3>2. CASE h.job \in Crypto
            <4>1. PaymentColumn \in Changed(t)
                BY <1>1, <2>4 DEF Changed, Columns, Settled
            <4>2. PaymentColumn \in SecondSaved(t)
                BY <1>1, <2>4, <3>2
                   DEF SecondSaved, FirstSaved, Columns, SubscriptionColumns, PaymentColumn
            <4> QED BY <2>2, <4>1, <4>2
        <3> QED BY <2>4, <3>1, <3>2 DEF Payments
    <2> QED BY <1>1, <1>3, <2>2, <2>3, <2>5, MoverStep
<1>8. CASE PublishSucceeded(t)
    <2>1. PICK g : g = [h EXCEPT !.pc = "publish_activated"]
        OBVIOUS
    <2>2. g \in HandlerState /\ g.pc = "publish_activated" /\ g.pc \in Published
        BY <1>1, <2>1 DEF HandlerState, ProgramPoints, Published
    <2>3. handler' = [handler EXCEPT ![t] = g]
        BY <1>1, <1>8, <2>1 DEF PublishSucceeded, Goto
    <2>4. SettlesOK(g)
        BY <2>2 DEF SettlesOK
    <2> QED BY <1>3, <2>2, <2>3, <2>4, MoverStep
<1> QED BY <1>4, <1>5, <1>6, <1>7, <1>8

(* The period is taken from the row and prolonged by one plan: what the row *)
(* holds is what others were granted.                                       *)
LEMMA ReadRace ==
    ASSUME RaceInv, Inv', NEW t \in Handlers, ReadSubscription(t)
    PROVE  RaceInv'
<1>1. PICK h \in HandlerState : h = handler[t]
    BY DEF RaceInv, Inv, TypeOK
<1>2. /\ h.pc = "read_subscription" /\ h.job \in Payments
      /\ handler \in [Handlers -> HandlerState]
      /\ expires \in [Payments -> Nat] /\ now \in Nat /\ PlanDays \in Nat
    BY <1>1, NumbersAssumption DEF ReadSubscription, RaceInv, Inv, StateOK, TypeOK
<1>3. /\ now' = now /\ payment' = payment /\ expires' = expires
      /\ handler' = [handler EXCEPT ![t] = [h EXCEPT !.pc = "save_first",
                                                     !.expires = Activated(h.job)]]
    BY <1>1 DEF ReadSubscription, rows
<1>4. PICK g : g = [h EXCEPT !.pc = "save_first", !.expires = Activated(h.job)]
    OBVIOUS
<1>5. g.pc = "save_first" /\ g.job = h.job /\ g.expires = Activated(h.job)
    BY <1>1, <1>4 DEF HandlerState
<1>6. handler'[t] = g /\ \A u \in Handlers : u # t => handler'[u] = handler[u]
    BY <1>2, <1>3, <1>4
<1>7. \A p : Racing(p)' = Racing(p)
    BY <1>1, <1>2, <1>5, <1>6 DEF Racing, Published
<1>8. \A p : Granted(p)' = Granted(p)
    BY <1>7 DEF Granted, Handlers
<1>9. \A u \in Handlers : SettlesOK(handler[u])'
    BY <1>3, <1>5, <1>6 DEF RaceInv, SettlesOK
<1>10. ASSUME NEW p \in Payments PROVE RaceOK(p)'
    <2>1. RaceOK(p)
        BY DEF RaceInv
    <2>2. expires'[p] <= IF payment'[p] \in Settled THEN now' + Granted(p)' ELSE 0
        BY <1>3, <1>8, <2>1 DEF RaceOK
    <2>3. ASSUME NEW u \in Racing(p)'
          PROVE  handler'[u].expires <= now' + PlanDays
                                          + (IF payment'[p] \in Settled THEN Granted(p)' ELSE 0)
        <3>1. CASE u # t
            BY <1>3, <1>6, <1>7, <1>8, <2>1, <2>3, <3>1 DEF RaceOK, Racing
        <3>2. CASE u = t
            <4>1. p = h.job
                BY <1>5, <1>6, <2>3, <3>2 DEF Racing
            <4>2. expires[p] \in Nat /\ Granted(p) \in Nat
                BY <1>2, GrantedGrows
            <4>3. Activated(p) <= now + PlanDays
                                    + (IF payment[p] \in Settled THEN Granted(p) ELSE 0)
                BY <1>2, <2>1, <4>2 DEF RaceOK, Activated
            <4> QED BY <1>3, <1>5, <1>6, <1>8, <3>2, <4>1, <4>3
        <3> QED BY <3>1, <3>2
    <2> QED BY <2>2, <2>3 DEF RaceOK
<1> QED BY <1>9, <1>10 DEF RaceInv

(* A commit: the handlers still racing keep their end dates, a settled      *)
(* payment stays settled, and a period is only written by a handler that    *)
(* leaves and settles the payment.                                          *)
LEMMA CommitRace ==
    ASSUME Inv, Inv', NEW p \in Payments, RaceOK(p), now' = now,
           Racing(p)' \subseteq Racing(p),
           \A u \in Racing(p)' : handler'[u] = handler[u],
           payment[p] \in Settled => payment'[p] \in Settled,
           \/ expires'[p] = expires[p]
           \/ /\ payment'[p] \in Settled
              /\ \E t \in Racing(p) : /\ Racing(p)' = Racing(p) \ {t}
                                      /\ expires'[p] = handler[t].expires
    PROVE  RaceOK(p)'
<1>1. /\ now \in Nat /\ PlanDays \in Nat /\ expires[p] \in Nat
      /\ Granted(p) \in Nat /\ Granted(p)' \in Nat /\ Granted(p)' >= Granted(p)
    BY GrantedGrows, NumbersAssumption DEF Inv, TypeOK
<1>2. \A u \in Racing(p) : handler[u].expires \in Nat
    BY DEF Inv, TypeOK, HandlerState, Racing
<1>3. expires'[p] <= IF payment'[p] \in Settled THEN now' + Granted(p)' ELSE 0
    <2>1. CASE expires'[p] = expires[p]
        BY <1>1, <2>1 DEF RaceOK
    <2>2. ASSUME NEW t \in Racing(p), payment'[p] \in Settled,
                 Racing(p)' = Racing(p) \ {t}, expires'[p] = handler[t].expires
          PROVE  expires'[p] <= now + Granted(p)'
        <3>1. Granted(p)' = Granted(p) + PlanDays
            BY <2>2, GrantedGrows
        <3> QED BY <1>1, <1>2, <2>2, <3>1 DEF RaceOK
    <2> QED BY <2>1, <2>2
<1>4. ASSUME NEW u \in Racing(p)'
      PROVE  handler'[u].expires <= now' + PlanDays
                                      + (IF payment'[p] \in Settled THEN Granted(p)' ELSE 0)
    BY <1>1, <1>2, <1>4 DEF RaceOK
<1> QED BY <1>3, <1>4 DEF RaceOK

(* The commits.  A handler that leaves adds the one period it was granted   *)
(* to a payment that is settled from now on.                                *)
LEMMA CommitsRace ==
    ASSUME RaceInv, Inv', NEW t \in Handlers, CommitSucceeded(t) \/ CommitFailed(t)
    PROVE  RaceInv'
<1>1. PICK h \in HandlerState : h = handler[t]
    BY DEF RaceInv, Inv, TypeOK
<1>2. /\ h.pc = "commit" /\ h.status \in {"succeeded", "failed"} /\ h.job \in Payments
      /\ h.status = "failed" => h.dirty \subseteq {PaymentColumn}
      /\ StateOK(h) /\ SettlesOK(h)
    BY <1>1 DEF CommitSucceeded, CommitFailed, RaceInv, Inv, StateOK
<1>3. /\ handler \in [Handlers -> HandlerState] /\ handler'[t] \in HandlerState
      /\ payment \in [Payments -> {"none", "pending", "succeeded", "failed"}]
      /\ expires \in [Payments -> Nat]
    BY DEF RaceInv, Inv, TypeOK
<1>4. /\ handler'[t].pc \in Published \cup {"idle"}
      /\ handler'[t].job = h.job \/ handler'[t].job \notin Payments
      /\ \A u \in Handlers : u # t => handler'[u] = handler[u]
    BY <1>1, <1>3, PaymentsAssumption
       DEF CommitSucceeded, CommitFailed, Goto, Return, Idle, Published, HandlerState
<1>5. now' = now
    BY DEF CommitSucceeded, CommitFailed
<1>6. /\ \A p \in Payments : p # h.job => payment'[p] = payment[p] /\ expires'[p] = expires[p]
      /\ payment'[h.job] = IF PaymentColumn \in h.dirty THEN h.status ELSE payment[h.job]
      /\ expires'[h.job] = IF "subscriptions.expires_at" \in h.dirty
                           THEN h.expires ELSE expires[h.job]
    BY <1>1, <1>2, <1>3 DEF CommitSucceeded, CommitFailed, CommitRows
<1>7. \A p \in Payments : payment[p] \in Settled => payment'[p] \in Settled
    BY <1>2, <1>6 DEF Settled
<1>8. \A p \in Payments : Racing(p)' = IF p = h.job THEN Racing(p) \ {t} ELSE Racing(p)
    <2> SUFFICES ASSUME NEW p \in Payments
                 PROVE  Racing(p)' = IF p = h.job THEN Racing(p) \ {t} ELSE Racing(p)
        OBVIOUS
    <2>1. t \notin Racing(p)'
        <3>1. CASE handler'[t].pc \in Published
            BY <3>1 DEF Racing
        <3>2. CASE handler'[t].pc = "idle"
            <4>1. handler'[t].job = NoPayment
                BY <3>2 DEF Inv, StateOK, Idle
            <4> QED BY <4>1, PaymentsAssumption DEF Racing
        <3> QED BY <1>4, <3>1, <3>2
    <2>2. t \in Racing(p) <=> p = h.job
        BY <1>1, <1>2 DEF Racing, Published
    <2>3. \A u \in Handlers : u # t => (u \in Racing(p)' <=> u \in Racing(p))
        BY <1>4 DEF Racing, Handlers
    <2> QED BY <2>1, <2>2, <2>3 DEF Racing, Handlers
<1>9. ASSUME NEW u \in Handlers PROVE SettlesOK(handler[u])'
    <2>1. CASE u = t
        BY <1>4, <2>1 DEF SettlesOK, Published
    <2>2. CASE u # t
        <3>1. handler'[u] = handler[u] /\ StateOK(handler[u]) /\ SettlesOK(handler[u])
            BY <1>4, <2>2 DEF RaceInv, Inv
        <3> QED BY <1>7, <3>1 DEF SettlesOK, StateOK
    <2> QED BY <2>1, <2>2
<1>10. ASSUME NEW p \in Payments PROVE RaceOK(p)'
    <2>1. /\ RaceOK(p) /\ Inv /\ Racing(p)' \subseteq Racing(p)
          /\ \A u \in Racing(p)' : handler'[u] = handler[u]
        <3>1. t \notin Racing(p)'
            BY <1>1, <1>2, <1>8 DEF Racing
        <3> QED BY <1>4, <1>8, <3>1 DEF RaceInv, Racing, Handlers
    <2>2. CASE p # h.job \/ "subscriptions.expires_at" \notin h.dirty
        <3>1. expires'[p] = expires[p]
            BY <1>6, <2>2
        <3> QED BY <1>5, <1>7, <2>1, <3>1, CommitRace
    <2>3. CASE p = h.job /\ "subscriptions.expires_at" \in h.dirty
        <3>1. h.status = "succeeded"
            BY <1>2, <2>3 DEF PaymentColumn
        <3>2. payment'[p] \in Settled
            <4>1. PaymentColumn \in h.dirty \/ payment[h.job] \in Settled
                BY <1>2, <3>1 DEF SettlesOK
            <4> QED BY <1>6, <2>3, <3>1, <4>1 DEF Settled
        <3>3. /\ t \in Racing(p) /\ Racing(p)' = Racing(p) \ {t}
              /\ expires'[p] = handler[t].expires
            BY <1>1, <1>2, <1>6, <1>8, <2>3 DEF Racing, Published
        <3> QED BY <1>5, <1>7, <2>1, <3>2, <3>3, CommitRace
    <2> QED BY <2>2, <2>3
<1> QED BY <1>9, <1>10 DEF RaceInv

(* A restart ends every call before it has written anything.                *)
LEMMA RestartRace ==
    ASSUME RaceInv, Inv', Restart
    PROVE  RaceInv'
<1>1. \A u \in Handlers : handler'[u] = Idle
    BY DEF Restart
<1>2. \A u \in Handlers : SettlesOK(handler[u])'
    BY <1>1 DEF SettlesOK, Idle
<1>3. now' = now /\ payment' = payment /\ expires' = expires /\ now \in Nat
    BY DEF Restart, rows, RaceInv, Inv, TypeOK
<1>4. \A p \in Payments : Racing(p)' = {}
    BY <1>1, PaymentsAssumption DEF Racing, Handlers, Idle
<1>5. \A p \in Payments : RaceOK(p)'
    BY <1>3, <1>4, RaceKept DEF RaceInv
<1> QED BY <1>2, <1>5 DEF RaceInv

(* The world prolongs nothing, and a payment just created is not settled.   *)
LEMMA WorldRace ==
    ASSUME RaceInv, Inv',
           \/ World \/ ListPending \/ UNCHANGED vars
           \/ \E p \in Payments : CreatePayment(p) \/ CreateCryptoPayment(p)
    PROVE  RaceInv'
<1>1. now \in Nat /\ payment \in [Payments -> {"none", "pending", "succeeded", "failed"}]
    BY DEF RaceInv, Inv, TypeOK
<1>2. CASE World \/ ListPending \/ UNCHANGED vars
    <2>1. handler' = handler /\ expires' = expires /\ payment' = payment /\ now' >= now
        BY <1>1, <1>2
           DEF World, Tick, Deposit, Charge, SweepMined, SweepDropped, ListPending, vars, rows
    <2> QED BY <2>1, OutsideStep
<1>3. ASSUME NEW q \in Payments, CreatePayment(q) \/ CreateCryptoPayment(q)
      PROVE  RaceInv'
    <2>1. /\ handler' = handler /\ expires' = expires /\ now' >= now
          /\ payment' = [payment EXCEPT ![q] = "pending"] /\ payment[q] = "none"
        BY <1>1, <1>3 DEF CreatePayment, CreateCryptoPayment, CreateRows
    <2>2. \A p \in Payments : payment'[p] \in Settled <=> payment[p] \in Settled
        BY <1>1, <2>1 DEF Settled
    <2> QED BY <2>1, <2>2, OutsideStep
<1> QED BY <1>2, <1>3

(* Nothing races before the first payment.                                  *)
LEMMA RaceInit == Init => RaceInv
<1> SUFFICES ASSUME Init PROVE RaceInv
    OBVIOUS
<1>1. Inv
    BY InitInv
<1>2. \A t \in Handlers : SettlesOK(handler[t])
    BY DEF Init, SettlesOK, Idle
<1>3. ASSUME NEW p \in Payments PROVE RaceOK(p)
    <2>1. Racing(p) = {}
        BY PaymentsAssumption DEF Init, Racing, Idle
    <2> QED BY <2>1 DEF Init, RaceOK, Settled
<1> QED BY <1>1, <1>2, <1>3 DEF RaceInv

(* Every step keeps what is granted within bounds.                          *)
LEMMA RaceNext == RaceInv /\ [Next]_vars => RaceInv'
<1> SUFFICES ASSUME RaceInv, [Next]_vars PROVE RaceInv'
    OBVIOUS
<1>1. Inv'
    BY NextInv DEF RaceInv
<1>2. CASE \/ World \/ ListPending \/ UNCHANGED vars
           \/ \E p \in Payments : CreatePayment(p) \/ CreateCryptoPayment(p)
    BY <1>1, <1>2, WorldRace
<1>3. ASSUME NEW t \in Handlers, NEW p \in Payments, Begin(t, p) PROVE RaceInv'
    BY <1>1, <1>3, BeginRace
<1>4. ASSUME NEW t \in Handlers, Proceed(t) PROVE RaceInv'
    <2>1. CASE BalanceShort(t) \/ SweepFails(t) \/ PublishActivated(t)
        BY <1>1, <2>1, LeavesRace DEF BalanceShort, SweepFails, PublishActivated, rows
    <2>2. CASE \/ BalanceSufficient(t) \/ Sweep(t) \/ SaveFirst(t) \/ SaveSecond(t)
               \/ PublishSucceeded(t)
        BY <1>1, <2>2, GoesOnRace
    <2>3. CASE ReadSubscription(t)
        BY <1>1, <2>3, ReadRace
    <2>4. CASE CommitSucceeded(t) \/ CommitFailed(t)
        BY <1>1, <2>4, CommitsRace
    <2> QED BY <1>4, <2>1, <2>2, <2>3, <2>4 DEF Proceed
<1>5. ASSUME NEW t \in Handlers, Interrupt(t) PROVE RaceInv'
    BY <1>1, <1>5, LeavesRace DEF Interrupt, rows
<1>6. CASE Restart
    BY <1>1, <1>6, RestartRace
<1> QED BY <1>2, <1>3, <1>4, <1>5, <1>6 DEF Next

(* What it says of a payment bounds the end date of its subscription: one   *)
(* period for each handler, which race at most once each.                   *)
LEMMA RaceBound == RaceInv => GrantBounded
<1> SUFFICES ASSUME RaceInv, NEW p \in Payments
             PROVE  expires[p] <= now + PlanDays * Cardinality(Handlers)
    BY DEF GrantBounded
<1>1. PICK g \in Nat : g = Granted(p) /\ g <= PlanDays * Cardinality(Handlers)
    BY GrantedGrows
<1>2. PICK n \in Nat : n = PlanDays * Cardinality(Handlers)
    BY RacingSize, PeriodsGrow
<1>3. now \in Nat /\ expires[p] \in Nat
    BY DEF RaceInv, Inv, TypeOK
<1>4. expires[p] <= IF payment[p] \in Settled THEN now + g ELSE 0
    BY <1>1 DEF RaceInv, RaceOK
<1> QED BY <1>1, <1>2, <1>3, <1>4

(* However many calls race the checker over one payment, they prolong its   *)
(* subscription at most once each: the end date never lies further ahead    *)
(* than one plan per handler.                                               *)
THEOREM GrantBoundedCorrect == Spec => []GrantBounded
<1>1. Spec => []RaceInv
    BY RaceInit, RaceNext, PTL DEF Spec
<1> QED BY <1>1, RaceBound, PTL

-----------------------------------------------------------------------------
(* The checker alone (Tasks = {}).  Nobody settles the payment it works on  *)
(* behind its back, so its commit writes both rows, and as long as no call  *)
(* fails a sweep belongs to a payment that succeeded or is about to.        *)
SoleOK(h) ==
    /\ h.pc # "idle" => h.job \in Crypto
    /\ h.pc \notin {"idle"} \cup Published => payment[h.job] = "pending"
    /\ h.pc \in Published => payment[h.job] = "succeeded"
    /\ h.pc = "commit" /\ h.status = "succeeded" => PaymentColumn \in h.dirty

SweptOK(p) ==
    faults = 0 /\ (p \in sweeping \/ wallet[p] < paid[p]) =>
        \/ payment[p] = "succeeded"
        \/ handler[Checker].job = p /\ handler[Checker].status = "succeeded"

SoleInv ==
    /\ Inv
    /\ OneOutcome
    /\ SoleOK(handler[Checker])
    /\ \A p \in Crypto : SweptOK(p)

(* A step of the checker that writes no row: what it has swept stays with   *)
(* it, or a call failed.                                                    *)
LEMMA SoleStep ==
    ASSUME SoleInv, Inv', NEW g \in HandlerState,
           handler' = [handler EXCEPT ![Checker] = g],
           UNCHANGED <<payment, subscription, paid, wallet>>, SoleOK(g),
           \/ faults' # 0
           \/ /\ faults' = faults
              /\ g.status = "succeeded" \/ sweeping' \subseteq sweeping
              /\ \A p \in Crypto : p \in sweeping' => p \in sweeping \/ p = g.job
              /\ handler[Checker].status = "succeeded" =>
                     \/ handler[Checker].job = g.job /\ g.status = "succeeded"
                     \/ payment[handler[Checker].job] = "succeeded"
    PROVE  SoleInv'
<1>1. handler'[Checker] = g
    BY DEF SoleInv, Inv, TypeOK, Handlers
<1>2. OneOutcome'
    BY DEF SoleInv, OneOutcome
<1>3. SoleOK(handler[Checker])'
    BY <1>1 DEF SoleOK
<1>4. ASSUME NEW p \in Crypto PROVE SweptOK(p)'
    BY <1>1, <1>4 DEF SoleInv, SweptOK
<1> QED BY <1>2, <1>3, <1>4 DEF SoleInv

(* The steps of a check that write no row.                                  *)
LEMMA SoleGoesOn ==
    ASSUME SoleInv, Inv',
           \/ \E p \in Payments : Begin(Checker, p)
           \/ /\ Proceed(Checker)
              /\ ~CommitSucceeded(Checker) /\ ~CommitFailed(Checker)
           \/ Interrupt(Checker)
    PROVE  SoleInv' /\ UNCHANGED <<payment, expires>>
<1> DEFINE t == Checker
<1>1. PICK h \in HandlerState : h = handler[t]
    BY DEF SoleInv, Inv, TypeOK, Handlers
<1>2. /\ t \in Handlers /\ StateOK(h) /\ SoleOK(h) /\ faults \in Nat
      /\ handler \in [Handlers -> HandlerState]
    BY <1>1 DEF SoleInv, Inv, TypeOK, Handlers
<1>3. UNCHANGED <<payment, subscription, expires, paid, wallet>>
    BY DEF Begin, CheckSettled, CheckExpired, CheckLive, ConfirmPending, ConfirmSettled, Proceed,
           BalanceSufficient, BalanceShort, Sweep, SweepFails, ReadSubscription, SaveFirst,
           SaveSecond, PublishSucceeded, PublishActivated, Interrupt, rows, chain
<1>4. ASSUME NEW p \in Payments, Begin(t, p) PROVE SoleInv'
    <2>1. /\ p \in Crypto /\ h.pc = "idle" /\ h = Idle
          /\ UNCHANGED <<sweeping, faults>>
        BY <1>1, <1>2, <1>4
           DEF Begin, CheckSettled, CheckExpired, CheckLive, ConfirmPending, ConfirmSettled,
               Takes, StateOK, chain
    <2>2. PICK g : g = handler'[t]
        OBVIOUS
    <2>3. g \in HandlerState
        BY <1>2, <2>2 DEF Inv, TypeOK
    <2>4. handler' = [handler EXCEPT ![t] = g]
        BY <1>2, <1>4, <2>2
           DEF Begin, CheckSettled, CheckExpired, CheckLive, ConfirmPending, ConfirmSettled
    <2>5. SoleOK(g)
        <3>1. CASE CheckSettled(t, p)
            BY <1>1, <1>2, <2>2, <3>1 DEF CheckSettled
        <3>2. CASE CheckExpired(t, p)
            <4>1. g = [Idle EXCEPT !.pc = "save_first", !.job = p, !.status = "failed"]
                BY <1>2, <2>2, <3>2 DEF CheckExpired
            <4>2. g.pc = "save_first" /\ g.job = p /\ payment[p] = "pending"
                BY <3>2, <4>1 DEF CheckExpired, Idle
            <4> QED BY <2>1, <4>2 DEF SoleOK, Published
        <3>3. CASE CheckLive(t, p)
            <4>1. g = [Idle EXCEPT !.pc = "balance", !.job = p]
                BY <1>2, <2>2, <3>3 DEF CheckLive
            <4>2. g.pc = "balance" /\ g.job = p /\ payment[p] = "pending"
                BY <3>3, <4>1 DEF CheckLive, Idle
            <4> QED BY <2>1, <4>2 DEF SoleOK, Published
        <3> QED BY <1>4, <3>1, <3>2, <3>3 DEF Begin, ConfirmPending, ConfirmSettled
    <2>6. h.status # "succeeded"
        BY <2>1 DEF Idle
    <2> QED BY <1>1, <1>3, <2>1, <2>3, <2>4, <2>5, <2>6, SoleStep
<1>5. ASSUME Return(t) PROVE handler' = [handler EXCEPT ![t] = Idle] /\ SoleOK(Idle)
                             /\ Idle \in HandlerState
    BY <1>5 DEF Return, SoleOK, Idle, Published, HandlerState, ProgramPoints
<1>6. CASE BalanceShort(t)
    <2>1. h.status # "succeeded"
        BY <1>1, <1>2, <1>6 DEF BalanceShort, StateOK
    <2>2. Return(t) /\ UNCHANGED <<faults, sweeping>>
        BY <1>6 DEF BalanceShort, chain
    <2> QED BY <1>1, <1>3, <1>5, <2>1, <2>2, SoleStep
<1>7. CASE SweepFails(t)
    <2>1. h.status # "succeeded"
        BY <1>1, <1>2, <1>7 DEF SweepFails, StateOK
    <2>2. Return(t) /\ (faults' # 0 \/ UNCHANGED <<faults, sweeping>>)
        BY <1>2, <1>7 DEF SweepFails
    <2> QED BY <1>1, <1>3, <1>5, <2>1, <2>2, SoleStep
<1>8. CASE Interrupt(t)
    <2>1. Return(t) /\ faults' # 0
        BY <1>2, <1>8 DEF Interrupt
    <2> QED BY <1>1, <1>3, <1>5, <2>1, SoleStep
<1>9. CASE PublishActivated(t)
    <2>1. payment[h.job] = "succeeded"
        BY <1>1, <1>2, <1>9 DEF PublishActivated, SoleOK, Published
    <2>2. Return(t) /\ UNCHANGED <<faults, sweeping>>
        BY <1>9 DEF PublishActivated, chain
    <2> QED BY <1>1, <1>3, <1>5, <2>1, <2>2, SoleStep
<1>10. CASE BalanceSufficient(t)
    <2>1. PICK g : g = [h EXCEPT !.pc = "sweep"]
        OBVIOUS
    <2>2. g \in HandlerState /\ g.pc = "sweep" /\ g.job = h.job /\ g.status = h.status
        BY <2>1 DEF HandlerState, ProgramPoints
    <2>3. /\ handler' = [handler EXCEPT ![t] = g] /\ h.pc = "balance"
          /\ UNCHANGED <<faults, sweeping>>
        BY <1>1, <1>10, <2>1 DEF BalanceSufficient, Goto, chain
    <2>4. SoleOK(g)
        BY <1>2, <2>2, <2>3 DEF SoleOK, Published
    <2> QED BY <1>1, <1>3, <2>2, <2>3, <2>4, SoleStep
<1>11. CASE Sweep(t)
    <2>1. PICK g : g = [h EXCEPT !.pc = "read_subscription", !.status = "succeeded"]
        OBVIOUS
    <2>2. /\ g \in HandlerState /\ g.pc = "read_subscription" /\ g.job = h.job
          /\ g.status = "succeeded"
        BY <2>1 DEF HandlerState, ProgramPoints
    <2>3. /\ handler' = [handler EXCEPT ![t] = g] /\ h.pc = "sweep" /\ faults' = faults
          /\ sweeping' = sweeping \cup {h.job}
        BY <1>1, <1>11, <2>1 DEF Sweep, SendSweep
    <2>4. SoleOK(g)
        BY <1>2, <2>2, <2>3 DEF SoleOK, Published
    <2> QED BY <1>1, <1>3, <2>2, <2>3, <2>4, SoleStep
<1>12. CASE ReadSubscription(t)
    <2>1. PICK g : g = [h EXCEPT !.pc = "save_first", !.expires = Activated(h.job)]
        OBVIOUS
    <2>2. g.pc = "save_first" /\ g.job = h.job /\ g.status = h.status
        BY <2>1 DEF HandlerState
    <2>3. /\ handler' = [handler EXCEPT ![t] = g] /\ h.pc = "read_subscription"
          /\ UNCHANGED <<faults, sweeping>>
        BY <1>1, <1>12, <2>1 DEF ReadSubscription, chain
    <2>4. SoleOK(g)
        BY <1>2, <2>2, <2>3 DEF SoleOK, Published
    <2>5. g \in HandlerState
        BY <1>2, <2>3 DEF Inv, TypeOK
    <2> QED BY <1>1, <1>3, <2>2, <2>3, <2>4, <2>5, SoleStep
<1>13. CASE SaveFirst(t)
    <2>1. PICK g : g = [h EXCEPT
              !.pc = IF h.status = "failed" THEN "commit" ELSE "save_second",
              !.dirty = Changed(t) \cap FirstSaved(t)]
        OBVIOUS
    <2>2. /\ g.pc = IF h.status = "failed" THEN "commit" ELSE "save_second"
          /\ g.job = h.job /\ g.status = h.status
        BY <2>1 DEF HandlerState
    <2>3. /\ handler' = [handler EXCEPT ![t] = g] /\ h.pc = "save_first"
          /\ UNCHANGED <<faults, sweeping>>
        BY <1>1, <1>13, <2>1 DEF SaveFirst, chain
    <2>4. SoleOK(g)
        BY <1>2, <2>2, <2>3 DEF SoleOK, Published
    <2>5. g \in HandlerState
        BY <1>2, <2>3 DEF Inv, TypeOK
    <2> QED BY <1>1, <1>3, <2>2, <2>3, <2>4, <2>5, SoleStep
<1>14. CASE SaveSecond(t)
    <2>1. PICK g : g = [h EXCEPT !.pc = "commit",
                                 !.dirty = @ \cup (Changed(t) \cap SecondSaved(t))]
        OBVIOUS
    <2>2. /\ g.pc = "commit" /\ g.job = h.job /\ g.status = h.status
          /\ g.dirty = h.dirty \cup (Changed(t) \cap SecondSaved(t))
        BY <2>1 DEF HandlerState
    <2>3. /\ handler' = [handler EXCEPT ![t] = g] /\ h.pc = "save_second"
          /\ UNCHANGED <<faults, sweeping>>
        BY <1>1, <1>14, <2>1 DEF SaveSecond, chain
    <2>4. /\ h.job \in Crypto /\ h.status = "succeeded" /\ payment[h.job] = "pending"
        BY <1>2, <2>3 DEF SoleOK, StateOK, Succeeding, Published
    <2>5. PaymentColumn \in Changed(t) /\ PaymentColumn \in SecondSaved(t)
        BY <1>1, <2>4
           DEF Changed, SecondSaved, FirstSaved, Columns, SubscriptionColumns, PaymentColumn
    <2>6. SoleOK(g)
        BY <2>2, <2>4, <2>5 DEF SoleOK, Published
    <2>7. g \in HandlerState
        BY <1>2, <2>3 DEF Inv, TypeOK
    <2> QED BY <1>1, <1>3, <2>2, <2>3, <2>6, <2>7, SoleStep
<1>15. CASE PublishSucceeded(t)
    <2>1. PICK g : g = [h EXCEPT !.pc = "publish_activated"]
        OBVIOUS
    <2>2. /\ g \in HandlerState /\ g.pc = "publish_activated" /\ g.job = h.job
          /\ g.status = h.status
        BY <2>1 DEF HandlerState, ProgramPoints
    <2>3. /\ handler' = [handler EXCEPT ![t] = g] /\ h.pc = "publish_succeeded"
          /\ UNCHANGED <<faults, sweeping>>
        BY <1>1, <1>15, <2>1 DEF PublishSucceeded, Goto, chain
    <2>4. SoleOK(g)
        BY <1>2, <2>2, <2>3 DEF SoleOK, Published
    <2> QED BY <1>1, <1>3, <2>2, <2>3, <2>4, SoleStep
<1> QED BY <1>3, <1>4, <1>6, <1>7, <1>8, <1>9, <1>10, <1>11, <1>12, <1>13, <1>14, <1>15
        DEF Proceed

(* The checker's commit writes both rows of a payment that was pending.     *)
LEMMA SoleCommits ==
    ASSUME SoleInv, Inv', CommitSucceeded(Checker) \/ CommitFailed(Checker)
    PROVE  /\ SoleInv'
           /\ \A p \in Payments : payment[p] \in Settled =>
                  payment'[p] = payment[p] /\ expires'[p] = expires[p]
<1> DEFINE t == Checker
<1>1. PICK h \in HandlerState : h = handler[t]
    BY DEF SoleInv, Inv, TypeOK, Handlers
<1>2. /\ t \in Handlers /\ StateOK(h) /\ SoleOK(h) /\ h.pc = "commit" /\ OneOutcome
      /\ handler \in [Handlers -> HandlerState]
      /\ payment \in [Payments -> {"none", "pending", "succeeded", "failed"}]
      /\ subscription \in [Payments -> {"none", "pending", "active"}]
      /\ expires \in [Payments -> Nat]
    BY <1>1 DEF SoleInv, Inv, TypeOK, Handlers, CommitSucceeded, CommitFailed
<1>3. /\ h.job \in Crypto /\ h.job \in Payments /\ payment[h.job] = "pending"
      /\ subscription[h.job] # "active"
    BY <1>2 DEF SoleOK, StateOK, OneOutcome, Published
<1>4. /\ h.status \in {"succeeded", "failed"}
      /\ h.status = "succeeded" =>
             PaymentColumn \in h.dirty /\ "subscriptions.status" \in h.dirty
      /\ h.status = "failed" => h.dirty \subseteq {PaymentColumn}
    BY <1>2, <1>3 DEF SoleOK, StateOK, HandlerState
<1>5. /\ \A p \in Payments : p # h.job =>
             /\ payment'[p] = payment[p] /\ expires'[p] = expires[p]
             /\ subscription'[p] = subscription[p]
      /\ payment'[h.job] = IF PaymentColumn \in h.dirty THEN h.status ELSE "pending"
      /\ subscription'[h.job] = IF "subscriptions.status" \in h.dirty
                                THEN "active" ELSE subscription[h.job]
    BY <1>1, <1>2, <1>3 DEF CommitSucceeded, CommitFailed, CommitRows
<1>6. UNCHANGED <<paid, wallet, sweeping, faults>>
    BY DEF CommitSucceeded, CommitFailed, chain
<1>7. OneOutcome'
    BY <1>2, <1>3, <1>4, <1>5 DEF OneOutcome, PaymentColumn
<1>8. SoleOK(handler[t])'
    <2>1. CASE CommitSucceeded(t)
        <3>1. /\ handler'[t].pc = "publish_succeeded" /\ handler'[t].job = h.job
              /\ h.status = "succeeded"
            BY <1>1, <1>2, <2>1 DEF CommitSucceeded, Goto, HandlerState
        <3> QED BY <1>3, <1>4, <1>5, <3>1 DEF SoleOK, Published
    <2>2. CASE CommitFailed(t)
        <3>1. handler'[t] = Idle
            BY <1>2, <2>2 DEF CommitFailed, Return
        <3> QED BY <3>1 DEF SoleOK, Idle, Published
    <2> QED BY <2>1, <2>2
<1>9. ASSUME NEW p \in Crypto PROVE SweptOK(p)'
    <2>1. SweptOK(p) /\ p \in Payments
        BY DEF SoleInv, Payments
    <2>2. CASE p # h.job
        BY <1>1, <1>5, <1>6, <2>1, <2>2 DEF SweptOK
    <2>3. CASE p = h.job
        <3>1. h.status = "succeeded" => payment'[p] = "succeeded"
            BY <1>4, <1>5, <2>3
        <3> QED BY <1>1, <1>3, <1>6, <2>1, <2>3, <3>1 DEF SweptOK
    <2> QED BY <2>2, <2>3
<1> QED BY <1>3, <1>5, <1>7, <1>8, <1>9 DEF SoleInv, Settled

(* The world sends no sweep, a mined one leaves the payment's story as it   *)
(* was, and a new payment is neither settled nor active.                    *)
LEMMA SoleOutside ==
    ASSUME SoleInv, Inv',
           \/ World \/ ListPending \/ Restart \/ UNCHANGED vars
           \/ \E p \in Payments : CreatePayment(p) \/ CreateCryptoPayment(p)
    PROVE  /\ SoleInv'
           /\ \A p \in Payments : payment[p] \in Settled =>
                  payment'[p] = payment[p] /\ expires'[p] = expires[p]
<1>1. /\ handler[Checker] \in HandlerState /\ StateOK(handler[Checker])
      /\ SoleOK(handler[Checker]) /\ Checker \in Handlers
      /\ payment \in [Payments -> {"none", "pending", "succeeded", "failed"}]
      /\ subscription \in [Payments -> {"none", "pending", "active"}]
      /\ paid \in [Payments -> Nat] /\ wallet \in [Payments -> Nat] /\ faults \in Nat
      /\ sweeping \subseteq Crypto /\ Crypto \subseteq Payments
    BY DEF SoleInv, Inv, TypeOK, Handlers, Payments
<1>2. /\ expires' = expires
      /\ \/ handler' = handler
         \/ handler'[Checker] = Idle /\ faults' # 0
    BY <1>1
       DEF World, Tick, Deposit, Charge, SweepMined, SweepDropped, ListPending, Restart, vars,
           rows, CreatePayment, CreateCryptoPayment, CreateRows
<1>3. \A p \in Payments :
          \/ payment'[p] = payment[p] /\ subscription'[p] = subscription[p]
          \/ payment[p] = "none" /\ payment'[p] = "pending" /\ subscription'[p] = "pending"
    <2>1. CASE World \/ ListPending \/ Restart \/ UNCHANGED vars
        BY <2>1
           DEF World, Tick, Deposit, Charge, SweepMined, SweepDropped, ListPending, Restart,
               vars, rows
    <2>2. ASSUME NEW q \in Payments, CreatePayment(q) \/ CreateCryptoPayment(q)
          PROVE  /\ payment[q] = "none"
                 /\ payment' = [payment EXCEPT ![q] = "pending"]
                 /\ subscription' = [subscription EXCEPT ![q] = "pending"]
        BY <2>2 DEF CreatePayment, CreateCryptoPayment, CreateRows
    <2> QED BY <1>1, <2>1, <2>2
<1>4. OneOutcome'
    BY <1>3 DEF SoleInv, Inv, RowOK, OneOutcome
<1>5. SoleOK(handler[Checker])'
    <2>1. CASE handler' = handler
        <3>1. handler[Checker].pc # "idle" =>
                  payment'[handler[Checker].job] = payment[handler[Checker].job]
            BY <1>1, <1>3 DEF StateOK
        <3> QED BY <1>1, <2>1, <3>1 DEF SoleOK, Published
    <2>2. CASE handler'[Checker] = Idle
        BY <2>2 DEF SoleOK, Idle, Published
    <2> QED BY <1>2, <2>1, <2>2
<1>6. ASSUME NEW p \in Crypto PROVE SweptOK(p)'
    <2>1. SweptOK(p) /\ p \in Payments /\ wallet[p] <= paid[p]
        BY <1>1 DEF SoleInv, Inv, RowOK
    <2>2. payment[p] = "succeeded" => payment'[p] = "succeeded"
        BY <1>3, <2>1
    <2>3. CASE Restart
        BY <1>1, <2>3 DEF Restart, SweptOK
    <2>4. CASE ~Restart
        <3>1. handler' = handler /\ faults' = faults
            BY <2>4
               DEF World, Tick, Deposit, Charge, SweepMined, SweepDropped, ListPending, vars,
                   CreatePayment, CreateCryptoPayment, CreateRows
        <3>2. /\ p \in sweeping' => p \in sweeping
              /\ wallet'[p] < paid'[p] => p \in sweeping \/ wallet[p] < paid[p]
            <4>1. CASE \E q \in Payments : \E amount \in 1..Price : Deposit(q, amount)
                <5>1. PICK q \in Payments, amount \in 1..Price : Deposit(q, amount)
                    BY <4>1
                <5>2. paid'[p] = IF p = q THEN paid[p] + amount ELSE paid[p]
                    BY <1>1, <2>1, <5>1 DEF Deposit
                <5>3. wallet'[p] = IF p = q THEN wallet[p] + amount ELSE wallet[p]
                    BY <1>1, <2>1, <5>1 DEF Deposit
                <5>4. amount \in Nat /\ paid[p] \in Nat /\ wallet[p] \in Nat
                    BY <1>1, <2>1, NumbersAssumption
                <5> QED BY <5>1, <5>2, <5>3, <5>4 DEF Deposit
            <4>2. ASSUME NEW q \in Payments, Charge(q)
                  PROVE  /\ p \in sweeping' => p \in sweeping
                         /\ wallet'[p] < paid'[p] => p \in sweeping \/ wallet[p] < paid[p]
                <5>1. p # q
                    BY <4>2, PaymentsAssumption DEF Charge
                <5> QED BY <1>1, <2>1, <4>2, <5>1 DEF Charge
            <4>3. ASSUME NEW q \in Payments, SweepMined(q) \/ SweepDropped(q)
                  PROVE  /\ p \in sweeping' => p \in sweeping
                         /\ wallet'[p] < paid'[p] => p \in sweeping \/ wallet[p] < paid[p]
                BY <1>1, <2>1, <4>3 DEF SweepMined, SweepDropped
            <4>4. CASE UNCHANGED <<paid, wallet, sweeping>>
                BY <4>4
            <4> QED BY <2>4, <4>1, <4>2, <4>3, <4>4
                    DEF World, Tick, ListPending, vars, chain, CreatePayment,
                        CreateCryptoPayment, CreateRows
        <3> QED BY <2>1, <2>2, <3>1, <3>2 DEF SweptOK
    <2> QED BY <2>3, <2>4
<1> QED BY <1>2, <1>3, <1>4, <1>5, <1>6 DEF SoleInv, Settled

(* The checker alone keeps its invariant, and changes no settled payment.   *)
LEMMA SoleNext ==
    ASSUME Tasks = {}
    PROVE  SoleInv /\ [Next]_vars =>
               /\ SoleInv'
               /\ \A p \in Payments : payment[p] \in Settled =>
                      payment'[p] = payment[p] /\ expires'[p] = expires[p]
<1> SUFFICES ASSUME SoleInv, [Next]_vars
             PROVE  /\ SoleInv'
                    /\ \A p \in Payments : payment[p] \in Settled =>
                           payment'[p] = payment[p] /\ expires'[p] = expires[p]
    OBVIOUS
<1>1. Inv'
    BY NextInv DEF SoleInv
<1>2. Handlers = {Checker}
    BY DEF Handlers
<1>3. CASE CommitSucceeded(Checker) \/ CommitFailed(Checker)
    BY <1>1, <1>3, SoleCommits
<1>4. CASE \/ \E p \in Payments : Begin(Checker, p)
           \/ /\ Proceed(Checker)
              /\ ~CommitSucceeded(Checker) /\ ~CommitFailed(Checker)
           \/ Interrupt(Checker)
    BY <1>1, <1>4, SoleGoesOn
<1>5. CASE \/ World \/ ListPending \/ Restart \/ UNCHANGED vars
           \/ \E p \in Payments : CreatePayment(p) \/ CreateCryptoPayment(p)
    BY <1>1, <1>5, SoleOutside
<1> QED BY <1>2, <1>3, <1>4, <1>5 DEF Next

(* Before the first payment nothing is settled and nothing swept.           *)
LEMMA SoleInit == Init => SoleInv
<1> SUFFICES ASSUME Init PROVE SoleInv
    OBVIOUS
<1>1. Inv
    BY InitInv
<1>2. OneOutcome
    BY DEF Init, OneOutcome
<1>3. SoleOK(handler[Checker])
    BY DEF Init, SoleOK, Idle, Published, Handlers
<1>4. \A p \in Crypto : SweptOK(p)
    BY DEF Init, SweptOK, Payments
<1> QED BY <1>1, <1>2, <1>3, <1>4 DEF SoleInv

(* With the checker alone, the two rows of a payment tell the same story.   *)
THEOREM OneOutcomeCorrect ==
    ASSUME Tasks = {}
    PROVE  Spec => []OneOutcome
<1>1. SoleInv /\ [Next]_vars => SoleInv'
    BY SoleNext
<1>2. SoleInv => OneOutcome
    BY DEF SoleInv
<1> QED BY SoleInit, <1>1, <1>2, PTL DEF Spec

(* With the checker alone, a settled payment keeps its status and period.   *)
THEOREM SettledForGoodCorrect ==
    ASSUME Tasks = {}
    PROVE  Spec => SettledForGood
<1>1. SoleInv /\ [Next]_vars => SoleInv'
    BY SoleNext
<1>2. SoleInv /\ [Next]_vars =>
          [\A p \in Payments : payment[p] \in {"succeeded", "failed"} =>
               payment'[p] = payment[p] /\ expires'[p] = expires[p]]_vars
    BY SoleNext DEF Settled
<1> QED BY SoleInit, <1>1, <1>2, PTL DEF Spec, SettledForGood

(* With the checker alone and no failing call, no user's money is swept     *)
(* without the payment succeeding.                                          *)
THEOREM SweptIsSettledCorrect ==
    ASSUME Tasks = {}
    PROVE  Spec => []SweptIsSettled
<1>1. SoleInv /\ [Next]_vars => SoleInv'
    BY SoleNext
<1>2. SoleInv => SweptIsSettled
    BY DEF SoleInv, SweptOK, SweptIsSettled, Handlers
<1> QED BY SoleInit, <1>1, <1>2, PTL DEF Spec

=============================================================================
