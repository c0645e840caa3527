--------------------------- MODULE WalletsProofs ---------------------------
(***************************************************************************)
(* What holds of the deposit contracts for any number of payments, parties *)
(* and sweeps: no account is overdrawn, each address holds what the sweeps *)
(* ordered while it was the treasury have moved, and all the accounts      *)
(* together hold what was paid.                                            *)
(***************************************************************************)
EXTENDS DepositWallets, FiniteSetTheorems, WellFoundedInduction, TLAPS

SweepMessage == [asset : Assets, to : Collectors, amount : Nat, ordered : Collectors]
JettonMessage == [to : Collectors, amount : Nat, ordered : Collectors]

(* Every message on its way names the treasury of the moment its sweep was  *)
(* ordered: without this a sweep that arrives late could pay another.       *)
Recipients ==
    \A d \in Deposits :
        /\ \A n \in DOMAIN sweeps[d] : sweeps[d][n].to = sweeps[d][n].ordered
        /\ \A n \in DOMAIN transfers[d] : transfers[d][n].to = transfers[d][n].ordered

WalletsInv == WalletsTypeOK /\ Recipients /\ MoneyGoesToTreasury

-----------------------------------------------------------------------------
(* A transfer of no more than the wallet holds keeps balances natural       *)
(* numbers.                                                                 *)
LEMMA MoveType ==
    ASSUME WalletsAssumption, balance \in [Assets -> [Holders -> Nat]],
           collected \in [Assets -> [Collectors -> Nat]],
           NEW a \in Assets, NEW d \in Deposits, NEW to \in Collectors, NEW ordered \in Collectors,
           NEW n \in Nat, n <= balance[a][d], Move(a, d, to, ordered, n)
    PROVE  /\ balance' \in [Assets -> [Holders -> Nat]]
           /\ collected' \in [Assets -> [Collectors -> Nat]]
<1>1. d \in Holders /\ to \in Holders /\ d # to
    BY DEF WalletsAssumption, Holders, Collectors
<1>2. balance[a][d] - n \in Nat /\ balance[a][to] + n \in Nat
    BY <1>1
<1>3. balance' \in [Assets -> [Holders -> Nat]]
    BY <1>1, <1>2 DEF Move
<1>4. collected[a][ordered] + n \in Nat
    OBVIOUS
<1>5. collected' \in [Assets -> [Collectors -> Nat]]
    BY <1>4 DEF Move
<1> QED BY <1>3, <1>5

(* A transfer to the treasury of its order changes two accounts, the        *)
(* wallet's and the recipient's, and counts for the recipient.              *)
LEMMA MoveRecipient ==
    ASSUME WalletsAssumption, balance \in [Assets -> [Holders -> Nat]],
           collected \in [Assets -> [Collectors -> Nat]],
           NEW a \in Assets, NEW d \in Deposits, NEW to \in Collectors, NEW n \in Nat,
           Move(a, d, to, to, n), MoneyGoesToTreasury
    PROVE  MoneyGoesToTreasury'
<1> SUFFICES ASSUME NEW b \in Assets, NEW p \in Collectors
             PROVE  balance'[b][p] = collected'[b][p]
    BY DEF MoneyGoesToTreasury
<1>1. p \in Holders /\ to \in Holders /\ p # d /\ to # d
    BY DEF WalletsAssumption, Holders, Collectors
<1>2. balance[b][p] = collected[b][p] /\ balance[a][to] = collected[a][to]
    BY DEF MoneyGoesToTreasury
<1>3. CASE b = a /\ p = to
    <2>1. balance'[b][p] = balance[a][to] + n /\ collected'[b][p] = collected[a][to] + n
        BY <1>1, <1>3 DEF Move
    <2> QED BY <1>2, <2>1
<1>4. CASE b # a \/ p # to
    <2>1. balance'[b][p] = balance[b][p] /\ collected'[b][p] = collected[b][p]
        BY <1>1, <1>4 DEF Move
    <2> QED BY <1>2, <2>1
<1> QED BY <1>3, <1>4

-----------------------------------------------------------------------------
(* The constructors establish the invariant.                                *)
LEMMA WalletsInitInv == WalletsInit => WalletsInv
<1> SUFFICES ASSUME WalletsInit PROVE WalletsInv
    OBVIOUS
<1>1. treasury \in Collectors
    BY DEF WalletsInit, InitialTreasuries, Collectors
<1>2. WalletsTypeOK
    BY <1>1, WalletsAssumption DEF WalletsInit, WalletsTypeOK, WalletsAssumption, Collectors
<1>3. Recipients
    BY DEF WalletsInit, Recipients
<1>4. MoneyGoesToTreasury
    <2> SUFFICES ASSUME NEW a \in Assets, NEW p \in Collectors
                 PROVE  balance[a][p] = collected[a][p]
        BY DEF MoneyGoesToTreasury
    <2>1. p \in Holders
        BY DEF Holders
    <2> QED BY <2>1 DEF WalletsInit
<1> QED BY <1>2, <1>3, <1>4 DEF WalletsInv

(* A payment credits a wallet, and a wallet is nobody's account.            *)
LEMMA PayInInv ==
    ASSUME WalletsInv, NEW d \in Deposits, NEW a \in Assets, PayIn(d, a)
    PROVE  WalletsInv'
<1>1. d \in Holders /\ d \notin Collectors
    BY WalletsAssumption DEF WalletsAssumption, Holders, Collectors
<1>2. WalletsTypeOK'
    <2>1. balance' \in [Assets -> [Holders -> Nat]]
        BY <1>1 DEF PayIn, WalletsInv, WalletsTypeOK
    <2>2. deposited' \in [Assets -> 0..MaxDeposited]
        BY WalletsAssumption DEF PayIn, WalletsInv, WalletsTypeOK, WalletsAssumption
    <2> QED BY <2>1, <2>2 DEF PayIn, WalletsInv, WalletsTypeOK
<1>3. Recipients'
    BY DEF PayIn, WalletsInv, Recipients
<1>4. MoneyGoesToTreasury'
    <2> SUFFICES ASSUME NEW b \in Assets, NEW p \in Collectors
                 PROVE  balance'[b][p] = collected[b][p]
        BY DEF MoneyGoesToTreasury, PayIn
    <2>1. balance'[b][p] = balance[b][p]
        BY <1>1 DEF PayIn, WalletsInv, WalletsTypeOK, Holders
    <2> QED BY <2>1 DEF WalletsInv, MoneyGoesToTreasury
<1> QED BY <1>2, <1>3, <1>4 DEF WalletsInv

(* A sweep that is one transaction pays the treasury of this moment.        *)
LEMMA AtomicSweepInv ==
    ASSUME WalletsInv, NEW d \in Deposits, NEW a \in Assets,
           Move(a, d, treasury, treasury, balance[a][d]), deployed' \subseteq Deposits,
           UNCHANGED <<chain, owner, treasury, sweeps, transfers, deposited, orders>>
    PROVE  WalletsInv'
<1>1. d \in Holders /\ treasury \in Collectors
    BY DEF WalletsInv, WalletsTypeOK, Holders
<1>2. /\ balance \in [Assets -> [Holders -> Nat]] /\ balance[a][d] \in Nat
      /\ collected \in [Assets -> [Collectors -> Nat]]
    BY <1>1 DEF WalletsInv, WalletsTypeOK
<1>3. /\ balance' \in [Assets -> [Holders -> Nat]]
      /\ collected' \in [Assets -> [Collectors -> Nat]]
    BY <1>1, <1>2, WalletsAssumption, MoveType
<1>4. MoneyGoesToTreasury'
    BY <1>1, <1>2, WalletsAssumption, MoveRecipient DEF WalletsInv
<1>5. WalletsTypeOK'
    BY <1>3 DEF WalletsInv, WalletsTypeOK
<1>6. Recipients'
    BY DEF WalletsInv, Recipients
<1> QED BY <1>4, <1>5, <1>6 DEF WalletsInv

(* The factory's message to a wallet names the present treasury.            *)
LEMMA OrderSweepInv ==
    ASSUME WalletsInv, NEW by \in Parties, NEW d \in Deposits, NEW a \in Assets,
           NEW n \in 1..MaxDeposited, OrderSweep(by, d, a, n)
    PROVE  WalletsInv'
<1> DEFINE msg == [asset |-> a, to |-> treasury, amount |-> n, ordered |-> treasury]
<1>1. msg \in SweepMessage /\ msg.to = msg.ordered
    BY WalletsAssumption DEF WalletsInv, WalletsTypeOK, SweepMessage, WalletsAssumption
<1>2. sweeps \in [Deposits -> Seq(SweepMessage)]
    BY DEF WalletsInv, WalletsTypeOK, SweepMessage
<1>3. sweeps' = [sweeps EXCEPT ![d] = Append(@, msg)]
    BY DEF OrderSweep
<1> HIDE DEF msg
<1>4. sweeps' \in [Deposits -> Seq(SweepMessage)]
    BY <1>1, <1>2, <1>3
<1>5. \A e \in Deposits : \A i \in DOMAIN sweeps'[e] : sweeps'[e][i].to = sweeps'[e][i].ordered
    <2> SUFFICES ASSUME NEW e \in Deposits, NEW i \in DOMAIN sweeps'[e]
                 PROVE  sweeps'[e][i].to = sweeps'[e][i].ordered
        OBVIOUS
    <2>1. CASE e = d
        <3>1. sweeps'[d] = Append(sweeps[d], msg) /\ sweeps[d] \in Seq(SweepMessage)
            BY <1>2, <1>3
        <3>2. CASE i \in DOMAIN sweeps[d]
            BY <1>1, <2>1, <3>1, <3>2 DEF WalletsInv, Recipients
        <3>3. CASE i = Len(sweeps[d]) + 1
            BY <1>1, <2>1, <3>1, <3>3
        <3> QED BY <1>1, <2>1, <3>1, <3>2, <3>3
    <2>2. CASE e # d
        BY <1>2, <1>3, <2>2 DEF WalletsInv, Recipients
    <2> QED BY <2>1, <2>2
<1>6. orders' \in 0..MaxOrders
    BY WalletsAssumption DEF OrderSweep, WalletsInv, WalletsTypeOK, WalletsAssumption
<1>7. WalletsTypeOK'
    BY <1>4, <1>6 DEF OrderSweep, WalletsInv, WalletsTypeOK, SweepMessage
<1>8. Recipients'
    BY <1>5 DEF OrderSweep, WalletsInv, Recipients
<1>9. MoneyGoesToTreasury'
    BY DEF OrderSweep, WalletsInv, MoneyGoesToTreasury
<1> QED BY <1>7, <1>8, <1>9 DEF WalletsInv

(* Taking the first message leaves the others as they were.                 *)
LEMMA RestOfQueue ==
    ASSUME NEW S, NEW q \in Seq(S), q # <<>>
    PROVE  /\ Head(q) \in S /\ 1 \in DOMAIN q /\ Head(q) = q[1]
           /\ Tail(q) \in Seq(S)
           /\ \A i \in DOMAIN Tail(q) : i + 1 \in DOMAIN q /\ Tail(q)[i] = q[i + 1]
OBVIOUS

(* The wallet empties itself in TON, or hands the order on; both to the     *)
(* address the message names.                                               *)
LEMMA ReceiveSweepInv ==
    ASSUME WalletsInv, NEW d \in Deposits, ReceiveSweep(d)
    PROVE  WalletsInv'
<1> DEFINE msg == Head(sweeps[d])
<1>1. sweeps \in [Deposits -> Seq(SweepMessage)] /\ transfers \in [Deposits -> Seq(JettonMessage)]
    BY DEF WalletsInv, WalletsTypeOK, SweepMessage, JettonMessage
<1>2. sweeps[d] \in Seq(SweepMessage) /\ sweeps[d] # <<>>
    BY <1>1 DEF ReceiveSweep
<1>3. msg \in SweepMessage /\ msg = sweeps[d][1] /\ 1 \in DOMAIN sweeps[d]
    BY <1>2, RestOfQueue
<1>4. msg.to = msg.ordered /\ msg.to \in Collectors /\ msg.amount \in Nat
    BY <1>3 DEF WalletsInv, Recipients, SweepMessage
<1>5. sweeps' = [sweeps EXCEPT ![d] = Tail(@)]
    BY DEF ReceiveSweep
<1>6. sweeps' \in [Deposits -> Seq(SweepMessage)]
    BY <1>1, <1>2, <1>5, RestOfQueue
<1>7. \A e \in Deposits : \A i \in DOMAIN sweeps'[e] : sweeps'[e][i].to = sweeps'[e][i].ordered
    <2> SUFFICES ASSUME NEW e \in Deposits, NEW i \in DOMAIN sweeps'[e]
                 PROVE  sweeps'[e][i].to = sweeps'[e][i].ordered
        OBVIOUS
    <2>1. CASE e = d
        <3>1. sweeps'[e] = Tail(sweeps[d])
            BY <1>1, <1>5, <2>1
        <3>2. i + 1 \in DOMAIN sweeps[d] /\ sweeps'[e][i] = sweeps[d][i + 1]
            BY <1>2, <3>1, RestOfQueue
        <3> QED BY <3>2 DEF WalletsInv, Recipients
    <2>2. CASE e # d
        BY <1>1, <1>5, <2>2 DEF WalletsInv, Recipients
    <2> QED BY <2>1, <2>2
<1>8. d \in Holders
    BY DEF Holders
<1>9. /\ balance \in [Assets -> [Holders -> Nat]] /\ "native" \in Assets
      /\ collected \in [Assets -> [Collectors -> Nat]]
    BY DEF WalletsInv, WalletsTypeOK, Assets
<1> HIDE DEF msg
<1>10. /\ balance' \in [Assets -> [Holders -> Nat]]
       /\ collected' \in [Assets -> [Collectors -> Nat]]
       /\ MoneyGoesToTreasury'
       /\ transfers' \in [Deposits -> Seq(JettonMessage)]
       /\ \A e \in Deposits : \A i \in DOMAIN transfers'[e] :
             transfers'[e][i].to = transfers'[e][i].ordered
    <2>1. CASE /\ Move("native", d, Recipient(msg), msg.ordered, balance["native"][d])
               /\ UNCHANGED transfers
        <3>0. Move("native", d, msg.to, msg.to, balance["native"][d])
            BY <1>4, <2>1 DEF Recipient
        <3>1. balance["native"][d] \in Nat
            BY <1>8, <1>9
        <3>2. /\ balance' \in [Assets -> [Holders -> Nat]]
              /\ collected' \in [Assets -> [Collectors -> Nat]]
            BY <1>4, <1>9, <3>0, <3>1, WalletsAssumption, MoveType
        <3>3. MoneyGoesToTreasury'
            BY <1>4, <1>9, <3>0, <3>1, WalletsAssumption, MoveRecipient DEF WalletsInv
        <3> QED BY <1>1, <2>1, <3>2, <3>3 DEF WalletsInv, Recipients
    <2>2. CASE /\ transfers' = [transfers EXCEPT ![d] = Append(@,
                      [to |-> Recipient(msg), amount |-> msg.amount, ordered |-> msg.ordered])]
               /\ UNCHANGED <<balance, collected>>
        <3> DEFINE new == [to |-> Recipient(msg), amount |-> msg.amount, ordered |-> msg.ordered]
        <3>1. new \in JettonMessage /\ new.to = new.ordered
            BY <1>4 DEF JettonMessage, Recipient
        <3> HIDE DEF new
        <3>2. transfers'[d] = Append(transfers[d], new) /\ transfers[d] \in Seq(JettonMessage)
            BY <1>1, <2>2 DEF new
        <3>3. transfers' \in [Deposits -> Seq(JettonMessage)]
            BY <1>1, <2>2, <3>1 DEF new
        <3>4. \A i \in DOMAIN transfers'[d] : transfers'[d][i].to = transfers'[d][i].ordered
            <4> SUFFICES ASSUME NEW i \in DOMAIN transfers'[d]
                         PROVE  transfers'[d][i].to = transfers'[d][i].ordered
                OBVIOUS
            <4>1. CASE i \in DOMAIN transfers[d]
                BY <3>1, <3>2, <4>1 DEF WalletsInv, Recipients
            <4>2. CASE i = Len(transfers[d]) + 1
                BY <3>1, <3>2, <4>2
            <4> QED BY <3>1, <3>2, <4>1, <4>2
        <3>5. \A e \in Deposits \ {d} : transfers'[e] = transfers[e]
            BY <1>1, <2>2
        <3> QED BY <2>2, <3>3, <3>4, <3>5, <1>9 DEF WalletsInv, Recipients, MoneyGoesToTreasury
    <2> QED BY <2>1, <2>2 DEF ReceiveSweep, msg
<1>11. WalletsTypeOK'
    BY <1>6, <1>10 DEF ReceiveSweep, WalletsInv, WalletsTypeOK, SweepMessage, JettonMessage
<1>12. Recipients'
    BY <1>5, <1>7, <1>10 DEF WalletsInv, Recipients
<1> QED BY <1>10, <1>11, <1>12 DEF WalletsInv

(* The jetton contract pays what the wallet has, to the address named.      *)
LEMMA TransferJettonsInv ==
    ASSUME WalletsInv, NEW d \in Deposits, TransferJettons(d)
    PROVE  WalletsInv'
<1> DEFINE msg == Head(transfers[d])
<1>1. transfers \in [Deposits -> Seq(JettonMessage)]
    BY DEF WalletsInv, WalletsTypeOK, JettonMessage
<1>2. transfers[d] \in Seq(JettonMessage) /\ transfers[d] # <<>>
    BY <1>1 DEF TransferJettons
<1>3. msg \in JettonMessage /\ msg = transfers[d][1] /\ 1 \in DOMAIN transfers[d]
    BY <1>2, RestOfQueue
<1>4. msg.to = msg.ordered /\ msg.to \in Collectors /\ msg.amount \in Nat
    BY <1>3 DEF WalletsInv, Recipients, JettonMessage
<1>5. transfers' = [transfers EXCEPT ![d] = Tail(@)] /\ UNCHANGED sweeps
    BY DEF TransferJettons
<1>6. transfers' \in [Deposits -> Seq(JettonMessage)]
    BY <1>1, <1>2, <1>5, RestOfQueue
<1>7. \A e \in Deposits : \A i \in DOMAIN transfers'[e] : transfers'[e][i].to = transfers'[e][i].ordered
    <2> SUFFICES ASSUME NEW e \in Deposits, NEW i \in DOMAIN transfers'[e]
                 PROVE  transfers'[e][i].to = transfers'[e][i].ordered
        OBVIOUS
    <2>1. CASE e = d
        <3>1. transfers'[e] = Tail(transfers[d])
            BY <1>1, <1>5, <2>1
        <3>2. i + 1 \in DOMAIN transfers[d] /\ transfers'[e][i] = transfers[d][i + 1]
            BY <1>2, <3>1, RestOfQueue
        <3> QED BY <3>2 DEF WalletsInv, Recipients
    <2>2. CASE e # d
        BY <1>1, <1>5, <2>2 DEF WalletsInv, Recipients
    <2> QED BY <2>1, <2>2
<1>8. /\ balance \in [Assets -> [Holders -> Nat]] /\ "token" \in Assets
      /\ collected \in [Assets -> [Collectors -> Nat]]
    BY DEF WalletsInv, WalletsTypeOK, Assets
<1> HIDE DEF msg
<1>9. /\ balance' \in [Assets -> [Holders -> Nat]]
      /\ collected' \in [Assets -> [Collectors -> Nat]]
      /\ MoneyGoesToTreasury'
    <2>1. CASE Payable(d, msg.amount) /\ Move("token", d, msg.to, msg.ordered, msg.amount)
        <3>0. Move("token", d, msg.to, msg.to, msg.amount)
            BY <1>4, <2>1
        <3>1. msg.amount <= balance["token"][d]
            BY <2>1 DEF Payable
        <3>2. /\ balance' \in [Assets -> [Holders -> Nat]]
              /\ collected' \in [Assets -> [Collectors -> Nat]]
            BY <1>4, <1>8, <3>0, <3>1, WalletsAssumption, MoveType
        <3>3. MoneyGoesToTreasury'
            BY <1>4, <1>8, <3>0, <3>1, WalletsAssumption, MoveRecipient DEF WalletsInv
        <3> QED BY <3>2, <3>3
    <2>2. CASE UNCHANGED <<balance, collected>>
        BY <1>8, <2>2 DEF WalletsInv, MoneyGoesToTreasury
    <2> QED BY <2>1, <2>2 DEF TransferJettons, msg
<1>10. WalletsTypeOK'
    BY <1>6, <1>9 DEF TransferJettons, WalletsInv, WalletsTypeOK, JettonMessage
<1>11. Recipients'
    BY <1>5, <1>7 DEF WalletsInv, Recipients
<1> QED BY <1>9, <1>10, <1>11 DEF WalletsInv

(* A new treasury or owner moves no money and changes no message.           *)
LEMMA AdministrationInv ==
    ASSUME WalletsInv, NEW by \in Parties, NEW new \in Collectors,
           SetTreasury(by, new) \/ TransferOwnership(by, new)
    PROVE  WalletsInv'
<1>1. CASE SetTreasury(by, new)
    BY <1>1 DEF SetTreasury, WalletsInv, WalletsTypeOK, Recipients, MoneyGoesToTreasury
<1>2. CASE TransferOwnership(by, new)
    BY <1>2 DEF TransferOwnership, WalletsInv, WalletsTypeOK, Recipients, MoneyGoesToTreasury
<1> QED BY <1>1, <1>2

-----------------------------------------------------------------------------
(* Every transaction and every delivered message keeps the invariant.       *)
LEMMA WalletsStep == WalletsInv /\ [WalletsNext]_walletVars => WalletsInv'
<1> SUFFICES ASSUME WalletsInv, [WalletsNext]_walletVars PROVE WalletsInv'
    OBVIOUS
<1>1. CASE UNCHANGED walletVars
    BY <1>1 DEF walletVars, WalletsInv, WalletsTypeOK, Recipients, MoneyGoesToTreasury
<1>2. ASSUME NEW d \in Deposits, NEW a \in Assets, PayIn(d, a) PROVE WalletsInv'
    BY <1>2, PayInInv
<1>3. ASSUME NEW by \in Parties, NEW d \in Deposits, DeployEth(by, d) PROVE WalletsInv'
    BY <1>3 DEF DeployEth, WalletsInv, WalletsTypeOK, Recipients, MoneyGoesToTreasury
<1>4. ASSUME NEW by \in Parties, NEW d \in Deposits, NEW a \in Assets, SweepEth(by, d, a)
      PROVE  WalletsInv'
    <2>1. deployed' \subseteq Deposits
        BY <1>4 DEF SweepEth, WalletsInv, WalletsTypeOK
    <2> QED BY <1>4, <2>1, AtomicSweepInv DEF SweepEth
<1>5. ASSUME NEW by \in Parties, NEW d \in Deposits, NEW to \in Collectors, SweepSol(by, d, to)
      PROVE  WalletsInv'
    <2>1. deployed' \subseteq Deposits /\ "token" \in Assets
        BY <1>5 DEF SweepSol, WalletsInv, WalletsTypeOK, Assets
    <2> QED BY <1>5, <2>1, AtomicSweepInv DEF SweepSol
<1>6. ASSUME NEW by \in Parties, NEW d \in Deposits, NEW a \in Assets, NEW n \in 1..MaxDeposited,
             OrderSweep(by, d, a, n)
      PROVE  WalletsInv'
    BY <1>6, OrderSweepInv
<1>7. ASSUME NEW by \in Parties, NEW new \in Collectors,
             SetTreasury(by, new) \/ TransferOwnership(by, new)
      PROVE  WalletsInv'
    BY <1>7, AdministrationInv
<1>8. ASSUME NEW d \in Deposits, ReceiveSweep(d) \/ TransferJettons(d) PROVE WalletsInv'
    BY <1>8, ReceiveSweepInv, TransferJettonsInv
<1> QED BY <1>1, <1>2, <1>3, <1>4, <1>5, <1>6, <1>7, <1>8 DEF WalletsNext

(* On each chain the accounts stay natural numbers: no sweep, repeated,     *)
(* late or overtaken by another, takes what a wallet does not hold.         *)
THEOREM WalletsTypeCorrect == WalletsSpec => []WalletsTypeOK
<1>1. WalletsInv => WalletsTypeOK
    BY DEF WalletsInv
<1> QED BY <1>1, WalletsInitInv, WalletsStep, PTL DEF WalletsSpec

(* Whatever the order of deposits, sweeps, late messages and changes of     *)
(* treasury and owner, each address holds exactly what the sweeps ordered   *)
(* while it was the treasury have moved: no late sweep pays another one.    *)
THEOREM TreasuryCorrect == WalletsSpec => []MoneyGoesToTreasury
<1>1. WalletsInv => MoneyGoesToTreasury
    BY DEF WalletsInv
<1> QED BY <1>1, WalletsInitInv, WalletsStep, PTL DEF WalletsSpec

-----------------------------------------------------------------------------
(* Sums over a finite set.  SumFunction is a fold, a recursive function on  *)
(* the subsets of the domain; below it is named, shown to exist, and        *)
(* compared for functions that differ at one point.                         *)

Pick(s) == CHOOSE x \in s : TRUE

IsTotal(t, f, D) ==
    t = [s \in D |-> IF s = {} THEN 0 ELSE f[Pick(s)] + t[s \ {Pick(s)}]]

Total(f, S) == CHOOSE t : IsTotal(t, f, SUBSET S)

(* The least element of a set of natural numbers: what induction needs.     *)
LEMMA LeastNat ==
    ASSUME NEW T, T \subseteq Nat, T # {}
    PROVE  \E x \in T : \A y \in T : x <= y
<1> DEFINE R == OpToRel(<, Nat)
<1>1. IsWellFoundedOn(R, Nat)
    BY NatLessThanWellFounded
<1>2. \E x \in T : \A y \in T : ~(<<y, x>> \in R)
    <2> HIDE DEF R
    <2> QED BY <1>1, WFMin
<1>3. \A x, y \in Nat : <<y, x>> \notin R => x <= y
    BY DEF OpToRel
<1> QED BY <1>2, <1>3

(* The picked element, and what remains.                                    *)
LEMMA PickOne ==
    ASSUME NEW S, IsFiniteSet(S), NEW s \in SUBSET S, s # {}
    PROVE  /\ Pick(s) \in s /\ Pick(s) \in S /\ s \ {Pick(s)} \in SUBSET S
           /\ Cardinality(s \ {Pick(s)}) = Cardinality(s) - 1 /\ Cardinality(s) \in Nat \ {0}
<1>1. Pick(s) \in s
    BY DEF Pick
<1>2. IsFiniteSet(s)
    BY FS_Subset
<1>3. Cardinality(s) \in Nat /\ Cardinality(s) # 0
    BY <1>2, FS_CardinalityType, FS_EmptySet
<1>4. Cardinality(s \ {Pick(s)}) = Cardinality(s) - 1
    BY <1>1, <1>2, FS_RemoveElement
<1> QED BY <1>1, <1>3, <1>4

(* Among some subsets of a finite set there is a smallest.                  *)
LEMMA SmallestSet ==
    ASSUME NEW S, IsFiniteSet(S), NEW B \in SUBSET (SUBSET S), B # {}
    PROVE  \E s \in B : \A t \in SUBSET S : Cardinality(t) < Cardinality(s) => t \notin B
<1> DEFINE T == {Cardinality(s) : s \in B}
<1>1. \A s \in SUBSET S : Cardinality(s) \in Nat
    BY FS_Subset, FS_CardinalityType
<1>2. T \subseteq Nat /\ T # {}
    BY <1>1
<1>3. PICK n \in T : \A m \in T : n <= m
    BY <1>2, LeastNat
<1>4. PICK s \in B : Cardinality(s) = n
    OBVIOUS
<1>5. ASSUME NEW t \in SUBSET S, Cardinality(t) < Cardinality(s), t \in B PROVE FALSE
    BY <1>1, <1>3, <1>4, <1>5
<1> QED BY <1>5

(* The fold is defined on all subsets: on those of one more element if on   *)
(* the smaller ones.                                                        *)
LEMMA TotalExists ==
    ASSUME NEW f, NEW S, IsFiniteSet(S)
    PROVE  \E t : IsTotal(t, f, SUBSET S)
<1> DEFINE Small(n) == {s \in SUBSET S : Cardinality(s) <= n}
           T == {n \in Nat : ~ \E t : IsTotal(t, f, Small(n))}
<1>1. \A s \in SUBSET S : Cardinality(s) \in Nat /\ (Cardinality(s) = 0 => s = {})
    BY FS_Subset, FS_CardinalityType, FS_EmptySet
<1>2. ASSUME T # {} PROVE FALSE
    <2>1. PICK n \in T : \A m \in T : n <= m
        <3> HIDE DEF T
        <3>1. T \subseteq Nat
            BY DEF T
        <3> QED BY <1>2, <3>1, LeastNat
    <2>2. n \in Nat /\ ~ \E t : IsTotal(t, f, Small(n))
        OBVIOUS
    <2>3. CASE n = 0
        <3> DEFINE t == [s \in Small(0) |-> 0]
        <3>1. \A s \in Small(0) : s = {}
            BY <1>1
        <3>2. IsTotal(t, f, Small(0))
            BY <3>1 DEF IsTotal
        <3> QED BY <2>2, <2>3, <3>2
    <2>4. CASE n # 0
        <3>1. n - 1 \in Nat /\ n - 1 \notin T
            <4>1. n \in Nat /\ \A m \in T : n <= m
                BY <2>1
            <4> HIDE DEF T
            <4> QED BY <2>4, <4>1
        <3>2. PICK t : IsTotal(t, f, Small(n - 1))
            BY <3>1
        <3> DEFINE u == [s \in Small(n) |-> IF s = {} THEN 0 ELSE f[Pick(s)] + t[s \ {Pick(s)}]]
        <3>3. \A s \in Small(n - 1) : s \in Small(n)
            BY <1>1, <2>2
        <3>4. ASSUME NEW s \in Small(n - 1) PROVE u[s] = t[s]
            <4>1. t[s] = IF s = {} THEN 0 ELSE f[Pick(s)] + t[s \ {Pick(s)}]
                BY <3>2 DEF IsTotal
            <4> QED BY <3>3, <4>1
        <3>5. ASSUME NEW s \in Small(n), s # {} PROVE s \ {Pick(s)} \in Small(n - 1)
            <4>1. /\ s \ {Pick(s)} \in SUBSET S
                  /\ Cardinality(s \ {Pick(s)}) = Cardinality(s) - 1 /\ Cardinality(s) \in Nat
                BY <3>5, PickOne
            <4>2. Cardinality(s) <= n
                OBVIOUS
            <4> QED BY <2>2, <4>1, <4>2
        <3>6. IsTotal(u, f, Small(n))
            <4>1. \A s \in Small(n) :
                      u[s] = IF s = {} THEN 0 ELSE f[Pick(s)] + t[s \ {Pick(s)}]
                OBVIOUS
            <4>2. \A s \in Small(n) : s # {} => t[s \ {Pick(s)}] = u[s \ {Pick(s)}]
                BY <3>4, <3>5
            <4>3. u = [s \in Small(n) |-> u[s]]
                OBVIOUS
            <4> HIDE DEF u, Small
            <4>4. \A s \in Small(n) :
                      u[s] = IF s = {} THEN 0 ELSE f[Pick(s)] + u[s \ {Pick(s)}]
                BY <4>1, <4>2
            <4> QED BY <4>3, <4>4 DEF IsTotal
        <3> QED BY <2>2, <3>6
    <2> QED BY <2>3, <2>4
<1>3. Cardinality(S) \in Nat /\ Small(Cardinality(S)) = SUBSET S
    <2>1. \A s \in SUBSET S : Cardinality(s) <= Cardinality(S)
        BY FS_Subset
    <2> QED BY <1>1, <2>1
<1> HIDE DEF Small
<1>4. \E t : IsTotal(t, f, Small(Cardinality(S)))
    BY <1>2, <1>3
<1> QED BY <1>3, <1>4

(* The fold is the one that was shown to exist.                             *)
LEMMA TotalIs ==
    ASSUME NEW f, NEW S, IsFiniteSet(S)
    PROVE  IsTotal(Total(f, S), f, SUBSET S)
BY TotalExists DEF Total

(* The library's sum is this fold.                                          *)
LEMMA SumIsTotal == ASSUME NEW f, NEW S PROVE SumFunctionOnSet(f, S) = Total(f, S)[S]
BY DEF SumFunctionOnSet, FoldFunctionOnSet, MapThenFoldSet, Total, IsTotal, Pick

(* A function that is zero everywhere sums to zero.                         *)
LEMMA SumOfZeros ==
    ASSUME NEW S, IsFiniteSet(S), NEW f \in [S -> Int], \A x \in S : f[x] = 0
    PROVE  SumFunction(f) = 0
<1> DEFINE t == Total(f, S)
           B == {s \in SUBSET S : t[s] # 0}
<1>0. IsTotal(t, f, SUBSET S)
    BY TotalIs
<1> HIDE DEF t
<1>1. /\ t[{}] = 0
      /\ \A s \in SUBSET S : s # {} => t[s] = f[Pick(s)] + t[s \ {Pick(s)}]
    BY <1>0 DEF IsTotal
<1>2. ASSUME B # {} PROVE FALSE
    <2>1. PICK s \in B : \A z \in SUBSET S : Cardinality(z) < Cardinality(s) => z \notin B
        BY <1>2, SmallestSet
    <2>2. s \in SUBSET S /\ t[s] # 0 /\ s # {}
        BY <1>1
    <2>3. /\ Pick(s) \in S /\ s \ {Pick(s)} \in SUBSET S
          /\ Cardinality(s \ {Pick(s)}) < Cardinality(s)
        BY <2>2, PickOne
    <2>4. t[s \ {Pick(s)}] = 0 /\ f[Pick(s)] = 0
        BY <2>1, <2>3
    <2> QED BY <1>1, <2>2, <2>4
<1>3. t[S] = 0
    BY <1>2
<1> QED BY <1>3, SumIsTotal DEF SumFunction, t

(* Two functions that differ at one point: their sums differ by as much.    *)
LEMMA SumOfChanged ==
    ASSUME NEW S, IsFiniteSet(S), NEW f, f \in [S -> Int], NEW g, g \in [S -> Int],
           NEW a \in S, \A x \in S \ {a} : g[x] = f[x]
    PROVE  /\ SumFunction(f) \in Int
           /\ SumFunction(g) = SumFunction(f) + (g[a] - f[a])
<1> DEFINE t == Total(f, S)
           u == Total(g, S)
<1>0. IsTotal(t, f, SUBSET S) /\ IsTotal(u, g, SUBSET S)
    BY TotalIs
<1> HIDE DEF t, u
<1>1. /\ t[{}] = 0
      /\ \A s \in SUBSET S : s # {} => t[s] = f[Pick(s)] + t[s \ {Pick(s)}]
    BY <1>0 DEF IsTotal
<1>2. /\ u[{}] = 0
      /\ \A s \in SUBSET S : s # {} => u[s] = g[Pick(s)] + u[s \ {Pick(s)}]
    BY <1>0 DEF IsTotal
<1> DEFINE Agree(s) == t[s] \in Int /\ u[s] = t[s] + (IF a \in s THEN g[a] - f[a] ELSE 0)
           B == {s \in SUBSET S : ~Agree(s)}
<1>3. ASSUME B # {} PROVE FALSE
    <2>1. PICK s \in B : \A z \in SUBSET S : Cardinality(z) < Cardinality(s) => z \notin B
        <3> HIDE DEF Agree
        <3>1. B \in SUBSET (SUBSET S)
            OBVIOUS
        <3> HIDE DEF B
        <3> QED BY <1>3, <3>1, SmallestSet
    <2>2. s \in SUBSET S /\ ~Agree(s)
        OBVIOUS
    <2>3. s # {}
        <3>1. Agree({})
            BY <1>1, <1>2
        <3> HIDE DEF Agree
        <3> QED BY <2>2, <3>1
    <2> DEFINE p == Pick(s)
               z == s \ {Pick(s)}
    <2>4. p \in s /\ p \in S /\ z \in SUBSET S /\ Cardinality(z) < Cardinality(s)
        <3>1. /\ p \in s /\ p \in S /\ z \in SUBSET S
              /\ Cardinality(z) = Cardinality(s) - 1 /\ Cardinality(s) \in Nat \ {0}
            <4>1. s \in SUBSET S /\ s # {}
                BY <2>2, <2>3
            <4> HIDE DEF Agree, B
            <4> QED BY <4>1, PickOne
        <3> QED BY <3>1
    <2>5. Agree(z)
        <3> HIDE DEF Agree
        <3> QED BY <2>1, <2>4
    <2>6. t[s] = f[p] + t[z] /\ u[s] = g[p] + u[z]
        BY <1>1, <1>2, <2>2, <2>3
    <2>7. f[p] \in Int /\ g[p] \in Int /\ f[a] \in Int /\ g[a] \in Int
        BY <2>4
    <2>8. CASE p = a
        <3>1. a \in s /\ a \notin z
            BY <2>4, <2>8
        <3>2. t[z] \in Int /\ u[z] = t[z]
            BY <2>5, <3>1
        <3>3. t[s] \in Int /\ u[s] = t[s] + (g[a] - f[a])
            <4> HIDE DEF p, z
            <4> QED BY <2>6, <2>7, <2>8, <3>2
        <3> QED BY <2>2, <3>1, <3>3
    <2>9. CASE p # a
        <3>1. (a \in s <=> a \in z) /\ g[p] = f[p]
            BY <2>4, <2>9
        <3> DEFINE delta == IF a \in z THEN g[a] - f[a] ELSE 0
        <3>2. t[z] \in Int /\ u[z] = t[z] + delta /\ delta \in Int
            BY <2>5, <2>7
        <3>3. t[s] \in Int /\ u[s] = t[s] + delta
            <4> HIDE DEF p, z, delta
            <4> QED BY <2>6, <2>7, <3>1, <3>2
        <3> QED BY <2>2, <3>1, <3>3
    <2> QED BY <2>8, <2>9
<1>4. Agree(S)
    <2> HIDE DEF Agree
    <2> QED BY <1>3
<1>5. t[S] \in Int /\ u[S] = t[S] + (g[a] - f[a])
    BY <1>4
<1>6. SumFunction(f) = t[S] /\ SumFunction(g) = u[S]
    BY SumIsTotal DEF SumFunction, t, u
<1> QED BY <1>5, <1>6

-----------------------------------------------------------------------------
(* The units of an asset over all accounts.                                 *)

MoneyInv == WalletsInv /\ MoneyAccounted

(* There are finitely many accounts.                                        *)
LEMMA AccountsFinite == IsFiniteSet(Holders)
<1>1. IsFiniteSet(Parties \cup {ZeroAddress})
    BY WalletsAssumption, FS_AddElement DEF WalletsAssumption
<1> QED BY <1>1, WalletsAssumption, FS_Union DEF WalletsAssumption, Holders, Collectors

(* What leaves a wallet arrives with the collector.                         *)
LEMMA MovedMoney ==
    ASSUME MoneyInv, balance' \in [Assets -> [Holders -> Nat]], UNCHANGED deposited,
           NEW a \in Assets, NEW d \in Deposits, NEW to \in Collectors, NEW ordered \in Collectors,
           NEW n \in Nat, Move(a, d, to, ordered, n)
    PROVE  MoneyAccounted'
<1> DEFINE f == balance[a]
           h == [balance[a] EXCEPT ![d] = @ - n]
           g == balance'[a]
<1>1. balance \in [Assets -> [Holders -> Nat]] /\ deposited \in [Assets -> 0..MaxDeposited]
    BY DEF MoneyInv, WalletsInv, WalletsTypeOK
<1>2. d \in Holders /\ to \in Holders /\ d # to
    BY WalletsAssumption DEF WalletsAssumption, Holders, Collectors
<1>3. /\ f \in [Holders -> Int] /\ h \in [Holders -> Int] /\ g \in [Holders -> Int]
      /\ f[d] \in Int /\ f[to] \in Int
    BY <1>1, <1>2
<1>4. h[d] = f[d] - n /\ h[to] = f[to] /\ \A x \in Holders \ {d} : h[x] = f[x]
    BY <1>1, <1>2
<1>5. g[to] = f[to] + n /\ \A x \in Holders \ {to} : g[x] = h[x]
    BY <1>1, <1>2 DEF Move
<1>6. \A b \in Assets \ {a} : balance'[b] = balance[b]
    BY <1>1 DEF Move
<1>7. SumFunction(f) = deposited[a]
    BY DEF MoneyInv, MoneyAccounted
<1> HIDE DEF f, g, h
<1>8. SumFunction(f) \in Int /\ SumFunction(h) = SumFunction(f) + (h[d] - f[d])
    BY <1>2, <1>3, <1>4, AccountsFinite, SumOfChanged
<1>9. SumFunction(h) \in Int /\ SumFunction(g) = SumFunction(h) + (g[to] - h[to])
    BY <1>2, <1>3, <1>5, AccountsFinite, SumOfChanged
<1>10. h[d] - f[d] = 0 - n /\ g[to] - h[to] = n
    BY <1>3, <1>4, <1>5
<1>11. SumFunction(g) = SumFunction(f)
    BY <1>8, <1>9, <1>10
<1>12. ASSUME NEW b \in Assets PROVE SumFunction(balance'[b]) = deposited'[b]
    <2>1. CASE b = a
        BY <1>7, <1>11, <2>1 DEF g
    <2>2. CASE b # a
        BY <1>6, <2>2 DEF MoneyInv, MoneyAccounted
    <2> QED BY <2>1, <2>2
<1> QED BY <1>12 DEF MoneyAccounted

(* A payment adds a unit to one account.                                    *)
LEMMA PaidMoney ==
    ASSUME MoneyInv, balance' \in [Assets -> [Holders -> Nat]], NEW d \in Deposits,
           NEW a \in Assets, PayIn(d, a)
    PROVE  MoneyAccounted'
<1> DEFINE f == balance[a]
           g == balance'[a]
<1>1. balance \in [Assets -> [Holders -> Nat]] /\ deposited \in [Assets -> 0..MaxDeposited]
    BY DEF MoneyInv, WalletsInv, WalletsTypeOK
<1>2. d \in Holders
    BY DEF Holders
<1>3. f \in [Holders -> Int] /\ g \in [Holders -> Int] /\ f[d] \in Int
    BY <1>1, <1>2
<1>4. g[d] = f[d] + 1 /\ \A x \in Holders \ {d} : g[x] = f[x]
    BY <1>1, <1>2 DEF PayIn
<1>5. /\ \A b \in Assets \ {a} : balance'[b] = balance[b] /\ deposited'[b] = deposited[b]
      /\ deposited'[a] = deposited[a] + 1
    BY <1>1 DEF PayIn
<1>6. SumFunction(f) = deposited[a]
    BY DEF MoneyInv, MoneyAccounted
<1> HIDE DEF f, g
<1>7. SumFunction(f) \in Int /\ SumFunction(g) = SumFunction(f) + (g[d] - f[d])
    BY <1>2, <1>3, <1>4, AccountsFinite, SumOfChanged
<1>8. g[d] - f[d] = 1
    BY <1>3, <1>4
<1>9. ASSUME NEW b \in Assets PROVE SumFunction(balance'[b]) = deposited'[b]
    <2>1. CASE b = a
        BY <1>5, <1>6, <1>7, <1>8, <2>1 DEF g
    <2>2. CASE b # a
        BY <1>5, <2>2 DEF MoneyInv, MoneyAccounted
    <2> QED BY <2>1, <2>2
<1> QED BY <1>9 DEF MoneyAccounted

(* At the start all accounts are empty.                                     *)
LEMMA MoneyInitInv == WalletsInit => MoneyInv
<1> SUFFICES ASSUME WalletsInit PROVE MoneyInv
    OBVIOUS
<1>1. ASSUME NEW a \in Assets PROVE SumFunction(balance[a]) = deposited[a]
    <2> DEFINE f == balance[a]
    <2>1. f \in [Holders -> Int] /\ (\A x \in Holders : f[x] = 0) /\ deposited[a] = 0
        BY DEF WalletsInit
    <2> HIDE DEF f
    <2>2. SumFunction(f) = 0
        BY <2>1, AccountsFinite, SumOfZeros
    <2> QED BY <2>1, <2>2 DEF f
<1> QED BY <1>1, WalletsInitInv DEF MoneyInv, MoneyAccounted

(* Only payments and the three kinds of transfers touch an account.         *)
LEMMA MoneyStep == MoneyInv /\ [WalletsNext]_walletVars => MoneyInv'
<1> SUFFICES ASSUME MoneyInv, [WalletsNext]_walletVars PROVE MoneyAccounted'
    BY WalletsStep DEF MoneyInv
<1>1. WalletsInv /\ WalletsInv'
    BY WalletsStep DEF MoneyInv
<1>2. /\ balance \in [Assets -> [Holders -> Nat]] /\ balance' \in [Assets -> [Holders -> Nat]]
      /\ "token" \in Assets /\ "native" \in Assets /\ treasury \in Collectors
      /\ \A d \in Deposits : d \in Holders
    BY <1>1 DEF WalletsInv, WalletsTypeOK, Assets, Holders
<1>3. CASE UNCHANGED <<balance, deposited>>
    BY <1>3 DEF MoneyInv, MoneyAccounted
<1>4. ASSUME NEW d \in Deposits, NEW a \in Assets, PayIn(d, a) PROVE MoneyAccounted'
    BY <1>2, <1>4, PaidMoney
<1>5. ASSUME NEW by \in Parties, NEW d \in Deposits, NEW a \in Assets, SweepEth(by, d, a)
      PROVE  MoneyAccounted'
    <2>1. /\ Move(a, d, treasury, treasury, balance[a][d]) /\ UNCHANGED deposited
          /\ balance[a][d] \in Nat
        BY <1>2, <1>5 DEF SweepEth
    <2> QED BY <1>2, <2>1, MovedMoney
<1>6. ASSUME NEW by \in Parties, NEW d \in Deposits, NEW to \in Collectors, SweepSol(by, d, to)
      PROVE  MoneyAccounted'
    <2>1. /\ Move("token", d, to, treasury, balance["token"][d]) /\ UNCHANGED deposited
          /\ balance["token"][d] \in Nat
        BY <1>2, <1>6 DEF SweepSol
    <2> QED BY <1>2, <2>1, MovedMoney
<1>7. ASSUME NEW d \in Deposits, ReceiveSweep(d) PROVE MoneyAccounted'
    <2> DEFINE msg == Head(sweeps[d])
    <2>1. sweeps[d] \in Seq(SweepMessage) /\ sweeps[d] # <<>>
        BY <1>1, <1>7 DEF ReceiveSweep, WalletsInv, WalletsTypeOK, SweepMessage
    <2>2. Recipient(msg) \in Collectors /\ msg.ordered \in Collectors
        <3>1. msg \in SweepMessage
            BY <2>1, RestOfQueue
        <3> HIDE DEF msg
        <3> QED BY <3>1 DEF SweepMessage, Recipient
    <2>3. UNCHANGED deposited /\ balance["native"][d] \in Nat
        BY <1>2, <1>7 DEF ReceiveSweep
    <2>4. \/ Move("native", d, Recipient(msg), msg.ordered, balance["native"][d])
          \/ UNCHANGED balance
        BY <1>7 DEF ReceiveSweep
    <2> HIDE DEF msg
    <2> QED BY <1>2, <1>3, <2>2, <2>3, <2>4, MovedMoney
<1>8. ASSUME NEW d \in Deposits, TransferJettons(d) PROVE MoneyAccounted'
    <2> DEFINE msg == Head(transfers[d])
    <2>1. transfers[d] \in Seq(JettonMessage) /\ transfers[d] # <<>>
        BY <1>1, <1>8 DEF TransferJettons, WalletsInv, WalletsTypeOK, JettonMessage
    <2>2. msg.to \in Collectors /\ msg.ordered \in Collectors /\ msg.amount \in Nat
        <3>1. msg \in JettonMessage
            BY <2>1, RestOfQueue
        <3> HIDE DEF msg
        <3> QED BY <3>1 DEF JettonMessage
    <2>3. UNCHANGED deposited
        BY <1>8 DEF TransferJettons
    <2>4. Move("token", d, msg.to, msg.ordered, msg.amount) \/ UNCHANGED balance
        BY <1>8 DEF TransferJettons
    <2> HIDE DEF msg
    <2> QED BY <1>2, <1>3, <2>2, <2>3, <2>4, MovedMoney
<1>9. ASSUME NEW by \in Parties, NEW d \in Deposits, DeployEth(by, d) PROVE MoneyAccounted'
    BY <1>3, <1>9 DEF DeployEth
<1>10. ASSUME NEW by \in Parties, NEW d \in Deposits, NEW a \in Assets,
              NEW n \in 1..MaxDeposited, OrderSweep(by, d, a, n)
       PROVE  MoneyAccounted'
    BY <1>3, <1>10 DEF OrderSweep
<1>11. ASSUME NEW by \in Parties, NEW new \in Collectors,
              SetTreasury(by, new) \/ TransferOwnership(by, new)
       PROVE  MoneyAccounted'
    BY <1>3, <1>11 DEF SetTreasury, TransferOwnership
<1>12. CASE UNCHANGED walletVars
    BY <1>3, <1>12 DEF walletVars
<1> QED BY <1>4, <1>5, <1>6, <1>7, <1>8, <1>9, <1>10, <1>11, <1>12 DEF WalletsNext

(* Every unit paid is in its wallet or with a collector: sweeps repeated,   *)
(* late or overtaken create and lose nothing, on any number of accounts.    *)
THEOREM MoneyCorrect == WalletsSpec => []MoneyAccounted
<1>1. MoneyInv => MoneyAccounted
    BY DEF MoneyInv
<1> QED BY <1>1, MoneyInitInv, MoneyStep, PTL DEF WalletsSpec
=============================================================================
