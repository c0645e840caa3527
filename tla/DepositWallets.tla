--------------------------- MODULE DepositWallets ---------------------------
(***************************************************************************)
(* The contracts that collect the payments: a factory with an owner and a  *)
(* treasury, and a wallet for each payment, on one of three chains.  An    *)
(* Ethereum or a Solana transaction is atomic.  On TON the factory sends a *)
(* message to the wallet and the wallet one to the jetton contract, and    *)
(* anything may happen between them.                                       *)
(*                                                                         *)
(* Transactions that revert leave no trace.  Fees, rent and the            *)
(* derivation of addresses are left out; a payment stands for its wallet.  *)
(***************************************************************************)
EXTENDS Integers, FiniteSets, SequencesExt, FiniteSetsExt

CONSTANTS
    Deposits,       \* salts, payment ids
    Parties,        \* addresses that own a factory or collect for it
    ZeroAddress,
    Chains,
    MaxDeposited,   \* bound on the payments of each asset, in units
    MaxOrders       \* bound on the sweeps ordered on TON

ASSUME WalletsAssumption ==
    /\ Deposits \cap (Parties \cup {ZeroAddress}) = {}
    /\ ZeroAddress \notin Parties
    /\ Chains \subseteq {"eth", "sol", "ton"}
    /\ IsFiniteSet(Deposits) /\ IsFiniteSet(Parties)
    /\ MaxDeposited \in Nat /\ MaxOrders \in Nat

VARIABLES
    chain,
    owner,          \* factory.owner
    treasury,       \* factory.treasury
    deployed,       \* wallets whose code is on the chain
    balance,        \* of every asset and address
    sweeps,         \* TON: messages from the factory to each wallet
    transfers,      \* TON: messages from each wallet to the jetton contract
    deposited,      \* units of each asset paid so far
    orders,         \* sweeps ordered on TON
    collected       \* history: units moved by sweeps ordered while each address was the treasury

walletVars == <<chain, owner, treasury, deployed, balance, sweeps, transfers, deposited, orders,
                collected>>

Assets == {"token", "native"}
Collectors == Parties \cup {ZeroAddress}
Holders == Deposits \cup Collectors

(* The type of the contracts' state; nobody owes tokens.  ordered is no     *)
(* field of the messages but history: the treasury when the sweep was       *)
(* ordered.                                                                 *)
WalletsTypeOK ==
    /\ chain \in Chains
    /\ owner \in Collectors /\ treasury \in Collectors
    /\ deployed \subseteq Deposits
    /\ balance \in [Assets -> [Holders -> Nat]]
    /\ sweeps \in [Deposits -> Seq([asset : Assets, to : Collectors, amount : Nat,
                                     ordered : Collectors])]
    /\ transfers \in [Deposits -> Seq([to : Collectors, amount : Nat, ordered : Collectors])]
    /\ deposited \in [Assets -> 0..MaxDeposited]
    /\ orders \in 0..MaxOrders
    /\ collected \in [Assets -> [Collectors -> Nat]]

(* Vyper's constructor is the only one that checks the treasury.            *)
InitialTreasuries == IF chain = "eth" THEN Parties ELSE Collectors

(* The constructors.                                                        *)
WalletsInit ==
    /\ chain \in Chains
    /\ owner \in Parties
    /\ treasury \in InitialTreasuries
    /\ deployed = {}
    /\ balance = [a \in Assets |-> [h \in Holders |-> 0]]
    /\ sweeps = [d \in Deposits |-> <<>>]
    /\ transfers = [d \in Deposits |-> <<>>]
    /\ deposited = [a \in Assets |-> 0]
    /\ orders = 0
    /\ collected = [a \in Assets |-> [p \in Collectors |-> 0]]

(* A user pays to the address, whether or not the wallet is deployed; the   *)
(* Solana program only knows the token.                                     *)
PayIn(d, a) ==
    /\ deposited[a] < MaxDeposited
    /\ chain = "sol" => a = "token"
    /\ deposited' = [deposited EXCEPT ![a] = @ + 1]
    /\ balance' = [balance EXCEPT ![a][d] = @ + 1]
    /\ UNCHANGED <<chain, owner, treasury, deployed, sweeps, transfers, orders, collected>>

(* Mutant: the wallet is not debited.                                       *)
MutantMove(a, d, to, ordered, n) ==
    /\ balance' = [balance EXCEPT ![a][to] = @ + n]
    /\ collected' = [collected EXCEPT ![a][ordered] = @ + n]

(* n units go from the wallet to an address, by a sweep that was ordered    *)
(* while ordered was the treasury.                                          *)
Move(a, d, to, ordered, n) ==
    /\ balance' = [balance EXCEPT ![a][d] = @ - n, ![a][to] = @ + n]
    /\ collected' = [collected EXCEPT ![a][ordered] = @ + n]

-----------------------------------------------------------------------------
(* Ethereum.  _deploy_if_needed makes every sweep repeatable, and a wallet  *)
(* without balance is no error.                                             *)
DeployEth(by, d) ==
    /\ chain = "eth" /\ by = owner
    /\ deployed' = deployed \cup {d}
    /\ UNCHANGED <<chain, owner, treasury, balance, sweeps, transfers, deposited, orders, collected>>

(* sweep, and deployAndSweep for the configured token.                      *)
SweepEth(by, d, a) ==
    /\ chain = "eth" /\ by = owner
    /\ deployed' = deployed \cup {d}
    /\ Move(a, d, treasury, treasury, balance[a][d])
    /\ UNCHANGED <<chain, owner, treasury, sweeps, transfers, deposited, orders>>

-----------------------------------------------------------------------------
(* Solana.  The caller names the treasury account.                          *)

(* has_one = treasury, and ZeroBalance for an empty account.                *)
SweepSol(by, d, to) ==
    /\ chain = "sol" /\ by = owner /\ to = treasury
    /\ balance["token"][d] > 0
    /\ Move("token", d, to, treasury, balance["token"][d])
    /\ UNCHANGED <<chain, owner, treasury, deployed, sweeps, transfers, deposited, orders>>

-----------------------------------------------------------------------------
(* TON.                                                                     *)

(* DeployAndSweep and DeployAndSweepTon send the treasury of this moment;   *)
(* the amount of jettons is the caller's.                                   *)
OrderSweep(by, d, a, n) ==
    /\ chain = "ton" /\ by = owner
    /\ orders < MaxOrders
    /\ orders' = orders + 1
    /\ sweeps' = [sweeps EXCEPT ![d] = Append(@,
                 [asset |-> a, to |-> treasury, amount |-> n, ordered |-> treasury])]
    /\ UNCHANGED <<chain, owner, treasury, deployed, balance, transfers, deposited, collected>>

(* Mutant: the wallet asks for the treasury of its arrival.                 *)
MutantRecipient(msg) == treasury

(* A message is paid to the address it names.                               *)
Recipient(msg) == msg.to

(* The message carries the wallet's code.  SweepTon sends what the wallet   *)
(* has by now, Sweep asks the jetton contract for a transfer.               *)
ReceiveSweep(d) ==
    LET msg == Head(sweeps[d]) IN
    /\ sweeps[d] # <<>>
    /\ sweeps' = [sweeps EXCEPT ![d] = Tail(@)]
    /\ deployed' = deployed \cup {d}
    /\ \/ /\ msg.asset = "native"
          /\ Move("native", d, Recipient(msg), msg.ordered, balance["native"][d])
          /\ UNCHANGED transfers
       \/ /\ msg.asset = "token"
          /\ transfers' = [transfers EXCEPT ![d] = Append(@,
                 [to |-> Recipient(msg), amount |-> msg.amount, ordered |-> msg.ordered])]
          /\ UNCHANGED <<balance, collected>>
    /\ UNCHANGED <<chain, owner, treasury, deposited, orders>>

(* Mutant: the jetton contract does not look at the balance.                *)
MutantPayable(d, n) == TRUE

(* The jetton contract refuses what the wallet does not have.               *)
Payable(d, n) == n <= balance["token"][d]

(* JettonTransfer with bounce: false - nobody hears of a refusal.           *)
TransferJettons(d) ==
    LET msg == Head(transfers[d]) IN
    /\ transfers[d] # <<>>
    /\ transfers' = [transfers EXCEPT ![d] = Tail(@)]
    /\ IF Payable(d, msg.amount)
       THEN Move("token", d, msg.to, msg.ordered, msg.amount)
       ELSE UNCHANGED <<balance, collected>>
    /\ UNCHANGED <<chain, owner, treasury, deployed, sweeps, deposited, orders>>

-----------------------------------------------------------------------------
(* Administration.  TON's factory takes any address.                        *)

Accepted(address) == chain = "ton" \/ address # ZeroAddress

SetTreasury(by, new) ==
    /\ by = owner /\ Accepted(new)
    /\ treasury' = new
    /\ UNCHANGED <<chain, owner, deployed, balance, sweeps, transfers, deposited, orders, collected>>

TransferOwnership(by, new) ==
    /\ by = owner /\ Accepted(new)
    /\ owner' = new
    /\ UNCHANGED <<chain, treasury, deployed, balance, sweeps, transfers, deposited, orders, collected>>

(* Nobody can sign for the zero address.                                    *)
WalletsNext ==
    \/ \E d \in Deposits, a \in Assets : PayIn(d, a)
    \/ \E by \in Parties :
        \/ \E d \in Deposits :
            \/ DeployEth(by, d)
            \/ \E a \in Assets : SweepEth(by, d, a)
            \/ \E to \in Collectors : SweepSol(by, d, to)
            \/ \E a \in Assets, n \in 1..MaxDeposited : OrderSweep(by, d, a, n)
        \/ \E new \in Collectors : SetTreasury(by, new) \/ TransferOwnership(by, new)
    \/ \E d \in Deposits : ReceiveSweep(d) \/ TransferJettons(d)

WalletsSpec == WalletsInit /\ [][WalletsNext]_walletVars

-----------------------------------------------------------------------------
(* Every unit paid is in its wallet or was collected: sweeps repeated,      *)
(* overtaken by deposits or by each other on TON create and lose nothing.   *)
MoneyAccounted ==
    \A a \in Assets :
        SumFunction(balance[a]) = deposited[a]

(* Each address holds exactly what the sweeps ordered while it was the      *)
(* treasury have moved, although a TON sweep may arrive after the treasury, *)
(* or the owner, has changed: none is paid to the treasury of its arrival.  *)
MoneyGoesToTreasury ==
    \A a \in Assets, p \in Collectors : balance[a][p] = collected[a][p]
=============================================================================
