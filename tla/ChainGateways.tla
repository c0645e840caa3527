---------------------------- MODULE ChainGateways ----------------------------
(***************************************************************************)
(* How the payment service reaches the chains: the Ethereum and the Solana *)
(* gateway, the lifespan of the process that owns them, and the checks     *)
(* that ask for a balance and then sweep.  What a check writes to the      *)
(* database is PaymentService's; here it ends with its answer.             *)
(*                                                                         *)
(* Every sweep of the service is signed with one Ethereum account.  A      *)
(* check reads the account's next nonce, and other checks read it too      *)
(* before the transaction is sent.  The node is modelled from how eth.py   *)
(* and sol.py use it.                                                      *)
(***************************************************************************)
EXTENDS Integers, FiniteSets

CONSTANTS
    Checks,         \* calls of CheckCryptoPaymentHandler, each made once
    Polls,          \* those of them that the background checker makes
    EthAddresses,   \* deposit addresses on Ethereum
    SolAddresses,   \* and on Solana
    NodeFaults      \* bound on errors, lost answers, evictions and crashes

Addresses == EthAddresses \cup SolAddresses
NoAddress == "no address"

ASSUME GatewaysAssumption ==
    /\ Polls \subseteq Checks /\ IsFiniteSet(Checks)
    /\ EthAddresses \cap SolAddresses = {}
    /\ NoAddress \notin Addresses
    /\ NodeFaults \in Nat

VARIABLES
    settings,       \* what is configured
    lifespan,       \* how far the process has come up or down
    gateways,       \* the gateways that are available
    check,          \* what each check is doing
    funds,          \* token account of each address
    nonce,          \* Ethereum transactions executed so far
    pool,           \* Ethereum transactions the node has taken
    sent,           \* Solana transactions the node has taken
    executed,       \* transactions executed on either chain
    evicted,        \* the node has forgotten an Ethereum transaction
    nodeFaults

chainVars == <<funds, nonce, pool, sent, executed, evicted>>
gatewayVars == <<settings, lifespan, gateways, check, chainVars, nodeFaults>>

(* eth: eth_rpc_url; factory: payment_factory_address and                   *)
(* factory_owner_private_key; solana: all four settings, and for            *)
(* "configured" a valid keypair file.  "malformed" is an address that       *)
(* to_checksum_address or Pubkey.from_string raises on.                     *)
Settings == [eth : {"missing", "configured", "malformed"}, factory : BOOLEAN,
             solana : {"missing", "configured", "malformed"}]

NetworkOf(a) == IF a \in EthAddresses THEN "eth" ELSE "sol"

(* A transaction is known by the check it was built for, its nonce and the  *)
(* place among that check's candidates.                                     *)
Transactions == [by : Checks, nonce : Nat, candidate : {1, 2}]

InFlight == {"balance", "prepare", "first", "second"}

CheckState == [pc : {"new", "returned", "pending", "error", "cancelled"} \cup InFlight,
               address : Addresses \cup {NoAddress}, nonce : Nat]

(* The type of the state.                                                   *)
GatewayTypeOK ==
    /\ settings \in Settings
    /\ lifespan \in {"down", "eth", "sol", "starting", "serving", "draining", "closing"}
    /\ gateways \subseteq {"eth", "sol"}
    /\ check \in [Checks -> CheckState]
    /\ funds \in [Addresses -> {"none", "empty", "funded"}]
    /\ nonce \in Nat
    /\ pool \subseteq Transactions /\ sent \subseteq Transactions
    /\ executed \subseteq Transactions
    /\ evicted \in BOOLEAN
    /\ nodeFaults \in 0..NodeFaults

(* A Solana token account does not exist before the first transfer.         *)
GatewaysInit ==
    /\ settings \in Settings
    /\ lifespan = "down"
    /\ gateways = {}
    /\ check = [c \in Checks |-> [pc |-> "new", address |-> NoAddress, nonce |-> 0]]
    /\ funds = [a \in Addresses |-> IF a \in EthAddresses THEN "empty" ELSE "none"]
    /\ nonce = 0
    /\ pool = {} /\ sent = {} /\ executed = {}
    /\ evicted = FALSE
    /\ nodeFaults = 0

Fails == nodeFaults < NodeFaults /\ nodeFaults' = nodeFaults + 1

Goto(c, pc) == check' = [check EXCEPT ![c].pc = pc]

Busy(cs) == {c \in cs : check[c].pc \in InFlight}
Cancel(cs) == check' = [c \in Checks |-> IF c \in Busy(cs)
                                         THEN [check[c] EXCEPT !.pc = "cancelled"] ELSE check[c]]

-----------------------------------------------------------------------------
(* lifespan.                                                                *)

(* Without ETH_RPC_URL the gateway stays down; else it asks for the chain   *)
(* id.  An exception, of the node's or over an address, ends the process.   *)
StartEth ==
    /\ lifespan = "down"
    /\ \/ /\ settings.eth # "malformed"
          /\ gateways' = IF settings.eth = "configured" THEN {"eth"} ELSE {}
          /\ lifespan' = "eth"
          /\ UNCHANGED nodeFaults
       \/ /\ settings.eth = "configured" /\ Fails
          /\ UNCHANGED <<gateways, lifespan>>
    /\ UNCHANGED <<settings, check, chainVars>>

(* A missing setting or keypair is no error, an address is.                 *)
StartSol ==
    /\ lifespan = "eth"
    /\ IF settings.solana = "malformed"
       THEN gateways' = {} /\ lifespan' = "down"
       ELSE /\ gateways' = gateways \cup (IF settings.solana = "configured" THEN {"sol"} ELSE {})
            /\ lifespan' = "sol"
    /\ UNCHANGED <<settings, check, chainVars, nodeFaults>>

(* The container is filled and the checker's task created, which polls      *)
(* while the gRPC server is still starting.                                 *)
CreateChecker ==
    /\ lifespan = "sol"
    /\ lifespan' = "starting"
    /\ UNCHANGED <<settings, gateways, check, chainVars, nodeFaults>>

(* If the server does not start the checker is cancelled at once.           *)
StartServer ==
    /\ lifespan = "starting"
    /\ \/ lifespan' = "serving" /\ UNCHANGED <<check, nodeFaults>>
       \/ lifespan' = "closing" /\ Cancel(Polls) /\ Fails
    /\ UNCHANGED <<settings, gateways, chainVars>>

(* server.stop(grace=5) refuses new calls at once ...                       *)
StopServer ==
    /\ lifespan = "serving"
    /\ lifespan' = "draining"
    /\ UNCHANGED <<settings, gateways, check, chainVars, nodeFaults>>

(* ... and cancels those that are not done in time.                         *)
GraceEnds ==
    /\ lifespan = "draining"
    /\ Busy(Checks \ Polls) # {}
    /\ Cancel(Checks \ Polls)
    /\ UNCHANGED <<settings, lifespan, gateways, chainVars, nodeFaults>>

(* Mutant: the checker is not cancelled first.                              *)
MutantCancelChecker ==
    /\ lifespan = "draining"
    /\ Busy(Checks \ Polls) = {}
    /\ lifespan' = "closing"
    /\ UNCHANGED <<settings, gateways, check, chainVars, nodeFaults>>

(* Once the server has stopped the checker is cancelled and waited for.     *)
CancelChecker ==
    /\ lifespan = "draining"
    /\ Busy(Checks \ Polls) = {}
    /\ Cancel(Polls)
    /\ lifespan' = "closing"
    /\ UNCHANGED <<settings, gateways, chainVars, nodeFaults>>

(* sol_gateway.close(), and the end of the process.                         *)
CloseGateways ==
    /\ lifespan = "closing"
    /\ gateways' = {}
    /\ lifespan' = "down"
    /\ UNCHANGED <<settings, check, chainVars, nodeFaults>>

Crash ==
    /\ lifespan # "down" /\ Fails
    /\ Cancel(Checks)
    /\ gateways' = {}
    /\ lifespan' = "down"
    /\ UNCHANGED <<settings, chainVars>>

-----------------------------------------------------------------------------
(* A check.                                                                 *)

TakeUp(c, a) == check' = [check EXCEPT ![c] = [@ EXCEPT !.pc = "balance", !.address = a]]

(* The checker takes one payment after the other, of the gateways that are  *)
(* available.                                                               *)
PollPayment(c, a) ==
    /\ c \in Polls /\ check[c].pc = "new"
    /\ lifespan \in {"starting", "serving", "draining"}
    /\ Busy(Polls) = {}
    /\ NetworkOf(a) \in gateways
    /\ TakeUp(c, a)
    /\ UNCHANGED <<settings, lifespan, gateways, chainVars, nodeFaults>>

(* A gRPC caller names any payment; without its gateway _ensure_available   *)
(* raises, and the call ends with INTERNAL.                                 *)
CallCheck(c, a) ==
    /\ c \in Checks \ Polls /\ check[c].pc = "new"
    /\ lifespan = "serving"
    /\ IF NetworkOf(a) \in gateways THEN TakeUp(c, a) ELSE Goto(c, "error")
    /\ UNCHANGED <<settings, lifespan, gateways, chainVars, nodeFaults>>

(* has_sufficient_payment.  That a Solana account could not be found is a   *)
(* balance of 0, any other exception is passed on.                          *)
ReadBalance(c) ==
    /\ check[c].pc = "balance"
    /\ \/ /\ Goto(c, IF funds[check[c].address] = "funded" THEN "prepare" ELSE "pending")
          /\ UNCHANGED nodeFaults
       \/ Goto(c, "error") /\ Fails
    /\ UNCHANGED <<settings, lifespan, gateways, chainVars>>

Taken(n) == \E tx \in pool : tx.nonce = n

(* Mutant: the service hands out nonces itself, and takes none back.        *)
MutantIsPendingCount(n) ==
    LET Reserved(m) == \E c \in Checks : check[c].pc \in {"first", "second"} /\ check[c].nonce = m
    IN  /\ n >= nonce /\ ~Taken(n) /\ ~Reserved(n)
        /\ \A m \in nonce..(n - 1) : Taken(m) \/ Reserved(m)

(* get_transaction_count(account, "pending"): the first nonce that is       *)
(* neither executed nor taken.                                              *)
IsPendingCount(n) == n >= nonce /\ ~Taken(n) /\ \A m \in nonce..(n - 1) : Taken(m)

(* Gas price, chain id and nonce, or the latest blockhash; whatever raises  *)
(* from here on leaves the payment pending.  No more nonces can be taken    *)
(* than there are checks.                                                   *)
PrepareSweep(c) ==
    /\ check[c].pc = "prepare"
    /\ IF NetworkOf(check[c].address) = "sol" THEN Goto(c, "first")
       ELSE IF ~settings.factory THEN Goto(c, "pending")
       ELSE \E n \in nonce..(nonce + Cardinality(Checks)) :
                /\ IsPendingCount(n)
                /\ check' = [check EXCEPT ![c] = [@ EXCEPT !.pc = "first", !.nonce = n]]
    /\ UNCHANGED <<settings, lifespan, gateways, chainVars, nodeFaults>>

PrepareFails(c) ==
    /\ check[c].pc = "prepare" /\ Fails
    /\ Goto(c, "pending")
    /\ UNCHANGED <<settings, lifespan, gateways, chainVars>>

(* Mutant: the second candidate gets a nonce of its own.                    *)
MutantCandidate(c) ==
    LET k == IF check[c].pc = "first" THEN 1 ELSE 2 IN
    [by |-> c, nonce |-> check[c].nonce + k - 1, candidate |-> k]

(* tx_candidates: EIP-1559 first, then the legacy gas price, with one nonce.*)
Candidate(c) ==
    [by |-> c, nonce |-> check[c].nonce, candidate |-> IF check[c].pc = "first" THEN 1 ELSE 2]

(* The node takes a transaction, in place of another of that nonce if it    *)
(* pays enough.                                                             *)
NodeTakes(tx) ==
    /\ tx.nonce >= nonce
    /\ pool' = {other \in pool : other.nonce # tx.nonce} \cup {tx}

(* Mutant: one candidate too many.                                          *)
MutantAfterError(c) == IF check[c].pc = "first" THEN "second" ELSE "third"

(* The other candidate is tried, then the sweep has failed.                 *)
AfterError(c) == IF check[c].pc = "first" THEN "second" ELSE "pending"

(* send_raw_transaction.  It raises when the node refuses the transaction,  *)
(* and when the answer is lost.                                             *)
SendEth(c) ==
    LET tx == Candidate(c) IN
    /\ check[c].pc \in {"first", "second"} /\ NetworkOf(check[c].address) = "eth"
    /\ \/ NodeTakes(tx) /\ Goto(c, "returned") /\ UNCHANGED nodeFaults
       \/ NodeTakes(tx) /\ Goto(c, AfterError(c)) /\ Fails
       \/ /\ tx.nonce < nonce \/ Taken(tx.nonce)
          /\ Goto(c, AfterError(c))
          /\ UNCHANGED <<pool, nodeFaults>>
       \/ Goto(c, AfterError(c)) /\ Fails /\ UNCHANGED pool
    /\ UNCHANGED <<settings, lifespan, gateways, funds, nonce, sent, executed, evicted>>

(* The preflight of Solana's node executes the transaction on its state.    *)
SendSol(c) ==
    LET a == check[c].address
        tx == Candidate(c) IN
    /\ check[c].pc = "first" /\ NetworkOf(a) = "sol"
    /\ IF funds[a] = "funded"
       THEN /\ sent' = sent \cup {tx}
            /\ \/ Goto(c, "returned") /\ UNCHANGED nodeFaults
               \/ Goto(c, "pending") /\ Fails
       ELSE Goto(c, "pending") /\ UNCHANGED <<sent, nodeFaults>>
    /\ UNCHANGED <<settings, lifespan, gateways, funds, nonce, pool, executed, evicted>>

-----------------------------------------------------------------------------
(* The chains.                                                              *)

(* A user pays; on Solana that creates the account.                         *)
PayUser(a) ==
    /\ funds' = [funds EXCEPT ![a] = "funded"]
    /\ UNCHANGED <<settings, lifespan, gateways, check, nonce, pool, sent, executed, evicted,
                   nodeFaults>>

(* deployAndSweep of an empty wallet succeeds as well.                      *)
Mine(tx) ==
    /\ tx \in pool /\ tx.nonce = nonce
    /\ pool' = pool \ {tx}
    /\ nonce' = nonce + 1
    /\ executed' = executed \cup {tx}
    /\ funds' = [funds EXCEPT ![check[tx.by].address] = "empty"]
    /\ UNCHANGED <<settings, lifespan, gateways, check, sent, evicted, nodeFaults>>

Forget(tx) ==
    /\ tx \in pool /\ Fails
    /\ pool' = pool \ {tx}
    /\ evicted' = TRUE
    /\ UNCHANGED <<settings, lifespan, gateways, check, funds, nonce, sent, executed>>

(* The program refuses an empty account, and a transaction whose blockhash  *)
(* has grown old is never executed.                                         *)
LandSol(tx) ==
    LET a == check[tx.by].address IN
    /\ tx \in sent
    /\ sent' = sent \ {tx}
    /\ \/ /\ funds[a] = "funded"
          /\ funds' = [funds EXCEPT ![a] = "empty"]
          /\ executed' = executed \cup {tx}
       \/ UNCHANGED <<funds, executed>>
    /\ UNCHANGED <<settings, lifespan, gateways, check, nonce, pool, evicted, nodeFaults>>

GatewaysNext ==
    \/ StartEth \/ StartSol \/ CreateChecker \/ StartServer
    \/ StopServer \/ GraceEnds \/ CancelChecker \/ CloseGateways \/ Crash
    \/ \E c \in Checks :
        \/ \E a \in Addresses : PollPayment(c, a) \/ CallCheck(c, a)
        \/ ReadBalance(c) \/ PrepareSweep(c) \/ PrepareFails(c) \/ SendEth(c) \/ SendSol(c)
    \/ \E a \in Addresses : PayUser(a)
    \/ \E tx \in pool : Mine(tx) \/ Forget(tx)
    \/ \E tx \in sent : LandSol(tx)

GatewaysSpec == GatewaysInit /\ [][GatewaysNext]_gatewayVars

-----------------------------------------------------------------------------
(* A check sweeps at most once, although it sends a second transaction when *)
(* it does not know what became of the first one.                           *)
SweptOncePerCheck ==
    \A tx, other \in executed : tx.by = other.by => tx = other

(* No sweep waits for a nonce that nobody has: checks that read the nonce   *)
(* side by side, fail, or are cancelled before they send leave no gap in    *)
(* front of a transaction, unless the node forgets one.                     *)
NoNonceGap ==
    ~evicted => \A tx \in pool : \A n \in nonce..tx.nonce : Taken(n)

(* A check under way finds its gateway open, until the very end of a        *)
(* shutdown or of a failed start.                                           *)
GatewayOutlivesChecks ==
    \A c \in Checks : check[c].pc \in InFlight => NetworkOf(check[c].address) \in gateways
=============================================================================
