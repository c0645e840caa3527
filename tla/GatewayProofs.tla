---------------------------- MODULE GatewayProofs ----------------------------
(***************************************************************************)
(* What holds of the gateways for any number of checks and addresses,      *)
(* whatever the node refuses, loses or forgets: a check sweeps once, the   *)
(* nonces have no gap, and no gateway is closed under a check.             *)
(***************************************************************************)
EXTENDS ChainGateways, TLAPS

(* A check that is at its first candidate or further has its address and    *)
(* its nonce for good.                                                      *)
Prepared == {"first", "second", "returned", "pending", "error", "cancelled"}

(* Of a check's candidates the pool holds one at a time, and only as long   *)
(* as their nonce has not been executed.                                    *)
PoolOK ==
    \A tx \in pool :
        /\ check[tx.by].pc \in Prepared
        /\ check[tx.by].address \in EthAddresses
        /\ tx.nonce = check[tx.by].nonce
        /\ tx.nonce >= nonce
        /\ \A other \in pool : other.nonce = tx.nonce => other = tx

(* A Solana check has no second candidate.                                  *)
SentOK ==
    \A tx \in sent :
        /\ check[tx.by].pc \in Prepared
        /\ check[tx.by].address \notin EthAddresses
        /\ tx.nonce = check[tx.by].nonce
        /\ tx.candidate = 1

(* The account's nonce is past what was executed, and no nonce was executed *)
(* twice.                                                                   *)
ExecutedOK ==
    \A tx \in executed :
        /\ check[tx.by].pc \in Prepared
        /\ tx.nonce = check[tx.by].nonce
        /\ check[tx.by].address \notin EthAddresses => tx.candidate = 1
        /\ check[tx.by].address \in EthAddresses =>
             /\ tx.nonce < nonce
             /\ \A other \in executed :
                  check[other.by].address \in EthAddresses /\ other.nonce = tx.nonce => other = tx

(* A nonce that a check has read is the next one after those in the pool,   *)
(* and stays so although other checks send theirs.                          *)
NonceOK ==
    ~evicted =>
        \A c \in Checks :
            check[c].pc \in {"first", "second"} /\ check[c].address \in EthAddresses =>
                \A n \in nonce..(check[c].nonce - 1) : Taken(n)

(* While the gateways come up and go down nothing asks them; until the      *)
(* server has started only the checker does.                                *)
LifespanOK ==
    \A c \in Checks :
        check[c].pc \in InFlight =>
            /\ lifespan \in {"starting", "serving", "draining"}
            /\ lifespan = "starting" => c \in Polls

GatewaysInv ==
    /\ GatewayTypeOK
    /\ PoolOK /\ SentOK /\ ExecutedOK
    /\ NonceOK /\ NoNonceGap
    /\ LifespanOK /\ GatewayOutlivesChecks

-----------------------------------------------------------------------------
(* A step of a check changes its program point and nothing else.            *)
LEMMA GotoIs ==
    ASSUME GatewayTypeOK, NEW c \in Checks,
           NEW pc \in {"new", "returned", "pending", "error", "cancelled"} \cup InFlight,
           Goto(c, pc)
    PROVE  /\ check' \in [Checks -> CheckState]
           /\ check'[c].pc = pc
           /\ \A d \in Checks : /\ check'[d].address = check[d].address
                                /\ check'[d].nonce = check[d].nonce
                                /\ d # c => check'[d] = check[d]
<1>1. check \in [Checks -> CheckState]
    BY DEF GatewayTypeOK
<1>2. check' = [check EXCEPT ![c] = [check[c] EXCEPT !.pc = pc]]
    BY DEF Goto
<1>3. [check[c] EXCEPT !.pc = pc] \in CheckState
    BY <1>1 DEF CheckState
<1>4. /\ [check[c] EXCEPT !.pc = pc].pc = pc
      /\ [check[c] EXCEPT !.pc = pc].address = check[c].address
      /\ [check[c] EXCEPT !.pc = pc].nonce = check[c].nonce
    BY <1>1 DEF CheckState
<1> QED BY <1>1, <1>2, <1>3, <1>4

(* Cancelling changes those that are under way.                             *)
LEMMA CancelIs ==
    ASSUME GatewayTypeOK, NEW cs, cs \subseteq Checks, Cancel(cs)
    PROVE  /\ check' \in [Checks -> CheckState]
           /\ \A d \in Checks :
                IF d \in cs /\ check[d].pc \in InFlight
                THEN /\ check'[d].pc = "cancelled"
                     /\ check'[d].address = check[d].address
                     /\ check'[d].nonce = check[d].nonce
                ELSE check'[d] = check[d]
<1>1. check \in [Checks -> CheckState]
    BY DEF GatewayTypeOK
<1>2. \A d \in Checks : /\ [check[d] EXCEPT !.pc = "cancelled"] \in CheckState
                        /\ [check[d] EXCEPT !.pc = "cancelled"].pc = "cancelled"
                        /\ [check[d] EXCEPT !.pc = "cancelled"].address = check[d].address
                        /\ [check[d] EXCEPT !.pc = "cancelled"].nonce = check[d].nonce
    BY <1>1 DEF CheckState
<1> QED BY <1>1, <1>2 DEF Cancel, Busy

(* What the transactions refer to stays as it is.                           *)
StaysPrepared ==
    \A c \in Checks :
        check[c].pc \in Prepared =>
            /\ check'[c].pc \in Prepared
            /\ check'[c].address = check[c].address
            /\ check'[c].nonce = check[c].nonce

(* A step of checks that touches no chain keeps what is said of the chains  *)
(* ...                                                                      *)
LEMMA ChainsKept ==
    ASSUME GatewayTypeOK, PoolOK, SentOK, ExecutedOK, StaysPrepared, UNCHANGED chainVars
    PROVE  PoolOK' /\ SentOK' /\ ExecutedOK'
<1>1. /\ pool' = pool /\ sent' = sent /\ executed' = executed /\ nonce' = nonce
      /\ \A tx \in pool \cup sent \cup executed : tx.by \in Checks
    BY DEF GatewayTypeOK, Transactions, chainVars
<1>2. PoolOK'
    BY <1>1 DEF PoolOK, StaysPrepared
<1>3. SentOK'
    BY <1>1 DEF SentOK, StaysPrepared
<1>4. ExecutedOK'
    BY <1>1 DEF ExecutedOK, StaysPrepared
<1> QED BY <1>2, <1>3, <1>4

(* ... and, if it reads no nonce, of the nonces.                            *)
LEMMA NoncesKept ==
    ASSUME NonceOK, NoNonceGap, UNCHANGED chainVars,
           \A c \in Checks :
               check'[c].pc \in {"first", "second"} =>
                   /\ check[c].pc \in {"first", "second"} \/ check[c].address \notin EthAddresses
                   /\ check'[c].address = check[c].address
                   /\ check'[c].nonce = check[c].nonce
    PROVE  NonceOK' /\ NoNonceGap'
<1>1. pool' = pool /\ nonce' = nonce /\ evicted' = evicted
    BY DEF chainVars
<1>2. \A n : Taken(n)' <=> Taken(n)
    BY <1>1 DEF Taken
<1>3. NonceOK'
    BY <1>1, <1>2 DEF NonceOK
<1>4. NoNonceGap'
    BY <1>1, <1>2 DEF NoNonceGap
<1> QED BY <1>3, <1>4

(* Checks end, or go on, while the process stays as it is.                  *)
LEMMA LifespanKept ==
    ASSUME LifespanOK, GatewayOutlivesChecks, UNCHANGED <<lifespan, gateways>>,
           \A c \in Checks :
               check'[c].pc \in InFlight =>
                   check[c].pc \in InFlight /\ check'[c].address = check[c].address
    PROVE  LifespanOK' /\ GatewayOutlivesChecks'
<1>1. lifespan' = lifespan /\ gateways' = gateways
    OBVIOUS
<1>2. LifespanOK'
    BY <1>1 DEF LifespanOK
<1>3. GatewayOutlivesChecks'
    BY <1>1 DEF GatewayOutlivesChecks, NetworkOf
<1> QED BY <1>2, <1>3

(* A step that leaves the checks and the chains alone, while nothing is     *)
(* under way or with the gateways as they are.                              *)
LEMMA ProcessStep ==
    ASSUME GatewaysInv, UNCHANGED <<check, chainVars>>, GatewayTypeOK',
           LifespanOK', GatewayOutlivesChecks'
    PROVE  GatewaysInv'
<1> USE DEF GatewaysInv
<1>1. check' = check /\ UNCHANGED chainVars
    OBVIOUS
<1>2. StaysPrepared
    BY <1>1 DEF StaysPrepared
<1>3. PoolOK' /\ SentOK' /\ ExecutedOK'
    BY <1>1, <1>2, ChainsKept
<1>4. NonceOK' /\ NoNonceGap'
    BY <1>1, NoncesKept
<1> QED BY <1>3, <1>4

(* Checks are cancelled.                                                    *)
LEMMA CancelStep ==
    ASSUME GatewaysInv, NEW cs, cs \subseteq Checks, Cancel(cs), UNCHANGED chainVars,
           GatewayTypeOK', LifespanOK', GatewayOutlivesChecks'
    PROVE  GatewaysInv'
<1> USE DEF GatewaysInv
<1>1. \A d \in Checks : /\ check'[d] = check[d] \/ check'[d].pc = "cancelled"
                        /\ check'[d].address = check[d].address
                        /\ check'[d].nonce = check[d].nonce
    BY CancelIs
<1>2. StaysPrepared
    BY <1>1 DEF StaysPrepared, Prepared
<1>3. PoolOK' /\ SentOK' /\ ExecutedOK'
    BY <1>2, ChainsKept
<1>4. NonceOK' /\ NoNonceGap'
    BY <1>1, NoncesKept
<1> QED BY <1>3, <1>4

(* One check moves on without a nonce and without a transaction.            *)
LEMMA CheckStep ==
    ASSUME GatewaysInv, NEW c \in Checks, check[c].pc \in InFlight,
           NEW pc \in {"prepare", "second", "returned", "pending", "error"},
           pc = "prepare" => check[c].pc = "balance",
           pc = "second" => check[c].pc = "first",
           Goto(c, pc), UNCHANGED <<settings, lifespan, gateways, chainVars>>,
           nodeFaults' \in 0..NodeFaults
    PROVE  GatewaysInv'
<1> USE DEF GatewaysInv
<1>1. pc \in {"new", "returned", "pending", "error", "cancelled"} \cup InFlight
    BY DEF InFlight
<1>2. /\ check' \in [Checks -> CheckState]
      /\ check'[c].pc = pc
      /\ \A d \in Checks : /\ check'[d].address = check[d].address
                           /\ check'[d].nonce = check[d].nonce
                           /\ d # c => check'[d] = check[d]
    BY <1>1, GotoIs
<1>3. GatewayTypeOK'
    BY <1>2 DEF GatewayTypeOK, chainVars
<1>4. StaysPrepared
    BY <1>2 DEF StaysPrepared, Prepared, InFlight
<1>5. PoolOK' /\ SentOK' /\ ExecutedOK'
    BY <1>4, ChainsKept
<1>6. NonceOK' /\ NoNonceGap'
    BY <1>2, NoncesKept
<1>7. LifespanOK' /\ GatewayOutlivesChecks'
    <2>1. \A d \in Checks : check'[d].pc \in InFlight =>
              check[d].pc \in InFlight /\ check'[d].address = check[d].address
        BY <1>2
    <2> QED BY <2>1, LifespanKept
<1> QED BY <1>3, <1>5, <1>6, <1>7

-----------------------------------------------------------------------------
(* The process comes up and goes down.                                      *)
LEMMA StartEthInv == ASSUME GatewaysAssumption, GatewaysInv, StartEth PROVE GatewaysInv'
<1>1. GatewayTypeOK /\ LifespanOK /\ UNCHANGED <<check, chainVars>> /\ check' = check
    BY DEF GatewaysInv, StartEth
<1>2. GatewayTypeOK'
    <2>1. gateways' \subseteq {"eth", "sol"} /\ lifespan' \in {"down", "eth"} /\ settings' = settings
        BY <1>1 DEF GatewayTypeOK, StartEth
    <2>2. nodeFaults' \in 0..NodeFaults
        BY <1>1 DEF GatewayTypeOK, StartEth, Fails, GatewaysAssumption
    <2> QED BY <1>1, <2>1, <2>2 DEF GatewayTypeOK, chainVars
<1>3. \A c \in Checks : check'[c].pc \notin InFlight
    BY <1>1 DEF LifespanOK, StartEth
<1>4. LifespanOK' /\ GatewayOutlivesChecks'
    BY <1>3 DEF LifespanOK, GatewayOutlivesChecks
<1> QED BY <1>1, <1>2, <1>4, ProcessStep

(* The second gateway.                                                      *)
LEMMA StartSolInv == ASSUME GatewaysInv, StartSol PROVE GatewaysInv'
<1>1. GatewayTypeOK /\ LifespanOK /\ UNCHANGED <<check, chainVars>> /\ check' = check
    BY DEF GatewaysInv, StartSol
<1>2. GatewayTypeOK'
    BY <1>1 DEF GatewayTypeOK, StartSol, chainVars
<1>3. \A c \in Checks : check'[c].pc \notin InFlight
    BY <1>1 DEF LifespanOK, StartSol
<1>4. LifespanOK' /\ GatewayOutlivesChecks'
    BY <1>3 DEF LifespanOK, GatewayOutlivesChecks
<1> QED BY <1>1, <1>2, <1>4, ProcessStep

(* The checker's task.                                                      *)
LEMMA CreateCheckerInv == ASSUME GatewaysInv, CreateChecker PROVE GatewaysInv'
<1>1. GatewayTypeOK /\ LifespanOK /\ UNCHANGED <<check, chainVars>> /\ check' = check
    BY DEF GatewaysInv, CreateChecker
<1>2. GatewayTypeOK'
    BY <1>1 DEF GatewayTypeOK, CreateChecker, chainVars
<1>3. \A c \in Checks : check'[c].pc \notin InFlight
    BY <1>1 DEF LifespanOK, CreateChecker
<1>4. LifespanOK' /\ GatewayOutlivesChecks'
    BY <1>3 DEF LifespanOK, GatewayOutlivesChecks
<1> QED BY <1>1, <1>2, <1>4, ProcessStep

(* The server starts, or the polls, which are all there is, are cancelled.  *)
LEMMA StartServerInv == ASSUME GatewaysAssumption, GatewaysInv, StartServer PROVE GatewaysInv'
<1>1. /\ GatewayTypeOK /\ LifespanOK /\ GatewayOutlivesChecks
      /\ lifespan = "starting" /\ UNCHANGED <<settings, gateways, chainVars>>
    BY DEF GatewaysInv, StartServer
<1>2. CASE lifespan' = "serving" /\ UNCHANGED <<check, nodeFaults>>
    <2>1. GatewayTypeOK'
        BY <1>1, <1>2 DEF GatewayTypeOK, chainVars
    <2>2. LifespanOK' /\ GatewayOutlivesChecks'
        BY <1>1, <1>2 DEF LifespanOK, GatewayOutlivesChecks, NetworkOf
    <2> QED BY <1>1, <1>2, <2>1, <2>2, ProcessStep
<1>3. CASE lifespan' = "closing" /\ Cancel(Polls) /\ Fails
    <2>1. Polls \subseteq Checks
        BY DEF GatewaysAssumption
    <2>2. GatewayTypeOK'
        BY <1>1, <1>3, <2>1, CancelIs DEF GatewayTypeOK, chainVars, Fails
    <2>3. \A c \in Checks : check'[c].pc \notin InFlight
        BY <1>1, <1>3, <2>1, CancelIs DEF LifespanOK, InFlight
    <2>4. LifespanOK' /\ GatewayOutlivesChecks'
        BY <2>3 DEF LifespanOK, GatewayOutlivesChecks
    <2> QED BY <1>1, <1>3, <2>1, <2>2, <2>4, CancelStep
<1> QED BY <1>2, <1>3 DEF StartServer

(* New calls are refused.                                                   *)
LEMMA StopServerInv == ASSUME GatewaysInv, StopServer PROVE GatewaysInv'
<1>1. /\ GatewayTypeOK /\ LifespanOK /\ GatewayOutlivesChecks
      /\ UNCHANGED <<check, chainVars>> /\ check' = check /\ gateways' = gateways
    BY DEF GatewaysInv, StopServer
<1>2. GatewayTypeOK'
    BY <1>1 DEF GatewayTypeOK, StopServer, chainVars
<1>3. LifespanOK' /\ GatewayOutlivesChecks'
    BY <1>1 DEF LifespanOK, GatewayOutlivesChecks, NetworkOf, StopServer
<1> QED BY <1>1, <1>2, <1>3, ProcessStep

(* The calls that are left are cancelled.                                   *)
LEMMA GraceEndsInv == ASSUME GatewaysInv, GraceEnds PROVE GatewaysInv'
<1>1. /\ GatewayTypeOK /\ LifespanOK /\ GatewayOutlivesChecks /\ Cancel(Checks \ Polls)
      /\ UNCHANGED <<settings, lifespan, gateways, chainVars, nodeFaults>>
    BY DEF GatewaysInv, GraceEnds
<1>2. /\ check' \in [Checks -> CheckState]
      /\ \A c \in Checks : check'[c].pc \in InFlight =>
             check[c].pc \in InFlight /\ check'[c].address = check[c].address
    BY <1>1, CancelIs DEF InFlight
<1>3. GatewayTypeOK'
    BY <1>1, <1>2 DEF GatewayTypeOK, chainVars
<1>4. LifespanOK' /\ GatewayOutlivesChecks'
    BY <1>1, <1>2, LifespanKept
<1> QED BY <1>1, <1>3, <1>4, CancelStep

(* Nothing is under way once the checker is cancelled too.                  *)
LEMMA CancelCheckerInv ==
    ASSUME GatewaysAssumption, GatewaysInv, CancelChecker PROVE GatewaysInv'
<1>1. /\ GatewayTypeOK /\ LifespanOK /\ Cancel(Polls) /\ Polls \subseteq Checks
      /\ lifespan' = "closing" /\ UNCHANGED <<settings, gateways, chainVars, nodeFaults>>
    BY DEF GatewaysInv, CancelChecker, GatewaysAssumption
<1>2. GatewayTypeOK'
    BY <1>1, CancelIs DEF GatewayTypeOK, chainVars
<1>3. \A c \in Checks \ Polls : check[c].pc \notin InFlight
    BY DEF CancelChecker, Busy
<1>4. \A c \in Checks : check'[c].pc \notin InFlight
    BY <1>1, <1>3, CancelIs DEF InFlight
<1>5. LifespanOK' /\ GatewayOutlivesChecks'
    BY <1>4 DEF LifespanOK, GatewayOutlivesChecks
<1> QED BY <1>1, <1>2, <1>5, CancelStep

(* The end of the process ...                                               *)
LEMMA CloseGatewaysInv == ASSUME GatewaysInv, CloseGateways PROVE GatewaysInv'
<1>1. GatewayTypeOK /\ LifespanOK /\ UNCHANGED <<check, chainVars>> /\ check' = check
    BY DEF GatewaysInv, CloseGateways
<1>2. GatewayTypeOK'
    BY <1>1 DEF GatewayTypeOK, CloseGateways, chainVars
<1>3. \A c \in Checks : check'[c].pc \notin InFlight
    BY <1>1 DEF LifespanOK, CloseGateways
<1>4. LifespanOK' /\ GatewayOutlivesChecks'
    BY <1>3 DEF LifespanOK, GatewayOutlivesChecks
<1> QED BY <1>1, <1>2, <1>4, ProcessStep

(* ... which may come at any time.                                          *)
LEMMA CrashInv == ASSUME GatewaysAssumption, GatewaysInv, Crash PROVE GatewaysInv'
<1>1. GatewayTypeOK /\ Cancel(Checks) /\ UNCHANGED chainVars
    BY DEF GatewaysInv, Crash
<1>2. GatewayTypeOK'
    BY <1>1, CancelIs DEF GatewayTypeOK, chainVars, Crash, Fails, GatewaysAssumption
<1>3. \A c \in Checks : check'[c].pc \notin InFlight
    BY <1>1, CancelIs DEF InFlight
<1>4. LifespanOK' /\ GatewayOutlivesChecks'
    BY <1>3 DEF LifespanOK, GatewayOutlivesChecks
<1> QED BY <1>1, <1>2, <1>4, CancelStep

-----------------------------------------------------------------------------
(* The checks.                                                              *)

(* The bound on faults.                                                     *)
LEMMA FaultsBounded ==
    ASSUME GatewaysAssumption, GatewayTypeOK, Fails \/ UNCHANGED nodeFaults
    PROVE  nodeFaults' \in 0..NodeFaults
BY DEF GatewaysAssumption, GatewayTypeOK, Fails

(* A new check whose gateway is open.                                       *)
LEMMA TakeUpInv ==
    ASSUME GatewaysInv, NEW c \in Checks, NEW a \in Addresses,
           check[c].pc = "new", NetworkOf(a) \in gateways, TakeUp(c, a),
           lifespan \in {"starting", "serving", "draining"},
           lifespan = "starting" => c \in Polls,
           UNCHANGED <<settings, lifespan, gateways, chainVars, nodeFaults>>
    PROVE  GatewaysInv'
<1> USE DEF GatewaysInv
<1>1. check \in [Checks -> CheckState]
    BY DEF GatewayTypeOK
<1>2. PICK s : s = [check[c] EXCEPT !.pc = "balance", !.address = a]
    OBVIOUS
<1>3. s \in CheckState /\ s.pc = "balance" /\ s.address = a
    BY <1>1, <1>2 DEF CheckState, InFlight
<1>4. check' = [check EXCEPT ![c] = s]
    BY <1>2 DEF TakeUp
<1>5. /\ check' \in [Checks -> CheckState] /\ check'[c] = s
      /\ \A d \in Checks : d # c => check'[d] = check[d]
    BY <1>1, <1>3, <1>4
<1>6. GatewayTypeOK'
    BY <1>5 DEF GatewayTypeOK, chainVars
<1>7. StaysPrepared
    BY <1>5 DEF StaysPrepared, Prepared
<1>8. PoolOK' /\ SentOK' /\ ExecutedOK'
    BY <1>7, ChainsKept
<1>9. NonceOK' /\ NoNonceGap'
    BY <1>3, <1>5, NoncesKept
<1>10. lifespan' = lifespan /\ gateways' = gateways
    OBVIOUS
<1>11. LifespanOK'
    BY <1>5, <1>10 DEF LifespanOK
<1>12. GatewayOutlivesChecks'
    BY <1>3, <1>5, <1>10 DEF GatewayOutlivesChecks, NetworkOf
<1> QED BY <1>6, <1>8, <1>9, <1>11, <1>12

(* The checker's, ...                                                       *)
LEMMA PollPaymentInv ==
    ASSUME GatewaysInv, NEW c \in Checks, NEW a \in Addresses, PollPayment(c, a)
    PROVE  GatewaysInv'
BY TakeUpInv DEF PollPayment

(* ... and a call, which may fail at once.                                  *)
LEMMA CallCheckInv ==
    ASSUME GatewaysInv, NEW c \in Checks, NEW a \in Addresses, CallCheck(c, a)
    PROVE  GatewaysInv'
<1>1. CASE NetworkOf(a) \in gateways
    BY <1>1, TakeUpInv DEF CallCheck
<1>2. CASE NetworkOf(a) \notin gateways
    <2>1. /\ Goto(c, "error") /\ check[c].pc = "new"
          /\ UNCHANGED <<settings, lifespan, gateways, chainVars, nodeFaults>>
        BY <1>2 DEF CallCheck
    <2>2. GatewayTypeOK /\ PoolOK /\ SentOK /\ ExecutedOK /\ NonceOK /\ NoNonceGap
          /\ LifespanOK /\ GatewayOutlivesChecks
        BY DEF GatewaysInv
    <2>3. /\ check' \in [Checks -> CheckState]
          /\ check'[c].pc = "error"
          /\ \A d \in Checks : d # c => check'[d] = check[d]
        BY <2>1, <2>2, GotoIs
    <2>4. GatewayTypeOK'
        BY <2>1, <2>2, <2>3 DEF GatewayTypeOK, chainVars
    <2>5. StaysPrepared
        BY <2>1, <2>3 DEF StaysPrepared, Prepared
    <2>6. PoolOK' /\ SentOK' /\ ExecutedOK'
        BY <2>1, <2>2, <2>5, ChainsKept
    <2>7. NonceOK' /\ NoNonceGap'
        BY <2>1, <2>2, <2>3, NoncesKept
    <2>8. \A d \in Checks : check'[d].pc \in InFlight => check'[d] = check[d]
        BY <2>3 DEF InFlight
    <2>9. LifespanOK' /\ GatewayOutlivesChecks'
        BY <2>1, <2>2, <2>8, LifespanKept
    <2> QED BY <2>4, <2>6, <2>7, <2>9 DEF GatewaysInv
<1> QED BY <1>1, <1>2

(* The balance.                                                             *)
LEMMA ReadBalanceInv ==
    ASSUME GatewaysAssumption, GatewaysInv, NEW c \in Checks, ReadBalance(c)
    PROVE  GatewaysInv'
<1>1. check[c].pc = "balance" /\ check[c].pc \in InFlight
    BY DEF ReadBalance, InFlight
<1>2. nodeFaults' \in 0..NodeFaults
    BY FaultsBounded DEF ReadBalance, GatewaysInv
<1>3. PICK pc \in {"prepare", "pending", "error"} : Goto(c, pc)
    BY DEF ReadBalance
<1>4. UNCHANGED <<settings, lifespan, gateways, chainVars>>
    BY DEF ReadBalance
<1> QED BY <1>1, <1>2, <1>3, <1>4, CheckStep

(* An exception before the first candidate.                                 *)
LEMMA PrepareFailsInv ==
    ASSUME GatewaysAssumption, GatewaysInv, NEW c \in Checks, PrepareFails(c)
    PROVE  GatewaysInv'
<1>1. check[c].pc \in InFlight /\ Goto(c, "pending")
    BY DEF PrepareFails, InFlight
<1>2. nodeFaults' \in 0..NodeFaults
    BY FaultsBounded DEF PrepareFails, GatewaysInv
<1>3. UNCHANGED <<settings, lifespan, gateways, chainVars>>
    BY DEF PrepareFails
<1> QED BY <1>1, <1>2, <1>3, CheckStep

(* The nonce is read, or none is needed: what is in front of it is taken.   *)
LEMMA PrepareSweepInv ==
    ASSUME GatewaysAssumption, GatewaysInv, NEW c \in Checks, PrepareSweep(c)
    PROVE  GatewaysInv'
<1>0. /\ check[c].pc = "prepare" /\ check[c].pc \in InFlight
      /\ UNCHANGED <<settings, lifespan, gateways, chainVars, nodeFaults>>
      /\ GatewayTypeOK /\ check \in [Checks -> CheckState]
    BY DEF PrepareSweep, InFlight, GatewaysInv, GatewayTypeOK
<1>1. CASE Goto(c, "pending")
    <2>1. nodeFaults' \in 0..NodeFaults
        BY <1>0, FaultsBounded
    <2> QED BY <1>0, <1>1, <2>1, CheckStep
<1>2. ASSUME NEW n \in Nat, check' = [check EXCEPT ![c] = [@ EXCEPT !.pc = "first", !.nonce = n]],
             check[c].address \in EthAddresses => \A m \in nonce..(n - 1) : Taken(m)
      PROVE  GatewaysInv'
    <2>1. PICK s : s = [check[c] EXCEPT !.pc = "first", !.nonce = n]
        OBVIOUS
    <2>2. /\ s \in CheckState /\ s.pc = "first" /\ s.address = check[c].address /\ s.nonce = n
        BY <1>0, <2>1 DEF CheckState, InFlight
    <2>3. check' = [check EXCEPT ![c] = s]
        BY <1>2, <2>1
    <2>4. /\ check' \in [Checks -> CheckState] /\ check'[c] = s
          /\ \A d \in Checks : d # c => check'[d] = check[d]
        BY <1>0, <2>2, <2>3
    <2>5. GatewayTypeOK'
        BY <1>0, <2>4 DEF GatewayTypeOK, chainVars
    <2>6. StaysPrepared
        BY <1>0, <2>4 DEF StaysPrepared, Prepared
    <2>7. PoolOK' /\ SentOK' /\ ExecutedOK'
        BY <1>0, <2>6, ChainsKept DEF GatewaysInv
    <2>8. pool' = pool /\ nonce' = nonce /\ evicted' = evicted /\ NonceOK /\ NoNonceGap
        BY <1>0 DEF chainVars, GatewaysInv
    <2>9. \A m : Taken(m)' <=> Taken(m)
        BY <2>8 DEF Taken
    <2>10. NoNonceGap'
        BY <2>8, <2>9 DEF NoNonceGap
    <2>11. NonceOK'
        BY <1>2, <2>2, <2>4, <2>8, <2>9 DEF NonceOK
    <2>12. \A d \in Checks : check'[d].pc \in InFlight =>
               check[d].pc \in InFlight /\ check'[d].address = check[d].address
        BY <1>0, <2>2, <2>4
    <2>13. LifespanOK' /\ GatewayOutlivesChecks'
        BY <1>0, <2>12, LifespanKept DEF GatewaysInv
    <2> QED BY <2>5, <2>7, <2>10, <2>11, <2>13 DEF GatewaysInv
<1>3. CASE NetworkOf(check[c].address) = "sol"
    <2>1. check[c].address \notin EthAddresses /\ Goto(c, "first")
        BY <1>3 DEF NetworkOf, PrepareSweep
    <2>2. check[c].nonce \in Nat
        BY <1>0 DEF CheckState
    <2>3. check' = [check EXCEPT ![c] = [@ EXCEPT !.pc = "first", !.nonce = check[c].nonce]]
        <3>1. [check[c] EXCEPT !.pc = "first"] = [check[c] EXCEPT !.pc = "first", !.nonce = check[c].nonce]
            BY <1>0 DEF CheckState
        <3> QED BY <2>1, <3>1 DEF Goto
    <2> QED BY <2>1, <2>2, <2>3, <1>2
<1>4. CASE NetworkOf(check[c].address) # "sol" /\ settings.factory
    <2>1. PICK n \in nonce..(nonce + Cardinality(Checks)) :
              /\ IsPendingCount(n)
              /\ check' = [check EXCEPT ![c] = [@ EXCEPT !.pc = "first", !.nonce = n]]
        BY <1>4 DEF PrepareSweep
    <2>2. n \in Nat /\ \A m \in nonce..(n - 1) : Taken(m)
        BY <2>1, <1>0 DEF IsPendingCount, GatewayTypeOK
    <2> QED BY <2>1, <2>2, <1>2
<1>5. CASE NetworkOf(check[c].address) # "sol" /\ ~settings.factory
    BY <1>1, <1>5 DEF PrepareSweep
<1> QED BY <1>3, <1>4, <1>5

-----------------------------------------------------------------------------
(* Sending.                                                                 *)

(* What a check is about to send.                                           *)
LEMMA CandidateIs ==
    ASSUME GatewayTypeOK, NEW c \in Checks
    PROVE  /\ Candidate(c) \in Transactions
           /\ Candidate(c).by = c
           /\ Candidate(c).nonce = check[c].nonce
           /\ check[c].pc = "first" => Candidate(c).candidate = 1
BY DEF GatewayTypeOK, Candidate, Transactions, CheckState

(* A transaction that takes the place of those with its nonce.              *)
LEMMA NodeTakesIs ==
    ASSUME GatewayTypeOK, NEW c \in Checks, NodeTakes(Candidate(c)), UNCHANGED nonce
    PROVE  /\ pool' \subseteq Transactions
           /\ check[c].nonce >= nonce
           /\ \A tx \in pool' :
                tx = Candidate(c) \/ (tx \in pool /\ tx.nonce # check[c].nonce)
           /\ \A n : Taken(n)' <=> (Taken(n) \/ n = check[c].nonce)
<1>1. PICK tx : tx = Candidate(c)
    OBVIOUS
<1>2. tx \in Transactions /\ tx.nonce = check[c].nonce
    BY <1>1, CandidateIs
<1>3. tx.nonce >= nonce /\ pool' = {other \in pool : other.nonce # tx.nonce} \cup {tx}
    BY <1>1 DEF NodeTakes
<1>4. pool \subseteq Transactions
    BY DEF GatewayTypeOK
<1>5. \A n : Taken(n)' <=> (Taken(n) \/ n = check[c].nonce)
    BY <1>2, <1>3 DEF Taken
<1> QED BY <1>1, <1>2, <1>3, <1>4, <1>5

(* A candidate that the node takes: those in front of it are taken.         *)
LEMMA TakenInv ==
    ASSUME GatewaysInv, NEW c \in Checks, check[c].pc \in {"first", "second"},
           NetworkOf(check[c].address) = "eth", NodeTakes(Candidate(c)),
           NEW pc \in {"returned", "second", "pending"}, pc = "second" => check[c].pc = "first",
           Goto(c, pc), nodeFaults' \in 0..NodeFaults,
           UNCHANGED <<settings, lifespan, gateways, funds, nonce, sent, executed, evicted>>
    PROVE  GatewaysInv'
<1> USE DEF GatewaysInv
<1>1. /\ check' \in [Checks -> CheckState]
      /\ check'[c].pc = pc
      /\ \A d \in Checks : /\ check'[d].address = check[d].address
                           /\ check'[d].nonce = check[d].nonce
                           /\ d # c => check'[d] = check[d]
    BY GotoIs DEF InFlight
<1>2. /\ nonce' = nonce /\ sent' = sent /\ executed' = executed /\ evicted' = evicted
      /\ check[c].address \in EthAddresses
      /\ nonce \in Nat /\ check \in [Checks -> CheckState]
      /\ \A tx \in pool \cup sent \cup executed : tx.by \in Checks
    BY DEF NetworkOf, GatewayTypeOK, Transactions
<1>3. /\ pool' \subseteq Transactions
      /\ check[c].nonce >= nonce
      /\ \A tx \in pool' : tx = Candidate(c) \/ (tx \in pool /\ tx.nonce # check[c].nonce)
      /\ \A n : Taken(n)' <=> (Taken(n) \/ n = check[c].nonce)
    BY <1>2, NodeTakesIs
<1>4. GatewayTypeOK'
    BY <1>1, <1>3 DEF GatewayTypeOK
<1>5. StaysPrepared
    BY <1>1 DEF StaysPrepared, Prepared
<1>6. /\ Candidate(c).by = c /\ Candidate(c).nonce = check[c].nonce
      /\ check'[c].pc \in Prepared
    BY <1>1, CandidateIs DEF Prepared
<1>7. PoolOK'
    <2> SUFFICES ASSUME NEW tx \in pool', NEW other \in pool'
                 PROVE  /\ check'[tx.by].pc \in Prepared
                        /\ check'[tx.by].address \in EthAddresses
                        /\ tx.nonce = check'[tx.by].nonce
                        /\ tx.nonce >= nonce
                        /\ other.nonce = tx.nonce => other = tx
        BY <1>2 DEF PoolOK
    <2>1. CASE tx = Candidate(c)
        BY <1>1, <1>2, <1>3, <1>6, <2>1
    <2>2. CASE tx \in pool /\ tx.nonce # check[c].nonce
        BY <1>2, <1>3, <1>5, <1>6, <2>2 DEF PoolOK, StaysPrepared
    <2> QED BY <1>3, <2>1, <2>2
<1>8. SentOK'
    BY <1>2, <1>5 DEF SentOK, StaysPrepared
<1>9. ExecutedOK'
    BY <1>2, <1>5 DEF ExecutedOK, StaysPrepared
<1>10. NonceOK'
    <2> SUFFICES ASSUME ~evicted, NEW d \in Checks, check'[d].pc \in {"first", "second"},
                        check'[d].address \in EthAddresses,
                        NEW n \in nonce..(check'[d].nonce - 1)
                 PROVE  Taken(n)'
        BY <1>2 DEF NonceOK
    <2>1. check[d].pc \in {"first", "second"} /\ check[d].address \in EthAddresses
          /\ n \in nonce..(check[d].nonce - 1)
        BY <1>1
    <2> QED BY <2>1, <1>3 DEF NonceOK
<1>11. NoNonceGap'
    <2> SUFFICES ASSUME ~evicted, NEW tx \in pool', NEW n \in nonce..tx.nonce
                 PROVE  Taken(n)'
        BY <1>2 DEF NoNonceGap
    <2>1. CASE tx = Candidate(c)
        <3>1. check[c].nonce \in Nat
            BY <1>2 DEF CheckState
        <3>2. n = check[c].nonce \/ n \in nonce..(check[c].nonce - 1)
            BY <1>2, <1>6, <2>1, <3>1
        <3>3. n \in nonce..(check[c].nonce - 1) => Taken(n)
            BY <1>2 DEF NonceOK
        <3> QED BY <1>3, <3>2, <3>3
    <2>2. CASE tx \in pool
        BY <1>3, <2>2 DEF NoNonceGap
    <2> QED BY <1>3, <2>1, <2>2
<1>12. \A d \in Checks : check'[d].pc \in InFlight =>
           check[d].pc \in InFlight /\ check'[d].address = check[d].address
    BY <1>1 DEF InFlight
<1>13. LifespanOK' /\ GatewayOutlivesChecks'
    BY <1>12, LifespanKept
<1> QED BY <1>4, <1>7, <1>8, <1>9, <1>10, <1>11, <1>13

(* The other outcomes leave the pool as it is.                              *)
LEMMA SendEthInv ==
    ASSUME GatewaysAssumption, GatewaysInv, NEW c \in Checks, SendEth(c)
    PROVE  GatewaysInv'
<1>1. /\ check[c].pc \in {"first", "second"} /\ check[c].pc \in InFlight
      /\ NetworkOf(check[c].address) = "eth"
      /\ UNCHANGED <<settings, lifespan, gateways, funds, nonce, sent, executed, evicted>>
    BY DEF SendEth, InFlight
<1>2. nodeFaults' \in 0..NodeFaults
    <2>1. Fails \/ UNCHANGED nodeFaults
        BY DEF SendEth
    <2> QED BY <2>1, FaultsBounded DEF GatewaysInv
<1>3. AfterError(c) \in {"second", "pending"} /\ (AfterError(c) = "second" => check[c].pc = "first")
    BY <1>1 DEF AfterError
<1>4. CASE NodeTakes(Candidate(c)) /\ Goto(c, "returned")
    BY <1>1, <1>2, <1>4, TakenInv
<1>5. CASE NodeTakes(Candidate(c)) /\ Goto(c, AfterError(c))
    BY <1>1, <1>2, <1>3, <1>5, TakenInv
<1>6. CASE Goto(c, AfterError(c)) /\ UNCHANGED pool
    BY <1>1, <1>2, <1>3, <1>6, CheckStep DEF chainVars
<1> QED BY <1>4, <1>5, <1>6 DEF SendEth

(* Solana's node takes the only candidate of the check.                     *)
LEMMA SendSolInv ==
    ASSUME GatewaysAssumption, GatewaysInv, NEW c \in Checks, SendSol(c)
    PROVE  GatewaysInv'
<1> USE DEF GatewaysInv
<1>1. /\ check[c].pc = "first" /\ check[c].pc \in InFlight
      /\ NetworkOf(check[c].address) = "sol"
      /\ UNCHANGED <<settings, lifespan, gateways, funds, nonce, pool, executed, evicted>>
    BY DEF SendSol, InFlight
<1>2. nodeFaults' \in 0..NodeFaults
    <2>1. Fails \/ UNCHANGED nodeFaults
        BY DEF SendSol
    <2> QED BY <2>1, FaultsBounded
<1>3. PICK pc \in {"returned", "pending"} : Goto(c, pc)
    BY DEF SendSol
<1>4. CASE UNCHANGED sent
    BY <1>1, <1>2, <1>3, <1>4, CheckStep DEF chainVars
<1>5. CASE sent' = sent \cup {Candidate(c)}
    <2>1. /\ check' \in [Checks -> CheckState]
          /\ check'[c].pc = pc
          /\ \A d \in Checks : /\ check'[d].address = check[d].address
                               /\ check'[d].nonce = check[d].nonce
                               /\ d # c => check'[d] = check[d]
        BY <1>3, GotoIs
    <2>2. /\ Candidate(c) \in Transactions /\ Candidate(c).by = c
          /\ Candidate(c).nonce = check[c].nonce /\ Candidate(c).candidate = 1
        BY <1>1, CandidateIs
    <2>3. GatewayTypeOK'
        BY <1>1, <1>2, <1>5, <2>1, <2>2 DEF GatewayTypeOK
    <2>4. StaysPrepared
        BY <2>1, <1>1 DEF StaysPrepared, Prepared
    <2>5. /\ pool' = pool /\ executed' = executed /\ nonce' = nonce /\ evicted' = evicted
          /\ \A tx \in pool \cup sent \cup executed : tx.by \in Checks
        BY <1>1 DEF GatewayTypeOK, Transactions
    <2>6. PoolOK'
        BY <2>4, <2>5 DEF PoolOK, StaysPrepared
    <2>7. ExecutedOK'
        BY <2>4, <2>5 DEF ExecutedOK, StaysPrepared
    <2>8. check[c].address \notin EthAddresses
        BY <1>1 DEF NetworkOf
    <2>9. SentOK'
        <3> SUFFICES ASSUME NEW tx \in sent'
                     PROVE  /\ check'[tx.by].pc \in Prepared
                            /\ check'[tx.by].address \notin EthAddresses
                            /\ tx.nonce = check'[tx.by].nonce
                            /\ tx.candidate = 1
            BY DEF SentOK
        <3>1. CASE tx = Candidate(c)
            BY <2>1, <2>2, <2>8, <3>1 DEF Prepared
        <3>2. CASE tx \in sent
            BY <2>4, <2>5, <3>2 DEF SentOK, StaysPrepared
        <3> QED BY <1>5, <3>1, <3>2
    <2>10. \A n : Taken(n)' <=> Taken(n)
        BY <2>5 DEF Taken
    <2>11. NonceOK' /\ NoNonceGap'
        BY <2>1, <2>5, <2>10 DEF NonceOK, NoNonceGap
    <2>12. \A d \in Checks : check'[d].pc \in InFlight =>
               check[d].pc \in InFlight /\ check'[d].address = check[d].address
        BY <2>1 DEF InFlight
    <2>13. LifespanOK' /\ GatewayOutlivesChecks'
        BY <1>1, <2>12, LifespanKept
    <2> QED BY <2>3, <2>6, <2>7, <2>9, <2>11, <2>13
<1> QED BY <1>4, <1>5 DEF SendSol

-----------------------------------------------------------------------------
(* The chains.                                                              *)

(* A payment is nothing to the gateways.                                    *)
LEMMA PayUserInv ==
    ASSUME GatewaysInv, NEW a \in Addresses, PayUser(a) PROVE GatewaysInv'
<1> USE DEF GatewaysInv
<1>1. /\ check' = check /\ lifespan' = lifespan /\ gateways' = gateways /\ settings' = settings
      /\ nonce' = nonce /\ pool' = pool /\ sent' = sent /\ executed' = executed
      /\ evicted' = evicted /\ nodeFaults' = nodeFaults
    BY DEF PayUser
<1>2. GatewayTypeOK'
    BY <1>1 DEF GatewayTypeOK, PayUser
<1>3. PoolOK' /\ SentOK' /\ ExecutedOK'
    BY <1>1 DEF PoolOK, SentOK, ExecutedOK
<1>4. NonceOK' /\ NoNonceGap'
    BY <1>1 DEF NonceOK, NoNonceGap, Taken
<1>5. LifespanOK' /\ GatewayOutlivesChecks'
    BY <1>1 DEF LifespanOK, GatewayOutlivesChecks, NetworkOf
<1> QED BY <1>2, <1>3, <1>4, <1>5

(* The transaction with the account's next nonce leaves the pool; those     *)
(* executed before had smaller ones.                                        *)
LEMMA MineInv ==
    ASSUME GatewaysInv, NEW tx \in pool, Mine(tx) PROVE GatewaysInv'
<1> USE DEF GatewaysInv
<1>1. /\ check' = check /\ lifespan' = lifespan /\ gateways' = gateways /\ settings' = settings
      /\ sent' = sent /\ evicted' = evicted /\ nodeFaults' = nodeFaults
      /\ tx.nonce = nonce /\ nonce' = nonce + 1
      /\ pool' = pool \ {tx} /\ executed' = executed \cup {tx}
    BY DEF Mine
<1>2. /\ nonce \in Nat /\ pool \subseteq Transactions /\ executed \subseteq Transactions
      /\ check \in [Checks -> CheckState]
      /\ \A other \in pool \cup executed : other.nonce \in Nat /\ other.by \in Checks
    BY DEF GatewayTypeOK, Transactions
<1>3. GatewayTypeOK'
    <2>1. funds' \in [Addresses -> {"none", "empty", "funded"}]
        BY DEF GatewayTypeOK, Mine
    <2>2. nonce' \in Nat /\ pool' \subseteq Transactions /\ executed' \subseteq Transactions
        BY <1>1, <1>2
    <2> QED BY <1>1, <2>1, <2>2 DEF GatewayTypeOK
<1>4. PoolOK'
    <2> SUFFICES ASSUME NEW other \in pool'
                 PROVE  other.nonce >= nonce'
        BY <1>1 DEF PoolOK
    <2>1. other \in pool /\ other # tx /\ other.nonce # nonce /\ other.nonce >= nonce
        BY <1>1 DEF PoolOK
    <2> QED BY <1>1, <1>2, <2>1
<1>5. SentOK'
    BY <1>1 DEF SentOK
<1>6. ExecutedOK'
    <2>1. /\ check[tx.by].pc \in Prepared /\ check[tx.by].address \in EthAddresses
          /\ tx.nonce = check[tx.by].nonce
        BY DEF PoolOK
    <2>2. \A other \in executed :
              check[other.by].address \in EthAddresses => other.nonce < nonce
        BY DEF ExecutedOK
    <2> SUFFICES ASSUME NEW one \in executed'
                 PROVE  /\ check[one.by].pc \in Prepared
                        /\ one.nonce = check[one.by].nonce
                        /\ check[one.by].address \notin EthAddresses => one.candidate = 1
                        /\ check[one.by].address \in EthAddresses =>
                             /\ one.nonce < nonce'
                             /\ \A other \in executed' :
                                  check[other.by].address \in EthAddresses
                                    /\ other.nonce = one.nonce => other = one
        BY <1>1 DEF ExecutedOK
    <2>3. CASE one = tx
        BY <1>1, <1>2, <2>1, <2>2, <2>3
    <2>4. CASE one \in executed
        <3>1. /\ check[one.by].pc \in Prepared /\ one.nonce = check[one.by].nonce
              /\ check[one.by].address \notin EthAddresses => one.candidate = 1
            BY <2>4 DEF ExecutedOK
        <3>2. ASSUME check[one.by].address \in EthAddresses
              PROVE  /\ one.nonce < nonce'
                     /\ \A other \in executed' :
                          check[other.by].address \in EthAddresses
                            /\ other.nonce = one.nonce => other = one
            <4>1. one.nonce < nonce /\ one.nonce \in Nat
                BY <1>2, <2>2, <2>4, <3>2
            <4>2. \A other \in executed :
                      check[other.by].address \in EthAddresses
                        /\ other.nonce = one.nonce => other = one
                BY <2>4, <3>2 DEF ExecutedOK
            <4>3. one.nonce < nonce' /\ one.nonce # tx.nonce
                BY <1>1, <1>2, <4>1
            <4> QED BY <1>1, <4>2, <4>3
        <3> QED BY <3>1, <3>2
    <2> QED BY <1>1, <2>3, <2>4
<1>7. \A n \in Nat : n >= nonce + 1 /\ Taken(n) => Taken(n)'
    BY <1>1, <1>2 DEF Taken
<1>8. NonceOK'
    <2> SUFFICES ASSUME ~evicted, NEW c \in Checks, check[c].pc \in {"first", "second"},
                        check[c].address \in EthAddresses,
                        NEW n \in (nonce + 1)..(check[c].nonce - 1)
                 PROVE  Taken(n)'
        BY <1>1 DEF NonceOK
    <2>1. check[c].nonce \in Nat
        BY <1>2 DEF CheckState
    <2>2. n \in nonce..(check[c].nonce - 1) /\ n \in Nat /\ n >= nonce + 1
        BY <1>2, <2>1
    <2> QED BY <1>7, <2>2 DEF NonceOK
<1>9. NoNonceGap'
    <2> SUFFICES ASSUME ~evicted, NEW other \in pool, NEW n \in (nonce + 1)..other.nonce
                 PROVE  Taken(n)'
        BY <1>1 DEF NoNonceGap
    <2>1. n \in nonce..other.nonce /\ n \in Nat /\ n >= nonce + 1
        BY <1>2
    <2> QED BY <1>7, <2>1 DEF NoNonceGap
<1>10. LifespanOK' /\ GatewayOutlivesChecks'
    BY <1>1 DEF LifespanOK, GatewayOutlivesChecks, NetworkOf
<1> QED BY <1>3, <1>4, <1>5, <1>6, <1>8, <1>9, <1>10

(* A transaction is forgotten, and with it the promise of no gaps.          *)
LEMMA ForgetInv ==
    ASSUME GatewaysAssumption, GatewaysInv, NEW tx \in pool, Forget(tx) PROVE GatewaysInv'
<1> USE DEF GatewaysInv
<1>1. /\ check' = check /\ lifespan' = lifespan /\ gateways' = gateways /\ settings' = settings
      /\ sent' = sent /\ evicted' = TRUE /\ nonce' = nonce /\ executed' = executed
      /\ funds' = funds /\ pool' = pool \ {tx}
    BY DEF Forget
<1>2. nodeFaults' \in 0..NodeFaults
    BY FaultsBounded DEF Forget
<1>3. GatewayTypeOK'
    BY <1>1, <1>2 DEF GatewayTypeOK
<1>4. PoolOK' /\ SentOK' /\ ExecutedOK'
    BY <1>1 DEF PoolOK, SentOK, ExecutedOK
<1>5. NonceOK' /\ NoNonceGap'
    BY <1>1 DEF NonceOK, NoNonceGap
<1>6. LifespanOK' /\ GatewayOutlivesChecks'
    BY <1>1 DEF LifespanOK, GatewayOutlivesChecks, NetworkOf
<1> QED BY <1>3, <1>4, <1>5, <1>6

(* A Solana transaction is executed or has expired.                         *)
LEMMA LandSolInv ==
    ASSUME GatewaysInv, NEW tx \in sent, LandSol(tx) PROVE GatewaysInv'
<1> USE DEF GatewaysInv
<1>1. /\ check' = check /\ lifespan' = lifespan /\ gateways' = gateways /\ settings' = settings
      /\ pool' = pool /\ evicted' = evicted /\ nonce' = nonce /\ nodeFaults' = nodeFaults
      /\ sent' = sent \ {tx}
    BY DEF LandSol
<1>2. /\ tx \in Transactions
      /\ check[tx.by].pc \in Prepared /\ check[tx.by].address \notin EthAddresses
      /\ tx.nonce = check[tx.by].nonce /\ tx.candidate = 1
    BY DEF SentOK, GatewayTypeOK
<1>3. executed' \subseteq executed \cup {tx}
    BY DEF LandSol
<1>4. funds' \in [Addresses -> {"none", "empty", "funded"}]
    <2>1. funds \in [Addresses -> {"none", "empty", "funded"}]
        BY DEF GatewayTypeOK
    <2> QED BY <2>1 DEF LandSol
<1>5. GatewayTypeOK'
    BY <1>1, <1>2, <1>3, <1>4 DEF GatewayTypeOK
<1>6. PoolOK' /\ SentOK'
    BY <1>1 DEF PoolOK, SentOK
<1>7. ExecutedOK'
    BY <1>1, <1>2, <1>3 DEF ExecutedOK
<1>8. NonceOK' /\ NoNonceGap'
    BY <1>1 DEF NonceOK, NoNonceGap, Taken
<1>9. LifespanOK' /\ GatewayOutlivesChecks'
    BY <1>1 DEF LifespanOK, GatewayOutlivesChecks, NetworkOf
<1> QED BY <1>5, <1>6, <1>7, <1>8, <1>9

-----------------------------------------------------------------------------
(* Nothing has been asked or sent.                                          *)
LEMMA GatewaysInitInv == GatewaysAssumption /\ GatewaysInit => GatewaysInv
<1> SUFFICES ASSUME GatewaysAssumption, GatewaysInit PROVE GatewaysInv
    OBVIOUS
<1>1. \A c \in Checks : check[c] = [pc |-> "new", address |-> NoAddress, nonce |-> 0]
    BY DEF GatewaysInit
<1>2. check \in [Checks -> CheckState]
    BY DEF GatewaysInit, CheckState
<1>3. GatewayTypeOK
    <2>1. funds \in [Addresses -> {"none", "empty", "funded"}]
        BY DEF GatewaysInit
    <2>2. nodeFaults \in 0..NodeFaults
        BY DEF GatewaysInit, GatewaysAssumption
    <2> QED BY <1>2, <2>1, <2>2 DEF GatewaysInit, GatewayTypeOK
<1>4. PoolOK /\ SentOK /\ ExecutedOK /\ NoNonceGap
    BY DEF GatewaysInit, PoolOK, SentOK, ExecutedOK, NoNonceGap
<1>5. NonceOK /\ LifespanOK /\ GatewayOutlivesChecks
    BY <1>1 DEF NonceOK, LifespanOK, GatewayOutlivesChecks, InFlight
<1> QED BY <1>3, <1>4, <1>5 DEF GatewaysInv

(* One case for each action.                                                *)
LEMMA GatewaysStepInv ==
    GatewaysAssumption /\ GatewaysInv /\ [GatewaysNext]_gatewayVars => GatewaysInv'
<1> SUFFICES ASSUME GatewaysAssumption, GatewaysInv, [GatewaysNext]_gatewayVars
             PROVE  GatewaysInv'
    OBVIOUS
<1>1. CASE \/ StartEth \/ StartSol \/ CreateChecker \/ StartServer
           \/ StopServer \/ GraceEnds \/ CancelChecker \/ CloseGateways \/ Crash
    BY <1>1, StartEthInv, StartSolInv, CreateCheckerInv, StartServerInv, StopServerInv,
       GraceEndsInv, CancelCheckerInv, CloseGatewaysInv, CrashInv
<1>2. ASSUME NEW c \in Checks, NEW a \in Addresses, PollPayment(c, a) \/ CallCheck(c, a)
      PROVE  GatewaysInv'
    BY <1>2, PollPaymentInv, CallCheckInv
<1>3. ASSUME NEW c \in Checks,
             \/ ReadBalance(c) \/ PrepareSweep(c) \/ PrepareFails(c) \/ SendEth(c) \/ SendSol(c)
      PROVE  GatewaysInv'
    BY <1>3, ReadBalanceInv, PrepareSweepInv, PrepareFailsInv, SendEthInv, SendSolInv
<1>4. ASSUME NEW a \in Addresses, PayUser(a) PROVE GatewaysInv'
    BY <1>4, PayUserInv
<1>5. ASSUME NEW tx \in pool, Mine(tx) \/ Forget(tx) PROVE GatewaysInv'
    BY <1>5, MineInv, ForgetInv
<1>6. ASSUME NEW tx \in sent, LandSol(tx) PROVE GatewaysInv'
    BY <1>6, LandSolInv
<1>7. CASE UNCHANGED gatewayVars
    <2>1. /\ check' = check /\ chainVars' = chainVars /\ lifespan' = lifespan
          /\ gateways' = gateways /\ settings' = settings /\ nodeFaults' = nodeFaults
        BY <1>7 DEF gatewayVars
    <2>2. GatewayTypeOK'
        BY <2>1 DEF GatewaysInv, GatewayTypeOK, chainVars
    <2>3. LifespanOK' /\ GatewayOutlivesChecks'
        BY <2>1 DEF GatewaysInv, LifespanOK, GatewayOutlivesChecks, NetworkOf
    <2> QED BY <2>1, <2>2, <2>3, ProcessStep
<1> QED BY <1>1, <1>2, <1>3, <1>4, <1>5, <1>6, <1>7 DEF GatewaysNext

(* A transaction is determined by its check: an Ethereum one by the nonce   *)
(* the check has read, which is executed once, a Solana one by being the    *)
(* only candidate.                                                          *)
LEMMA SweptOnce == ASSUME GatewaysInv PROVE SweptOncePerCheck
<1> SUFFICES ASSUME NEW tx \in executed, NEW other \in executed, tx.by = other.by
             PROVE  tx = other
    BY DEF SweptOncePerCheck
<1>1. tx.nonce = other.nonce
    BY DEF GatewaysInv, ExecutedOK
<1>2. CASE check[tx.by].address \in EthAddresses
    BY <1>1, <1>2 DEF GatewaysInv, ExecutedOK
<1>3. CASE check[tx.by].address \notin EthAddresses
    <2>1. tx.candidate = other.candidate
        BY <1>3 DEF GatewaysInv, ExecutedOK
    <2>2. tx \in Transactions /\ other \in Transactions
        BY DEF GatewaysInv, GatewayTypeOK
    <2> QED BY <1>1, <2>1, <2>2 DEF Transactions
<1> QED BY <1>2, <1>3

(* The invariant holds in every state.                                      *)
LEMMA GatewaysInvariance == GatewaysSpec => []GatewaysInv
<1>1. GatewaysInit => GatewaysInv
    BY GatewaysInitInv, GatewaysAssumption
<1>2. GatewaysInv /\ [GatewaysNext]_gatewayVars => GatewaysInv'
    BY GatewaysStepInv, GatewaysAssumption
<1> QED BY <1>1, <1>2, PTL DEF GatewaysSpec

-----------------------------------------------------------------------------
(* The state keeps its type: among the rest, a check is never past its      *)
(* second candidate.                                                        *)
THEOREM GatewayTypeCorrect == GatewaysSpec => []GatewayTypeOK
<1>1. GatewaysInv => GatewayTypeOK
    BY DEF GatewaysInv
<1> QED BY <1>1, GatewaysInvariance, PTL

(* A check sweeps at most once, although it sends a second transaction when *)
(* it does not know what became of the first.                               *)
THEOREM SweptOnceCorrect == GatewaysSpec => []SweptOncePerCheck
<1>1. GatewaysInv => SweptOncePerCheck
    BY SweptOnce
<1> QED BY <1>1, GatewaysInvariance, PTL

(* Checks that read the same nonce side by side, fail or are cancelled      *)
(* leave no gap in front of a transaction in the pool.                      *)
THEOREM NoNonceGapCorrect == GatewaysSpec => []NoNonceGap
<1>1. GatewaysInv => NoNonceGap
    BY DEF GatewaysInv
<1> QED BY <1>1, GatewaysInvariance, PTL

(* No check under way finds its gateway closed, whichever way the process   *)
(* ends.                                                                    *)
THEOREM GatewayOutlivesChecksCorrect == GatewaysSpec => []GatewayOutlivesChecks
<1>1. GatewaysInv => GatewayOutlivesChecks
    BY DEF GatewaysInv
<1> QED BY <1>1, GatewaysInvariance, PTL
=============================================================================
