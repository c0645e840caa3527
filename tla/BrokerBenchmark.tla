-------------------------- MODULE BrokerBenchmark --------------------------
(***************************************************************************)
(* The broker benchmark of src/RabbitMQ_vs_Redis/bench.  A run connects,   *)
(* empties the queue, lets producers and consumers work side by side,      *)
(* waits for what is still on its way and compares two counters.  All runs *)
(* use one queue of one broker: the script scenarios run one after         *)
(* another, the HTTP API starts a run for every request it gets.           *)
(*                                                                         *)
(* Rates, message sizes and latencies are left out; a deadline may pass at *)
(* any moment.                                                             *)
(***************************************************************************)
EXTENDS Naturals, FiniteSets, SequencesExt

CONSTANTS
    Runs,           \* runs in the order a script starts them, 1..n
    Producers,      \* producer_idx, 0..config.producers-1
    Consumers,      \* consumer tasks
    Config,         \* config of each run: target_messages (without one, a bound on
                    \* what is sent before the deadline), consumers
    Prefetch,       \* messages RabbitMQ hands out before they are acknowledged
    BrokerFaults    \* bound on failing calls and lost connections

(* Who starts the runs: one of the scripts, or the HTTP API.                *)
Scenarios == {"script", "api"}

ASSUME BenchAssumption ==
    /\ Runs \subseteq Nat \ {0}
    /\ IsFiniteSet(Producers) /\ Producers # {} /\ Producers = 0..(Cardinality(Producers) - 1)
    /\ IsFiniteSet(Consumers)
    /\ Config \in [Scenarios -> [Runs -> [target : Nat, consumers : SUBSET Consumers]]]
    /\ Prefetch \in Nat \ {0} /\ BrokerFaults \in Nat

VARIABLES
    broker,         \* config.broker
    scenario,       \* who starts the runs
    queue,          \* messages ready in the broker, oldest first
    run,            \* phase, counters and result of each run
    producer,       \* local_sent of each producer, and whether it is over
    held,           \* delivered to each consumer of a run, not yet processed
    unacked,        \* processed, acknowledgement still to come (RabbitMQ)
    seen,           \* messages the run has processed
    shared,         \* runs that were under way while another one was
    brokerFaults

benchVars == <<broker, scenario, queue, run, producer, held, unacked, seen, shared, brokerFaults>>

(* Messages are told apart by the run that sent them and a number.          *)
Message == Runs \X Nat

BenchPhases == {"idle", "connected", "driving", "draining", "done", "failed"}

NewRun == [phase |-> "idle", issued |-> 0, sent |-> 0, received |-> 0, errors |-> 0,
           lost |-> 0, consuming |-> {}, expired |-> FALSE]

(* RabbitMQ delivers each consumer up to the prefetch count, BRPOP takes    *)
(* one message.                                                             *)
Capacity == IF broker = "rabbitmq" THEN Prefetch ELSE 1

(* The type of the benchmark's state; no consumer holds more messages than  *)
(* its broker hands out.                                                    *)
BenchTypeOK ==
    /\ broker \in {"rabbitmq", "redis"} /\ scenario \in Scenarios
    /\ queue \in Seq(Message)
    /\ run \in [Runs -> [phase : BenchPhases, issued : Nat, sent : Nat, received : Nat, errors : Nat,
                         lost : Nat, consuming : SUBSET Consumers, expired : BOOLEAN]]
    /\ producer \in [Runs -> [Producers -> [over : BOOLEAN, sent : Nat]]]
    /\ held \in [Runs -> [Consumers -> Seq(Message)]]
    /\ unacked \in [Runs -> [Consumers -> Seq(Message)]]
    /\ seen \in [Runs -> SUBSET Message]
    /\ shared \subseteq Runs
    /\ brokerFaults \in 0..BrokerFaults
    /\ \A r \in Runs, c \in Consumers : Len(held[r][c]) + Len(unacked[r][c]) <= Capacity

BenchInit ==
    /\ broker \in {"rabbitmq", "redis"}
    /\ scenario \in Scenarios
    /\ queue = <<>>
    /\ run = [r \in Runs |-> NewRun]
    /\ producer = [r \in Runs |-> [p \in Producers |-> [over |-> FALSE, sent |-> 0]]]
    /\ held = [r \in Runs |-> [c \in Consumers |-> <<>>]]
    /\ unacked = [r \in Runs |-> [c \in Consumers |-> <<>>]]
    /\ seen = [r \in Runs |-> {}]
    /\ shared = {}
    /\ brokerFaults = 0

UnderWay(r) == run[r].phase \notin {"idle", "done", "failed"}

Target(r) == Config[scenario][r].target

(* Mutant: the remainder is dropped.                                        *)
MutantQuota(r, p) == Target(r) \div Cardinality(Producers)

(* local_quota: target_messages divided among the producers.                *)
Quota(r, p) ==
    LET n == Cardinality(Producers) IN
    Target(r) \div n + (IF p < Target(r) % n THEN 1 ELSE 0)

-----------------------------------------------------------------------------
(* run_matrix and find_breaking_point await a run before they start the     *)
(* next; an exception ends them.  /bench/run does not wait.                 *)
InTurn(r) ==
    \A s \in {s \in Runs : s < r} :
        /\ run[s].phase # "idle"
        /\ scenario = "script" => run[s].phase = "done"

(* run_benchmark: broker.connect.                                           *)
Start(r) ==
    /\ run[r].phase = "idle"
    /\ InTurn(r)
    /\ run' = [run EXCEPT ![r].phase = "connected"]
    /\ LET others == {s \in Runs : UnderWay(s)} IN
       shared' = IF others = {} THEN shared ELSE shared \cup others \cup {r}
    /\ UNCHANGED <<broker, scenario, queue, producer, held, unacked, seen, brokerFaults>>

(* Mutant: the queue is kept.                                               *)
MutantResetQueue(r) ==
    /\ run[r].phase = "connected"
    /\ run' = [run EXCEPT ![r].phase = "driving", ![r].consuming = Config[scenario][r].consumers]
    /\ UNCHANGED <<broker, scenario, queue, producer, held, unacked, seen, shared, brokerFaults>>

(* broker.reset: purge and DEL drop the messages that are ready, not those  *)
(* another run's consumer holds.  _drive then creates the tasks.            *)
ResetQueue(r) ==
    /\ run[r].phase = "connected"
    /\ queue' = <<>>
    /\ run' = [run EXCEPT ![r].phase = "driving", ![r].consuming = Config[scenario][r].consumers]
    /\ UNCHANGED <<broker, scenario, producer, held, unacked, seen, shared, brokerFaults>>

(* connect or reset raises, and the run has no result.                      *)
ResetFails(r) ==
    /\ run[r].phase = "connected"
    /\ brokerFaults < BrokerFaults
    /\ brokerFaults' = brokerFaults + 1
    /\ run' = [run EXCEPT ![r].phase = "failed"]
    /\ UNCHANGED <<broker, scenario, queue, producer, held, unacked, seen, shared>>

-----------------------------------------------------------------------------
(* _produce.                                                                *)

Sends(r, p) ==
    /\ run[r].phase = "driving"
    /\ ~producer[r][p].over
    /\ producer[r][p].sent < Quota(r, p)

(* The broker has the message and mark_sent counts it.  What other tasks do *)
(* before publish returns is of no account: only _drain compares sent, and  *)
(* by then no publish is under way.                                         *)
Publish(r, p) ==
    /\ Sends(r, p)
    /\ queue' = Append(queue, <<r, run[r].issued>>)
    /\ run' = [run EXCEPT ![r].issued = @ + 1, ![r].sent = @ + 1]
    /\ producer' = [producer EXCEPT ![r][p].sent = @ + 1]
    /\ UNCHANGED <<broker, scenario, held, unacked, seen, shared, brokerFaults>>

(* publish raises and mark_error counts it; the broker may have the message *)
(* all the same.                                                            *)
PublishFails(r, p) ==
    /\ Sends(r, p)
    /\ brokerFaults < BrokerFaults
    /\ brokerFaults' = brokerFaults + 1
    /\ \/ queue' = queue
       \/ queue' = Append(queue, <<r, run[r].issued>>)
    /\ run' = [run EXCEPT ![r].errors = @ + 1, ![r].issued = @ + 1]
    /\ UNCHANGED <<broker, scenario, producer, held, unacked, seen, shared>>

(* publisher_confirms=False: a message dropped on its way counts as sent.   *)
PublishDropped(r, p) ==
    /\ Sends(r, p)
    /\ broker = "rabbitmq"
    /\ brokerFaults < BrokerFaults
    /\ brokerFaults' = brokerFaults + 1
    /\ run' = [run EXCEPT ![r].issued = @ + 1, ![r].sent = @ + 1]
    /\ producer' = [producer EXCEPT ![r][p].sent = @ + 1]
    /\ UNCHANGED <<broker, scenario, queue, held, unacked, seen, shared>>

(* The quota is reached, or time.monotonic() >= deadline.                   *)
ProducerEnds(r, p) ==
    /\ run[r].phase = "driving"
    /\ ~producer[r][p].over
    /\ producer' = [producer EXCEPT ![r][p].over = TRUE]
    /\ run' = [run EXCEPT ![r].expired = @ \/ producer[r][p].sent < Quota(r, p)]
    /\ UNCHANGED <<broker, scenario, queue, held, unacked, seen, shared, brokerFaults>>

-----------------------------------------------------------------------------
(* _consume.                                                                *)

(* Mutant: what is being acknowledged is not counted.                       *)
MutantDeliver(r, c) ==
    /\ c \in run[r].consuming
    /\ queue # <<>>
    /\ Len(held[r][c]) < Capacity
    /\ held' = [held EXCEPT ![r][c] = Append(@, Head(queue))]
    /\ queue' = Tail(queue)
    /\ UNCHANGED <<broker, scenario, run, producer, unacked, seen, shared, brokerFaults>>

Deliver(r, c) ==
    /\ c \in run[r].consuming
    /\ queue # <<>>
    /\ Len(held[r][c]) + Len(unacked[r][c]) < Capacity
    /\ held' = [held EXCEPT ![r][c] = Append(@, Head(queue))]
    /\ queue' = Tail(queue)
    /\ UNCHANGED <<broker, scenario, run, producer, unacked, seen, shared, brokerFaults>>

(* Mutant: a message of RabbitMQ is not counted.                            *)
MutantProcess(r, c) ==
    /\ c \in run[r].consuming
    /\ held[r][c] # <<>> /\ unacked[r][c] = <<>>
    /\ run' = [run EXCEPT ![r].received = IF broker = "rabbitmq" THEN @ ELSE @ + 1]
    /\ seen' = [seen EXCEPT ![r] = @ \cup {Head(held[r][c])}]
    /\ held' = [held EXCEPT ![r][c] = Tail(@)]
    /\ unacked' = [unacked EXCEPT ![r][c] = IF broker = "rabbitmq" THEN <<Head(held[r][c])>> ELSE <<>>]
    /\ UNCHANGED <<broker, scenario, queue, producer, shared, brokerFaults>>

(* mark_received, whoever has sent the message.                             *)
Process(r, c) ==
    /\ c \in run[r].consuming
    /\ held[r][c] # <<>> /\ unacked[r][c] = <<>>
    /\ run' = [run EXCEPT ![r].received = @ + 1]
    /\ seen' = [seen EXCEPT ![r] = @ \cup {Head(held[r][c])}]
    /\ held' = [held EXCEPT ![r][c] = Tail(@)]
    /\ unacked' = [unacked EXCEPT ![r][c] = IF broker = "rabbitmq" THEN <<Head(held[r][c])>> ELSE <<>>]
    /\ UNCHANGED <<broker, scenario, queue, producer, shared, brokerFaults>>

(* message.process() is left.                                               *)
Ack(r, c) ==
    /\ c \in run[r].consuming
    /\ unacked[r][c] # <<>>
    /\ unacked' = [unacked EXCEPT ![r][c] = <<>>]
    /\ UNCHANGED <<broker, scenario, queue, run, producer, held, seen, shared, brokerFaults>>

(* The messages that consumers cs of a run have and have not acknowledged.  *)
Delivered(r, cs) == UNION {Range(held[r][c]) \cup Range(unacked[r][c]) : c \in cs}

(* What becomes of delivered messages when their connections go: RabbitMQ   *)
(* puts them back in front, a popped one is gone.                           *)
HandBack(r, cs) ==
    /\ IF broker = "rabbitmq"
       THEN \E back \in SetToSeqs(Delivered(r, cs)) : queue' = back \o queue
       ELSE queue' = queue
    /\ held' = [held EXCEPT ![r] = [c \in Consumers |-> IF c \in cs THEN <<>> ELSE @[c]]]
    /\ unacked' = [unacked EXCEPT ![r] = [c \in Consumers |-> IF c \in cs THEN <<>> ELSE @[c]]]

(* A connection drops, the one of all RabbitMQ consumers or that of one     *)
(* BRPOP: the robust connection of aio_pika resumes, but the exception may  *)
(* as well end a consumer task, which _drive only learns when it is over.   *)
ConnectionLost(r, c) ==
    /\ c \in run[r].consuming
    /\ brokerFaults < BrokerFaults
    /\ brokerFaults' = brokerFaults + 1
    /\ LET cs == IF broker = "rabbitmq" THEN run[r].consuming ELSE {c} IN
       /\ HandBack(r, cs)
       /\ \E dead \in (IF broker = "rabbitmq" THEN SUBSET cs ELSE {cs}) :
            run' = [run EXCEPT ![r].consuming = @ \ dead]
    /\ UNCHANGED <<broker, scenario, producer, seen, shared>>

-----------------------------------------------------------------------------
(* _drive after the producers.                                              *)

StartDrain(r) ==
    /\ run[r].phase = "driving"
    /\ \A p \in Producers : producer[r][p].over
    /\ run' = [run EXCEPT ![r].phase = "draining"]
    /\ UNCHANGED <<broker, scenario, queue, producer, held, unacked, seen, shared, brokerFaults>>

(* finalize: max(sent - received, 0).                                       *)
Lost(m) == IF m.sent > m.received THEN m.sent - m.received ELSE 0

(* The consumers are cancelled, the result computed and the broker closed.  *)
Finish(r) ==
    /\ run' = [run EXCEPT ![r].phase = "done", ![r].consuming = {}, ![r].lost = Lost(run[r])]
    /\ HandBack(r, Consumers)
    /\ UNCHANGED <<broker, scenario, producer, seen, shared, brokerFaults>>

(* _drain returns: metrics.received >= metrics.sent.                        *)
Drained(r) == run[r].phase = "draining" /\ run[r].received >= run[r].sent /\ Finish(r)

(* Mutant: no deadline.                                                     *)
MutantDrainExpires(r) == FALSE /\ Finish(r)

(* _drain's deadline passes.                                                *)
DrainExpires(r) == run[r].phase = "draining" /\ run[r].received < run[r].sent /\ Finish(r)

-----------------------------------------------------------------------------
BenchNext ==
    \E r \in Runs :
        \/ Start(r) \/ ResetQueue(r) \/ ResetFails(r) \/ StartDrain(r) \/ Drained(r) \/ DrainExpires(r)
        \/ \E c \in Consumers :
            Deliver(r, c) \/ Process(r, c) \/ Ack(r, c) \/ ConnectionLost(r, c)
        \/ \E p \in Producers :
            \/ Publish(r, p) \/ ProducerEnds(r, p)
            \/ PublishFails(r, p) \/ PublishDropped(r, p)

(* run_benchmark and the producers it waits for.                            *)
RunStep(r) ==
    \/ ResetQueue(r) \/ ResetFails(r) \/ StartDrain(r) \/ Drained(r) \/ DrainExpires(r)
    \/ \E p \in Producers : Publish(r, p) \/ ProducerEnds(r, p)

(* Timers run out, the calls of run_benchmark and of its producers return   *)
(* or raise, and the event loop lets some run go on; nothing is assumed of  *)
(* the consumers.                                                           *)
BenchFairness == WF_benchVars(\E r \in Runs : RunStep(r))

BenchSpec == BenchInit /\ [][BenchNext]_benchVars /\ BenchFairness

-----------------------------------------------------------------------------
(* Messages a run issued and has not processed.                             *)
Unseen(r) == {n \in 0..(run[r].issued - 1) : <<r, n>> \notin seen[r]}

(* The result never reports a loss that did not happen, whatever is         *)
(* redelivered, dropped, popped or read by another run.                     *)
LossIsReal ==
    \A r \in Runs : run[r].phase = "done" => run[r].lost <= Cardinality(Unseen(r))

(* A run that had the queue to itself and met no failure reports exactly    *)
(* what did not arrive: nothing left over by an earlier run is counted.     *)
LossIsExact ==
    \A r \in Runs \ shared :
        run[r].phase = "done" /\ brokerFaults = 0
            => run[r].lost = Cardinality(Unseen(r)) /\ run[r].received <= run[r].sent

(* target_messages are sent, no more and, unless time runs out, no fewer.   *)
QuotaIsSent ==
    \A r \in Runs :
        /\ run[r].sent <= Target(r)
        /\ run[r].phase = "done" /\ ~run[r].expired => run[r].sent = Target(r)

(* Every run that was started comes to its result, also when its consumers  *)
(* have died, every publish fails or another run takes its messages.        *)
RunsEnd == []<>(\A r \in Runs : ~UnderWay(r))
=============================================================================
