----------------------------- MODULE BenchProofs -----------------------------
(***************************************************************************)
(* What holds of the broker benchmark for any number of runs, producers,   *)
(* consumers and faults: a consumer holds no more than its broker hands    *)
(* out; a result never reports a loss that did not happen, and reports all *)
(* of it when nothing failed and no other run used the queue; and the      *)
(* producers send the target between them.                                 *)
(***************************************************************************)
EXTENDS BrokerBenchmark, FiniteSetTheorems, WellFoundedInduction, TLAPS

RunState == [phase : BenchPhases, issued : Nat, sent : Nat, received : Nat, errors : Nat,
             lost : Nat, consuming : SUBSET Consumers, expired : BOOLEAN]
ProducerState == [over : BOOLEAN, sent : Nat]

(* What the consumers of a run have.                                        *)
Boxes == [Consumers -> Seq(Message)]

(* The counters of one run.  A consumer counts a message more often than it *)
(* is told apart; sent falls behind issued when a publish raises; and once  *)
(* a run is over nothing counts any more.                                   *)
CountersOK(m, s) ==
    /\ IsFiniteSet(s) /\ Cardinality(s) <= m.received
    /\ m.sent <= m.issued
    /\ m.phase = "done" => m.consuming = {} /\ (m.lost = 0 \/ m.lost + m.received <= m.sent)

Counted == \A r \in Runs : CountersOK(run[r], seen[r])

BenchInv == BenchTypeOK /\ Counted

-----------------------------------------------------------------------------
(* Updates of one field.                                                    *)
LEMMA FieldType ==
    ASSUME NEW m \in RunState, NEW n \in Nat, NEW b \in BOOLEAN, NEW cs \in SUBSET Consumers
    PROVE  /\ [m EXCEPT !.received = @ + 1] \in RunState
           /\ [m EXCEPT !.lost = n] \in RunState
           /\ [m EXCEPT !.expired = b] \in RunState
           /\ [m EXCEPT !.consuming = cs] \in RunState
<1>1. [m EXCEPT !.received = @ + 1] \in RunState
    BY DEF RunState
<1>2. [m EXCEPT !.lost = n] \in RunState
    BY DEF RunState
<1>3. [m EXCEPT !.expired = b] \in RunState
    BY DEF RunState
<1>4. [m EXCEPT !.consuming = cs] \in RunState
    BY DEF RunState
<1> QED BY <1>1, <1>2, <1>3, <1>4

(* Updates of two fields of a run, one after the other.                     *)
LEMMA MovedType ==
    ASSUME NEW m \in RunState, NEW phase \in BenchPhases, NEW cs \in SUBSET Consumers
    PROVE  [m EXCEPT !.phase = phase, !.consuming = cs] \in RunState
<1> DEFINE n == [m EXCEPT !.phase = phase]
<1>1. n \in RunState
    BY DEF RunState
<1>2. [n EXCEPT !.consuming = cs] \in RunState
    BY <1>1, FieldType
<1> QED BY <1>2

(* The two ways a producer counts.                                          *)
LEMMA CountType ==
    ASSUME NEW m \in RunState
    PROVE  /\ [m EXCEPT !.issued = @ + 1, !.sent = @ + 1] \in RunState
           /\ [m EXCEPT !.errors = @ + 1, !.issued = @ + 1] \in RunState
<1> DEFINE n == [m EXCEPT !.issued = @ + 1]
           e == [m EXCEPT !.errors = @ + 1]
<1>1. n \in RunState
    BY DEF RunState
<1>2. e \in RunState
    BY DEF RunState
<1> HIDE DEF n, e
<1>3. [n EXCEPT !.sent = @ + 1] \in RunState
    BY <1>1 DEF RunState
<1>4. [e EXCEPT !.issued = @ + 1] \in RunState
    BY <1>2 DEF RunState
<1>5. [m EXCEPT !.issued = @ + 1, !.sent = @ + 1] \in RunState
    BY <1>3 DEF n
<1>6. [m EXCEPT !.errors = @ + 1, !.issued = @ + 1] \in RunState
    BY <1>4 DEF e
<1> QED BY <1>5, <1>6

(* At the start nothing is counted and nothing held.                        *)
LEMMA BenchInitInv == BenchInit => BenchInv
<1> SUFFICES ASSUME BenchInit PROVE BenchInv
    OBVIOUS
<1>1. NewRun \in RunState
    BY DEF NewRun, RunState, BenchPhases
<1>2. run \in [Runs -> RunState] /\ producer \in [Runs -> [Producers -> ProducerState]]
    BY <1>1 DEF BenchInit, ProducerState
<1>3. Capacity \in Nat
    BY BenchAssumption DEF Capacity, BenchAssumption
<1>4. /\ held \in [Runs -> Boxes] /\ unacked \in [Runs -> Boxes]
      /\ seen \in [Runs -> SUBSET Message] /\ queue \in Seq(Message)
      /\ \A r \in Runs, c \in Consumers : Len(held[r][c]) + Len(unacked[r][c]) <= Capacity
    BY <1>3 DEF BenchInit, Boxes
<1>5. brokerFaults \in 0..BrokerFaults
    BY BenchAssumption DEF BenchInit, BenchAssumption
<1>6. BenchTypeOK
    BY <1>2, <1>4, <1>5 DEF BenchInit, BenchTypeOK, RunState, ProducerState, Boxes
<1>7. CountersOK(NewRun, {})
    BY FS_EmptySet DEF CountersOK, NewRun
<1>8. Counted
    BY <1>7 DEF Counted, BenchInit
<1> QED BY <1>6, <1>8 DEF BenchInv

(* What a step that only concerns run r's counters has to show.             *)
LEMMA RunStepInv ==
    ASSUME BenchInv, NEW r \in Runs, NEW m \in RunState, run' = [run EXCEPT ![r] = m],
           NEW s \in SUBSET Message, seen' = [seen EXCEPT ![r] = s], CountersOK(m, s),
           queue' \in Seq(Message), producer' \in [Runs -> [Producers -> ProducerState]],
           NEW h \in Boxes, held' = [held EXCEPT ![r] = h],
           NEW u \in Boxes, unacked' = [unacked EXCEPT ![r] = u],
           \A c \in Consumers : Len(h[c]) + Len(u[c]) <= Capacity,
           shared' \in SUBSET Runs, brokerFaults' \in 0..BrokerFaults,
           UNCHANGED <<broker, scenario>>
    PROVE  BenchInv'
<1>1. run \in [Runs -> RunState] /\ held \in [Runs -> Boxes]
      /\ unacked \in [Runs -> Boxes] /\ seen \in [Runs -> SUBSET Message]
    BY DEF BenchInv, BenchTypeOK, RunState, Boxes
<1>2. run' \in [Runs -> RunState] /\ held' \in [Runs -> Boxes]
      /\ unacked' \in [Runs -> Boxes] /\ seen' \in [Runs -> SUBSET Message]
    BY <1>1
<1>3. Capacity' = Capacity
    BY DEF Capacity
<1>4. ASSUME NEW q \in Runs, NEW c \in Consumers
      PROVE  Len(held'[q][c]) + Len(unacked'[q][c]) <= Capacity'
    <2>1. CASE q = r
        BY <1>1, <1>3, <2>1
    <2>2. CASE q # r
        BY <1>1, <1>3, <2>2 DEF BenchInv, BenchTypeOK
    <2> QED BY <2>1, <2>2
<1>5. BenchTypeOK'
    BY <1>2, <1>4 DEF BenchInv, BenchTypeOK, RunState, ProducerState, Boxes
<1>6. ASSUME NEW q \in Runs PROVE CountersOK(run'[q], seen'[q])
    <2>1. CASE q = r
        BY <1>1, <2>1
    <2>2. CASE q # r
        BY <1>1, <2>2 DEF BenchInv, Counted
    <2> QED BY <2>1, <2>2
<1>7. Counted'
    BY <1>6 DEF Counted
<1> QED BY <1>5, <1>7 DEF BenchInv

(* What the invariant says of one run.                                      *)
LEMMA OneRun ==
    ASSUME BenchInv, NEW r \in Runs
    PROVE  /\ run \in [Runs -> RunState] /\ run[r] \in RunState /\ seen[r] \in SUBSET Message
           /\ CountersOK(run[r], seen[r])
           /\ held[r] \in Boxes /\ unacked[r] \in Boxes
           /\ \A c \in Consumers : Len(held[r][c]) + Len(unacked[r][c]) <= Capacity
           /\ queue \in Seq(Message)
           /\ producer \in [Runs -> [Producers -> ProducerState]]
           /\ run = [run EXCEPT ![r] = run[r]] /\ seen = [seen EXCEPT ![r] = seen[r]]
           /\ held = [held EXCEPT ![r] = held[r]] /\ unacked = [unacked EXCEPT ![r] = unacked[r]]
           /\ shared \in SUBSET Runs /\ brokerFaults \in 0..BrokerFaults
           /\ Cardinality(seen[r]) \in Nat /\ BrokerFaults \in Nat
<1>1. /\ run \in [Runs -> RunState] /\ seen \in [Runs -> SUBSET Message]
      /\ held \in [Runs -> Boxes] /\ unacked \in [Runs -> Boxes]
    BY DEF BenchInv, BenchTypeOK, RunState, Boxes
<1>2. CountersOK(run[r], seen[r])
    BY DEF BenchInv, Counted
<1>3. Cardinality(seen[r]) \in Nat
    BY <1>2, FS_CardinalityType DEF CountersOK
<1>4. /\ queue \in Seq(Message) /\ producer \in [Runs -> [Producers -> ProducerState]]
      /\ shared \in SUBSET Runs /\ brokerFaults \in 0..BrokerFaults
      /\ \A c \in Consumers : Len(held[r][c]) + Len(unacked[r][c]) <= Capacity
    BY DEF BenchInv, BenchTypeOK, ProducerState
<1> QED BY <1>1, <1>2, <1>3, <1>4, BenchAssumption DEF BenchAssumption

(* An emptied queue is a queue.                                             *)
LEMMA NoMessages == <<>> \in Seq(Message) /\ Len(<<>>) = 0
OBVIOUS

(* What the prefetch count leaves room for.                                 *)
LEMMA Room ==
    ASSUME NEW held1 \in Nat, NEW unacked1 \in Nat, NEW capacity \in Nat
    PROVE  /\ held1 + unacked1 < capacity => (held1 + 1) + unacked1 <= capacity
           /\ held1 + unacked1 <= capacity => held1 + 0 <= capacity
OBVIOUS

(* A fault is counted up to the bound.                                      *)
LEMMA FaultsBounded ==
    ASSUME BenchInv,
           UNCHANGED brokerFaults \/ (brokerFaults < BrokerFaults /\ brokerFaults' = brokerFaults + 1)
    PROVE  brokerFaults' \in 0..BrokerFaults
BY BenchAssumption DEF BenchInv, BenchTypeOK, BenchAssumption

(* Connecting, emptying the queue and the end of the producers leave the    *)
(* counters alone.                                                          *)
LEMMA PhaseInv ==
    ASSUME BenchInv, NEW r \in Runs,
           Start(r) \/ ResetQueue(r) \/ ResetFails(r) \/ StartDrain(r)
    PROVE  BenchInv'
<1> DEFINE Moved(phase, c) == [run[r] EXCEPT !.phase = phase, !.consuming = c]
<1>1. ASSUME NEW phase \in BenchPhases \ {"done"}, NEW c \in SUBSET Consumers
      PROVE  Moved(phase, c) \in RunState /\ CountersOK(Moved(phase, c), seen[r])
    <2>1. Moved(phase, c) \in RunState
        BY OneRun, MovedType
    <2>2. CountersOK(Moved(phase, c), seen[r])
        BY OneRun DEF RunState, CountersOK
    <2> QED BY <2>1, <2>2
<1>2. \E phase \in BenchPhases \ {"done"}, c \in SUBSET Consumers :
          run' = [run EXCEPT ![r] = Moved(phase, c)]
    <2>1. run[r] \in RunState
        BY OneRun
    <2>2. CASE Start(r)
        <3>1. run' = [run EXCEPT ![r] = Moved("connected", run[r].consuming)]
            BY <2>1, <2>2 DEF Start, RunState
        <3> QED BY <2>1, <3>1 DEF BenchPhases, RunState
    <2>3. CASE ResetQueue(r)
        <3>1. run' = [run EXCEPT ![r] = Moved("driving", Config[scenario][r].consumers)]
            BY <2>1, <2>3 DEF ResetQueue, RunState
        <3>2. Config[scenario][r].consumers \in SUBSET Consumers
            BY BenchAssumption DEF BenchAssumption, BenchInv, BenchTypeOK
        <3> QED BY <3>1, <3>2 DEF BenchPhases
    <2>4. CASE ResetFails(r)
        <3>1. run' = [run EXCEPT ![r] = Moved("failed", run[r].consuming)]
            BY <2>1, <2>4 DEF ResetFails, RunState
        <3> QED BY <2>1, <3>1 DEF BenchPhases, RunState
    <2>5. CASE StartDrain(r)
        <3>1. run' = [run EXCEPT ![r] = Moved("draining", run[r].consuming)]
            BY <2>1, <2>5 DEF StartDrain, RunState
        <3> QED BY <2>1, <3>1 DEF BenchPhases, RunState
    <2> QED BY <2>2, <2>3, <2>4, <2>5
<1>3. PICK m \in RunState : run' = [run EXCEPT ![r] = m] /\ CountersOK(m, seen[r])
    BY <1>1, <1>2
<1>4. queue' \in Seq(Message)
    <2>1. queue' = queue \/ queue' = <<>>
        BY DEF Start, ResetQueue, ResetFails, StartDrain
    <2>2. queue \in Seq(Message)
        BY OneRun
    <2> QED BY <2>1, <2>2, NoMessages
<1>5. shared' \in SUBSET Runs
    <2>1. shared \in SUBSET Runs
        BY OneRun
    <2> QED BY <2>1 DEF Start, ResetQueue, ResetFails, StartDrain
<1>6. brokerFaults' \in 0..BrokerFaults
    <2>1. UNCHANGED brokerFaults \/ (brokerFaults < BrokerFaults /\ brokerFaults' = brokerFaults + 1)
        BY DEF Start, ResetQueue, ResetFails, StartDrain
    <2> QED BY <2>1, FaultsBounded
<1>7. UNCHANGED <<broker, scenario, producer, held, unacked, seen>>
    BY DEF Start, ResetQueue, ResetFails, StartDrain
<1> QED BY <1>3, <1>4, <1>5, <1>6, <1>7, OneRun, RunStepInv

(* A producer counts what it has sent after, or without, the broker.        *)
LEMMA ProduceInv ==
    ASSUME BenchInv, NEW r \in Runs, NEW p \in Producers,
           \/ Publish(r, p) \/ PublishFails(r, p) \/ PublishDropped(r, p) \/ ProducerEnds(r, p)
    PROVE  BenchInv'
<1>1. /\ run \in [Runs -> RunState] /\ run[r] \in RunState
      /\ CountersOK(run[r], seen[r]) /\ run[r].phase = "driving"
    BY OneRun DEF Publish, PublishFails, PublishDropped, ProducerEnds, Sends
<1>2. PICK m \in RunState : run' = [run EXCEPT ![r] = m] /\ CountersOK(m, seen[r])
    <2>1. CASE run' = [run EXCEPT ![r].issued = @ + 1, ![r].sent = @ + 1]
        <3> DEFINE m == [run[r] EXCEPT !.issued = @ + 1, !.sent = @ + 1]
        <3>1. m \in RunState
            BY <1>1, CountType
        <3>2. run' = [run EXCEPT ![r] = m]
            BY <1>1, <2>1
        <3>3. CountersOK(m, seen[r])
            BY <1>1 DEF CountersOK, RunState
        <3> QED BY <3>1, <3>2, <3>3
    <2>2. CASE run' = [run EXCEPT ![r].errors = @ + 1, ![r].issued = @ + 1]
        <3> DEFINE m == [run[r] EXCEPT !.errors = @ + 1, !.issued = @ + 1]
        <3>1. m \in RunState
            BY <1>1, CountType
        <3>2. run' = [run EXCEPT ![r] = m]
            BY <1>1, <2>2
        <3>3. CountersOK(m, seen[r])
            BY <1>1 DEF CountersOK, RunState
        <3> QED BY <3>1, <3>2, <3>3
    <2>3. CASE ProducerEnds(r, p)
        <3>1. PICK e \in BOOLEAN : run' = [run EXCEPT ![r].expired = e]
            BY <1>1, <2>3 DEF ProducerEnds, RunState
        <3> DEFINE m == [run[r] EXCEPT !.expired = e]
        <3>2. m \in RunState
            BY <1>1, FieldType
        <3>3. run' = [run EXCEPT ![r] = m]
            BY <1>1, <3>1
        <3>4. CountersOK(m, seen[r])
            BY <1>1 DEF CountersOK, RunState
        <3> QED BY <3>2, <3>3, <3>4
    <2> QED BY <2>1, <2>2, <2>3 DEF Publish, PublishFails, PublishDropped
<1>3. queue' \in Seq(Message)
    <2>1. queue \in Seq(Message) /\ <<r, run[r].issued>> \in Message
        BY <1>1, OneRun DEF Message, RunState
    <2>2. \/ queue' = queue
          \/ queue' = Append(queue, <<r, run[r].issued>>)
        BY DEF Publish, PublishFails, PublishDropped, ProducerEnds
    <2> QED BY <2>1, <2>2
<1>4. producer' \in [Runs -> [Producers -> ProducerState]]
    <2>1. producer \in [Runs -> [Producers -> ProducerState]]
        BY OneRun
    <2>2. CASE producer' = [producer EXCEPT ![r][p].sent = @ + 1]
        BY <2>1, <2>2 DEF ProducerState
    <2>3. CASE producer' = [producer EXCEPT ![r][p].over = TRUE]
        <3>1. producer[r][p] \in ProducerState
            BY <2>1
        <3>2. [producer[r][p] EXCEPT !.over = TRUE] \in ProducerState
            BY <3>1 DEF ProducerState
        <3> QED BY <2>1, <2>3, <3>2
    <2> QED BY <2>1, <2>2, <2>3 DEF Publish, PublishFails, PublishDropped, ProducerEnds
<1>5. brokerFaults' \in 0..BrokerFaults
    <2>1. UNCHANGED brokerFaults \/ (brokerFaults < BrokerFaults /\ brokerFaults' = brokerFaults + 1)
        BY DEF Publish, PublishFails, PublishDropped, ProducerEnds
    <2> QED BY <2>1, FaultsBounded
<1>6. UNCHANGED <<broker, scenario, held, unacked, seen, shared>>
    BY DEF Publish, PublishFails, PublishDropped, ProducerEnds
<1> QED BY <1>2, <1>3, <1>4, <1>5, <1>6, OneRun, RunStepInv

(* Delivery and acknowledgement move messages; the prefetch count bounds    *)
(* both together.                                                           *)
LEMMA DeliverInv ==
    ASSUME BenchInv, NEW r \in Runs, NEW c \in Consumers, Deliver(r, c) \/ Ack(r, c)
    PROVE  BenchInv'
<1>1. /\ held[r] \in Boxes /\ unacked[r] \in Boxes /\ queue \in Seq(Message)
      /\ \A b \in Consumers : Len(held[r][b]) + Len(unacked[r][b]) <= Capacity
    BY OneRun
<1>2. /\ held[r][c] \in Seq(Message) /\ unacked[r][c] \in Seq(Message)
      /\ Len(held[r][c]) \in Nat /\ Len(unacked[r][c]) \in Nat /\ Capacity \in Nat
    BY <1>1, BenchAssumption DEF BenchAssumption, Capacity, Boxes
<1>3. CASE Deliver(r, c)
    <2> DEFINE new == Append(held[r][c], Head(queue))
               h == [held[r] EXCEPT ![c] = new]
    <2>1. Head(queue) \in Message /\ Tail(queue) \in Seq(Message)
        BY <1>1, <1>3 DEF Deliver
    <2>2. new \in Seq(Message) /\ Len(new) = Len(held[r][c]) + 1
        BY <1>2, <2>1
    <2>3. Len(new) + Len(unacked[r][c]) <= Capacity
        <3>1. Len(held[r][c]) + Len(unacked[r][c]) < Capacity
            BY <1>3 DEF Deliver
        <3>2. Len(new) = Len(held[r][c]) + 1
            BY <2>2
        <3> HIDE DEF new
        <3> QED BY <1>2, <3>1, <3>2, Room, Zenon
    <2>4. held' = [held EXCEPT ![r] = h] /\ queue' = Tail(queue)
        BY <1>3 DEF Deliver
    <2>5. UNCHANGED <<broker, scenario, run, producer, unacked, seen, shared, brokerFaults>>
        BY <1>3 DEF Deliver
    <2> HIDE DEF new
    <2>6. h \in Boxes /\ \A b \in Consumers : Len(h[b]) + Len(unacked[r][b]) <= Capacity
        BY <1>1, <2>2, <2>3 DEF Boxes
    <2> HIDE DEF h
    <2> QED BY <2>1, <2>4, <2>5, <2>6, OneRun, RunStepInv
<1>4. CASE Ack(r, c)
    <2> DEFINE u == [unacked[r] EXCEPT ![c] = <<>>]
    <2>1. Len(held[r][c]) + 0 <= Capacity
        BY <1>1, <1>2, Room, Zenon
    <2>2. Len(held[r][c]) + Len(<<>>) <= Capacity
        BY <2>1, NoMessages, Zenon
    <2>3. unacked' = [unacked EXCEPT ![r] = u]
        BY <1>4 DEF Ack
    <2>4. UNCHANGED <<broker, scenario, queue, run, producer, held, seen, shared, brokerFaults>>
        BY <1>4 DEF Ack
    <2>5. u \in Boxes /\ \A b \in Consumers : Len(held[r][b]) + Len(u[b]) <= Capacity
        BY <1>1, <2>2, NoMessages DEF Boxes
    <2> HIDE DEF u
    <2> QED BY <2>3, <2>4, <2>5, OneRun, RunStepInv
<1> QED BY <1>3, <1>4

(* A message is counted as it is processed; told apart it counts once.      *)
LEMMA ProcessInv ==
    ASSUME BenchInv, NEW r \in Runs, NEW c \in Consumers, Process(r, c)
    PROVE  BenchInv'
<1> DEFINE first == Head(held[r][c])
           m == [run[r] EXCEPT !.received = @ + 1]
           s == seen[r] \cup {first}
           rest == Tail(held[r][c])
           acks == IF broker = "rabbitmq" THEN <<first>> ELSE <<>>
           h == [held[r] EXCEPT ![c] = rest]
           u == [unacked[r] EXCEPT ![c] = acks]
<1>1. /\ run \in [Runs -> RunState] /\ run[r] \in RunState /\ CountersOK(run[r], seen[r])
      /\ held[r] \in Boxes /\ unacked[r] \in Boxes
      /\ \A b \in Consumers : Len(held[r][b]) + Len(unacked[r][b]) <= Capacity
      /\ seen[r] \in SUBSET Message /\ Cardinality(seen[r]) \in Nat
    BY OneRun
<1>2. held[r][c] # <<>> /\ unacked[r][c] = <<>> /\ run[r].consuming # {}
    BY DEF Process
<1>3. /\ held[r][c] \in Seq(Message) /\ first \in Message /\ rest \in Seq(Message)
      /\ Len(rest) = Len(held[r][c]) - 1
    BY <1>1, <1>2 DEF Boxes
<1>4. s \in SUBSET Message
    BY <1>1, <1>3
<1>5. acks \in Seq(Message) /\ Len(acks) <= 1
    <2>1. <<first>> \in Seq(Message) /\ <<>> \in Seq(Message) /\ Len(<<first>>) = 1
        BY <1>3
    <2> QED BY <2>1
<1>6. Len(rest) + Len(acks) <= Capacity
    <2>1. Capacity \in Nat
        BY BenchAssumption DEF BenchAssumption, Capacity
    <2> HIDE DEF rest, acks
    <2>2. Len(held[r][c]) \in Nat /\ Len(acks) \in Nat
        BY <1>3, <1>5
    <2>3. Len(held[r][c]) + Len(<<>>) <= Capacity
        BY <1>1, <1>2
    <2>4. Len(held[r][c]) <= Capacity /\ Len(held[r][c]) \in Nat /\ Len(acks) \in Nat
        BY <2>1, <2>2, <2>3, NoMessages
    <2> QED BY <1>3, <1>5, <2>1, <2>4
<1>7. m \in RunState
    BY <1>1, FieldType
<1>8. CountersOK(m, s)
    <2>1. IsFiniteSet(s) /\ Cardinality(s) <= Cardinality(seen[r]) + 1
        <3>1. IsFiniteSet(seen[r])
            BY <1>1 DEF CountersOK
        <3> HIDE DEF first
        <3>2. Cardinality(seen[r] \cup {first}) \in {Cardinality(seen[r]), Cardinality(seen[r]) + 1}
            BY <3>1, FS_AddElement
        <3>3. IsFiniteSet(seen[r] \cup {first})
            BY <3>1, FS_AddElement
        <3> QED BY <1>1, <3>2, <3>3
    <2>2. Cardinality(s) \in Nat
        BY <2>1, FS_CardinalityType
    <2> HIDE DEF s
    <2> QED BY <1>1, <1>2, <2>1, <2>2 DEF CountersOK, RunState
<1>9. /\ run' = [run EXCEPT ![r] = m] /\ seen' = [seen EXCEPT ![r] = s]
      /\ held' = [held EXCEPT ![r] = h] /\ unacked' = [unacked EXCEPT ![r] = u]
    BY <1>1 DEF Process
<1>10. UNCHANGED <<broker, scenario, queue, producer, shared, brokerFaults>>
    BY DEF Process
<1> HIDE DEF m, s, rest, acks, first
<1>11. /\ h \in Boxes /\ u \in Boxes
       /\ \A b \in Consumers : Len(h[b]) + Len(u[b]) <= Capacity
    BY <1>1, <1>3, <1>5, <1>6 DEF Boxes
<1> HIDE DEF h, u
<1> QED BY <1>4, <1>7, <1>8, <1>9, <1>10, <1>11, OneRun, RunStepInv

(* The elements of a sequence are finitely many.                            *)
LEMMA ElementsFinite == ASSUME NEW S, NEW q \in Seq(S) PROVE IsFiniteSet(Range(q))
<1> DEFINE f == [i \in 1..Len(q) |-> q[i]]
<1>1. Len(q) \in Nat /\ DOMAIN q = 1..Len(q)
    OBVIOUS
<1>2. IsFiniteSet(1..Len(q))
    BY <1>1, FS_Interval
<1>3. f \in Surjection(1..Len(q), Range(q))
    BY <1>1 DEF Surjection, Range
<1> QED BY <1>2, <1>3, FS_Surjection

(* What some consumers of a run have can be put into an order.              *)
LEMMA DeliveredFinite ==
    ASSUME BenchInv, NEW r \in Runs, NEW cs \in SUBSET Consumers
    PROVE  IsFiniteSet(Delivered(r, cs)) /\ Delivered(r, cs) \subseteq Message
<1> DEFINE Has(c) == Range(held[r][c]) \cup Range(unacked[r][c])
           T == {Has(c) : c \in cs}
           f == [c \in cs |-> Has(c)]
<1>1. held[r] \in Boxes /\ unacked[r] \in Boxes
    BY OneRun
<1>2. ASSUME NEW c \in cs PROVE IsFiniteSet(Has(c)) /\ Has(c) \subseteq Message
    <2>1. held[r][c] \in Seq(Message) /\ unacked[r][c] \in Seq(Message)
        BY <1>1 DEF Boxes
    <2>2. IsFiniteSet(Range(held[r][c])) /\ IsFiniteSet(Range(unacked[r][c]))
        BY <2>1, ElementsFinite
    <2>3. Has(c) \subseteq Message
        BY <2>1 DEF Range
    <2> QED BY <2>2, <2>3, FS_Union
<1> HIDE DEF Has
<1>3. IsFiniteSet(cs)
    BY BenchAssumption, FS_Subset DEF BenchAssumption
<1>4. f \in Surjection(cs, T)
    BY DEF Surjection
<1> HIDE DEF f
<1>5. IsFiniteSet(T)
    BY <1>3, <1>4, FS_Surjection
<1>6. \A t \in T : IsFiniteSet(t) /\ t \subseteq Message
    BY <1>2
<1>7. Delivered(r, cs) = UNION T
    BY DEF Delivered, Has
<1> HIDE DEF T
<1>8. IsFiniteSet(UNION T) /\ UNION T \subseteq Message
    BY <1>5, <1>6, FS_UNION
<1> QED BY <1>7, <1>8

(* A connection that goes hands the messages back to the queue or loses     *)
(* them, and frees its consumers.                                           *)
LEMMA HandBackInv ==
    ASSUME BenchInv, NEW r \in Runs, NEW m \in RunState, run' = [run EXCEPT ![r] = m],
           CountersOK(m, seen[r]), NEW cs \in SUBSET Consumers, HandBack(r, cs),
           brokerFaults' \in 0..BrokerFaults, UNCHANGED <<broker, scenario, producer, seen, shared>>
    PROVE  BenchInv'
<1> DEFINE h == [c \in Consumers |-> IF c \in cs THEN <<>> ELSE held[r][c]]
           u == [c \in Consumers |-> IF c \in cs THEN <<>> ELSE unacked[r][c]]
<1>1. queue' \in Seq(Message)
    <2>1. queue \in Seq(Message)
        BY OneRun
    <2>2. ASSUME NEW back \in SetToSeqs(Delivered(r, cs)), queue' = back \o queue
          PROVE  queue' \in Seq(Message)
        <3>1. back \in [1..Cardinality(Delivered(r, cs)) -> Delivered(r, cs)]
            BY DEF SetToSeqs
        <3>2. Cardinality(Delivered(r, cs)) \in Nat /\ Delivered(r, cs) \subseteq Message
            BY DeliveredFinite, FS_CardinalityType
        <3>3. back \in Seq(Message)
            BY <3>1, <3>2
        <3> QED BY <2>1, <2>2, <3>3
    <2> QED BY <2>1, <2>2 DEF HandBack
<1>2. <<>> \in Seq(Message) /\ Len(<<>>) + Len(<<>>) <= Capacity
    BY BenchAssumption DEF BenchAssumption, Capacity
<1>3. held \in [Runs -> Boxes] /\ unacked \in [Runs -> Boxes]
    BY DEF BenchInv, BenchTypeOK, Boxes
<1>4. held' = [held EXCEPT ![r] = h] /\ unacked' = [unacked EXCEPT ![r] = u]
    BY <1>3 DEF HandBack
<1>5. /\ held[r] \in Boxes /\ unacked[r] \in Boxes
      /\ \A c \in Consumers : Len(held[r][c]) + Len(unacked[r][c]) <= Capacity
    BY OneRun
<1>6. h \in Boxes /\ u \in Boxes /\ \A c \in Consumers : Len(h[c]) + Len(u[c]) <= Capacity
    BY <1>2, <1>5 DEF Boxes
<1> HIDE DEF h, u
<1> QED BY <1>1, <1>4, <1>6, OneRun, RunStepInv

(* The connection drops during a run, some of whose consumers may die of it.*)
LEMMA ConnectionLostInv ==
    ASSUME BenchInv, NEW r \in Runs, NEW c \in Consumers, ConnectionLost(r, c)
    PROVE  BenchInv'
<1>1. /\ run \in [Runs -> RunState] /\ run[r] \in RunState /\ CountersOK(run[r], seen[r])
      /\ run[r].consuming # {} /\ run[r].consuming \in SUBSET Consumers
    BY OneRun DEF ConnectionLost, RunState
<1>2. PICK cs \in SUBSET Consumers : HandBack(r, cs)
    BY <1>1 DEF ConnectionLost
<1>3. PICK dead : run' = [run EXCEPT ![r].consuming = @ \ dead]
    BY DEF ConnectionLost
<1> DEFINE m == [run[r] EXCEPT !.consuming = @ \ dead]
<1>4. m \in RunState
    BY <1>1, FieldType
<1>5. CountersOK(m, seen[r])
    BY <1>1 DEF CountersOK, RunState
<1>6. run' = [run EXCEPT ![r] = m]
    BY <1>1, <1>3
<1>7. brokerFaults' \in 0..BrokerFaults
    BY FaultsBounded DEF ConnectionLost
<1>8. UNCHANGED <<broker, scenario, producer, seen, shared>>
    BY DEF ConnectionLost
<1> HIDE DEF m
<1> QED BY <1>2, <1>4, <1>5, <1>6, <1>7, <1>8, HandBackInv

(* The result is computed from the counters of this moment, and none of     *)
(* them moves any more.                                                     *)
LEMMA FinishInv ==
    ASSUME BenchInv, NEW r \in Runs, Drained(r) \/ DrainExpires(r)
    PROVE  BenchInv'
<1>1. run \in [Runs -> RunState] /\ run[r] \in RunState /\ CountersOK(run[r], seen[r])
    BY OneRun
<1> DEFINE n == [run[r] EXCEPT !.phase = "done", !.consuming = {}]
           m == [run[r] EXCEPT !.phase = "done", !.consuming = {}, !.lost = Lost(run[r])]
<1>2. n \in RunState
    BY <1>1, MovedType DEF BenchPhases
<1>3. Lost(run[r]) \in Nat /\ (Lost(run[r]) = 0 \/ Lost(run[r]) + run[r].received = run[r].sent)
    BY <1>1 DEF Lost, RunState
<1>4. m \in RunState
    <2> HIDE DEF n
    <2>1. [n EXCEPT !.lost = Lost(run[r])] \in RunState
        BY <1>2, <1>3, FieldType
    <2> QED BY <2>1 DEF n
<1>5. CountersOK(m, seen[r])
    BY <1>1, <1>3 DEF CountersOK, RunState
<1>6. run' = [run EXCEPT ![r] = m]
    BY <1>1 DEF Drained, DrainExpires, Finish
<1>7. brokerFaults' \in 0..BrokerFaults
    BY FaultsBounded DEF Drained, DrainExpires, Finish
<1>8. HandBack(r, Consumers) /\ UNCHANGED <<broker, scenario, producer, seen, shared>>
    BY DEF Drained, DrainExpires, Finish
<1> HIDE DEF m, n
<1> QED BY <1>4, <1>5, <1>6, <1>7, <1>8, HandBackInv

-----------------------------------------------------------------------------
(* Every step of every run keeps the invariant.                             *)
LEMMA BenchStep == BenchInv /\ [BenchNext]_benchVars => BenchInv'
<1> SUFFICES ASSUME BenchInv, [BenchNext]_benchVars PROVE BenchInv'
    OBVIOUS
<1>1. CASE UNCHANGED benchVars
    BY <1>1 DEF benchVars, BenchInv, BenchTypeOK, Counted, Capacity
<1>2. ASSUME NEW r \in Runs, Start(r) \/ ResetQueue(r) \/ ResetFails(r) \/ StartDrain(r)
      PROVE  BenchInv'
    BY <1>2, PhaseInv
<1>3. ASSUME NEW r \in Runs, Drained(r) \/ DrainExpires(r) PROVE BenchInv'
    BY <1>3, FinishInv
<1>4. ASSUME NEW r \in Runs, NEW c \in Consumers,
             Deliver(r, c) \/ Process(r, c) \/ Ack(r, c) \/ ConnectionLost(r, c)
      PROVE  BenchInv'
    BY <1>4, DeliverInv, ProcessInv, ConnectionLostInv
<1>5. ASSUME NEW r \in Runs, NEW p \in Producers,
             \/ Publish(r, p) \/ PublishFails(r, p) \/ PublishDropped(r, p) \/ ProducerEnds(r, p)
      PROVE  BenchInv'
    BY <1>5, ProduceInv
<1> QED BY <1>1, <1>2, <1>3, <1>4, <1>5 DEF BenchNext

(* Of the messages a run issued, those it has not processed are no fewer    *)
(* than issued less processed, whatever else it has processed, and as many  *)
(* if it has processed nothing else.                                        *)
LEMMA UnseenBound ==
    ASSUME BenchInv, NEW r \in Runs
    PROVE  /\ Cardinality(Unseen(r)) \in Nat
           /\ run[r].issued <= Cardinality(Unseen(r)) + Cardinality(seen[r])
           /\ seen[r] \subseteq {<<r, n>> : n \in 0..(run[r].issued - 1)}
                => run[r].issued = Cardinality(Unseen(r)) + Cardinality(seen[r])
<1> DEFINE N == 0..(run[r].issued - 1)
           S == {n \in N : <<r, n>> \in seen[r]}
           f == [n \in S |-> <<r, n>>]
<1>1. run[r].issued \in Nat /\ IsFiniteSet(seen[r]) /\ Cardinality(seen[r]) \in Nat
    BY OneRun DEF CountersOK, RunState
<1>2. IsFiniteSet(N) /\ Cardinality(N) = run[r].issued
    <2>1. 0 \in Int /\ run[r].issued - 1 \in Int
        BY <1>1
    <2>2. IsFiniteSet(N) /\ Cardinality(N) = IF 0 > run[r].issued - 1 THEN 0
                                              ELSE (run[r].issued - 1) - 0 + 1
        BY <2>1, FS_Interval, Zenon
    <2> HIDE DEF N
    <2> QED BY <1>1, <2>2
<1>3. f \in Injection(S, seen[r])
    BY DEF Injection, IsInjective
<1>4. ASSUME seen[r] \subseteq {<<r, n>> : n \in N}
      PROVE  Cardinality(S) = Cardinality(seen[r])
    <2>1. f \in Surjection(S, seen[r])
        BY <1>4 DEF Surjection
    <2>2. ExistsBijection(S, seen[r])
        BY <1>3, <2>1 DEF ExistsBijection, Bijection
    <2>3. IsFiniteSet(S)
        BY <1>2, FS_Subset
    <2> QED BY <2>2, <2>3, FS_Bijection
<1> HIDE DEF f
<1>5. Cardinality(S) <= Cardinality(seen[r])
    BY <1>1, <1>3, FS_Injection
<1>6. Unseen(r) = N \ S /\ N \cap S = S
    BY DEF Unseen
<1>7. IsFiniteSet(Unseen(r)) /\ Cardinality(Unseen(r)) = Cardinality(N) - Cardinality(S)
    <2> HIDE DEF S, N
    <2>1. IsFiniteSet(N \ S) /\ Cardinality(N \ S) = Cardinality(N) - Cardinality(N \cap S)
        BY <1>2, FS_Difference
    <2> QED BY <1>6, <2>1
<1>8. Cardinality(S) \in Nat /\ Cardinality(Unseen(r)) \in Nat
    BY <1>1, <1>3, <1>7, FS_Injection, FS_CardinalityType
<1> HIDE DEF S
<1>9. run[r].issued <= Cardinality(Unseen(r)) + Cardinality(seen[r])
    <2> HIDE DEF N
    <2> QED BY <1>1, <1>2, <1>5, <1>7, <1>8
<1>10. ASSUME seen[r] \subseteq {<<r, n>> : n \in N}
       PROVE  run[r].issued = Cardinality(Unseen(r)) + Cardinality(seen[r])
    <2>1. Cardinality(S) = Cardinality(seen[r])
        BY <1>4, <1>10
    <2> HIDE DEF N
    <2> QED BY <1>1, <1>2, <1>7, <1>8, <2>1
<1> QED BY <1>8, <1>9, <1>10

(* The benchmark's state keeps its type, and the consumers hold no more     *)
(* than the broker hands out.                                               *)
THEOREM BenchTypeCorrect == BenchSpec => []BenchTypeOK
<1>1. BenchInv => BenchTypeOK
    BY DEF BenchInv
<1> QED BY <1>1, BenchInitInv, BenchStep, PTL DEF BenchSpec

(* What a result counts as lost was not processed by the run that sent it,  *)
(* whatever was redelivered, dropped, popped, or taken by another run.      *)
THEOREM LossCorrect == BenchSpec => []LossIsReal
<1>1. ASSUME BenchInv PROVE LossIsReal
    <2> SUFFICES ASSUME NEW r \in Runs, run[r].phase = "done"
                 PROVE  run[r].lost <= Cardinality(Unseen(r))
        BY DEF LossIsReal
    <2>1. /\ run[r].issued \in Nat /\ run[r].sent \in Nat /\ run[r].received \in Nat
          /\ run[r].lost \in Nat /\ Cardinality(seen[r]) \in Nat
        BY <1>1, OneRun DEF RunState
    <2>2. /\ Cardinality(seen[r]) <= run[r].received /\ run[r].sent <= run[r].issued
          /\ run[r].lost = 0 \/ run[r].lost + run[r].received <= run[r].sent
        BY <1>1, OneRun DEF CountersOK
    <2>3. /\ Cardinality(Unseen(r)) \in Nat
          /\ run[r].issued <= Cardinality(Unseen(r)) + Cardinality(seen[r])
        BY <1>1, UnseenBound
    <2> QED BY <2>1, <2>2, <2>3
<1>2. BenchInv => LossIsReal
    BY <1>1
<1> QED BY <1>2, BenchInitInv, BenchStep, PTL DEF BenchSpec

-----------------------------------------------------------------------------
(* A run that has the queue to itself.                                      *)

Working(r) == run[r].phase \in {"driving", "draining"}

(* The first n messages of a run.                                           *)
FirstOf(r, n) == {<<r, i>> : i \in 0..(n - 1)}

NoTwice(q) == \A i, j \in 1..Len(q) : q[i] = q[j] => i = j

(* Messages of S are in the queue or with one of the consumers, each once.  *)
Spread(S, q, h) ==
    /\ NoTwice(q) /\ Range(q) \subseteq S
    /\ \A c \in Consumers : NoTwice(h[c]) /\ Range(h[c]) \subseteq S \ Range(q)
    /\ \A c, d \in Consumers : c # d => Range(h[c]) \cap Range(h[d]) = {}

(* Without a failure a run that is alone gets nothing but its own messages, *)
(* in any order but each of them once: those it has counted are not on      *)
(* their way any more.                                                      *)
Once(r) ==
    /\ run[r].sent = run[r].issued
    /\ seen[r] \subseteq FirstOf(r, run[r].issued) /\ run[r].received = Cardinality(seen[r])
    /\ run[r].phase \in {"idle", "connected"} => run[r].sent = 0
    /\ Working(r) => Spread(FirstOf(r, run[r].issued) \ seen[r], queue, held[r])
    /\ run[r].phase = "done" => run[r].lost = run[r].sent - run[r].received

(* Two runs under way are both shared, and a consumer not at work holds     *)
(* nothing.                                                                 *)
Apart ==
    /\ \A r, s \in Runs : r # s /\ UnderWay(r) /\ UnderWay(s) => r \in shared
    /\ \A r \in Runs : run[r].consuming # {} => Working(r)
    /\ \A r \in Runs : \A c \in Consumers \ run[r].consuming :
           held[r][c] = <<>> /\ unacked[r][c] = <<>>

LossInv ==
    /\ BenchInv
    /\ Apart
    /\ brokerFaults = 0 => \A r \in Runs \ shared : Once(r)

(* What is left when the first message is taken.                            *)
LEMMA TakeFirst ==
    ASSUME NEW q \in Seq(Message), q # <<>>, NoTwice(q)
    PROVE  /\ Head(q) \in Range(q) /\ Tail(q) \in Seq(Message)
           /\ NoTwice(Tail(q)) /\ Range(Tail(q)) = Range(q) \ {Head(q)}
<1> DEFINE t == Tail(q)
<1>1. /\ Len(q) \in Nat /\ Len(q) > 0 /\ Head(q) = q[1] /\ t \in Seq(Message)
      /\ Len(t) = Len(q) - 1 /\ DOMAIN q = 1..Len(q) /\ DOMAIN t = 1..Len(t)
    OBVIOUS
<1>2. ASSUME NEW i \in 1..Len(t) PROVE t[i] = q[i + 1] /\ i + 1 \in 1..Len(q)
    BY <1>1
<1> HIDE DEF t
<1>3. NoTwice(t)
    <2> SUFFICES ASSUME NEW i \in 1..Len(t), NEW j \in 1..Len(t), t[i] = t[j] PROVE i = j
        BY DEF NoTwice
    <2>1. i + 1 = j + 1
        BY <1>2 DEF NoTwice
    <2> QED BY <2>1
<1>4. ASSUME NEW x \in Range(t) PROVE x \in Range(q) \ {q[1]}
    <2>1. PICK i \in 1..Len(t) : x = t[i]
        BY <1>1 DEF Range
    <2>2. i + 1 # 1 /\ 1 \in 1..Len(q) /\ i + 1 \in 1..Len(q) /\ x = q[i + 1]
        BY <1>1, <1>2, <2>1
    <2> QED BY <1>1, <2>2 DEF NoTwice, Range
<1>5. ASSUME NEW x \in Range(q), x # q[1] PROVE x \in Range(t)
    <2>1. PICK i \in 1..Len(q) : x = q[i]
        BY <1>1 DEF Range
    <2>2. i - 1 \in 1..Len(t) /\ (i - 1) + 1 = i
        BY <1>1, <1>5, <2>1
    <2>3. t[i - 1] = x
        BY <1>2, <2>1, <2>2
    <2> QED BY <1>1, <2>2, <2>3 DEF Range
<1>6. q[1] \in Range(q)
    BY <1>1 DEF Range
<1> QED BY <1>1, <1>3, <1>4, <1>5, <1>6 DEF t

(* What there is when a message is put at the end.                          *)
LEMMA AddLast ==
    ASSUME NEW q \in Seq(Message), NEW x \in Message, NoTwice(q), x \notin Range(q)
    PROVE  /\ Append(q, x) \in Seq(Message) /\ NoTwice(Append(q, x))
           /\ Range(Append(q, x)) = Range(q) \cup {x}
<1> DEFINE b == Append(q, x)
<1>1. /\ Len(q) \in Nat /\ b \in Seq(Message) /\ Len(b) = Len(q) + 1
      /\ DOMAIN q = 1..Len(q) /\ DOMAIN b = 1..Len(b)
      /\ b[Len(q) + 1] = x /\ \A i \in 1..Len(q) : b[i] = q[i]
    OBVIOUS
<1> HIDE DEF b
<1>2. 1..Len(b) = 1..Len(q) \cup {Len(q) + 1}
    BY <1>1
<1>3. \A i \in 1..Len(q) : q[i] \in Range(q)
    BY <1>1 DEF Range
<1>4. NoTwice(b)
    BY <1>1, <1>2, <1>3 DEF NoTwice
<1>5. Range(b) = Range(q) \cup {x}
    BY <1>1, <1>2 DEF Range
<1> QED BY <1>1, <1>4, <1>5 DEF b

(* A message is published.                                                  *)
LEMMA SpreadSent ==
    ASSUME NEW S, NEW q \in Seq(Message), NEW h \in Boxes, Spread(S, q, h),
           NEW x \in Message, x \notin S
    PROVE  Spread(S \cup {x}, Append(q, x), h)
<1>1. NoTwice(q) /\ x \notin Range(q) /\ Range(q) \subseteq S
    BY DEF Spread
<1>2. NoTwice(Append(q, x)) /\ Range(Append(q, x)) = Range(q) \cup {x}
    BY <1>1, AddLast
<1> QED BY <1>1, <1>2 DEF Spread

(* A message is delivered.                                                  *)
LEMMA SpreadDelivered ==
    ASSUME NEW S, NEW q \in Seq(Message), NEW h \in Boxes, Spread(S, q, h), q # <<>>,
           NEW c \in Consumers
    PROVE  Spread(S, Tail(q), [h EXCEPT ![c] = Append(@, Head(q))])
<1> DEFINE x == Head(q)
           g == [h EXCEPT ![c] = Append(@, x)]
<1>1. x \in Range(q) /\ x \in Message /\ NoTwice(Tail(q)) /\ Range(Tail(q)) = Range(q) \ {x}
    BY TakeFirst DEF Spread
<1>2. h[c] \in Seq(Message) /\ NoTwice(h[c]) /\ x \notin Range(h[c])
    BY <1>1 DEF Spread, Boxes
<1> HIDE DEF x
<1>3. NoTwice(g[c]) /\ Range(g[c]) = Range(h[c]) \cup {x}
    BY <1>2, <1>1, AddLast DEF Boxes
<1>4. \A d \in Consumers \ {c} : g[d] = h[d]
    BY DEF Boxes
<1> HIDE DEF g
<1>5. Range(Tail(q)) \subseteq S
    BY <1>1 DEF Spread
<1>6. ASSUME NEW d \in Consumers
      PROVE  NoTwice(g[d]) /\ Range(g[d]) \subseteq S \ Range(Tail(q))
    <2>1. CASE d = c
        BY <1>1, <1>3, <2>1 DEF Spread
    <2>2. CASE d # c
        BY <1>1, <1>4, <2>2 DEF Spread
    <2> QED BY <2>1, <2>2
<1>7. ASSUME NEW d \in Consumers, NEW e \in Consumers, d # e
      PROVE  Range(g[d]) \cap Range(g[e]) = {}
    <2>1. /\ Range(h[d]) \cap Range(h[e]) = {}
          /\ x \notin Range(h[d]) /\ x \notin Range(h[e])
        BY <1>1, <1>7 DEF Spread
    <2>2. CASE d = c
        BY <1>3, <1>4, <1>7, <2>1, <2>2
    <2>3. CASE e = c
        BY <1>3, <1>4, <1>7, <2>1, <2>3
    <2>4. CASE d # c /\ e # c
        BY <1>4, <2>1, <2>4
    <2> QED BY <2>2, <2>3, <2>4
<1>8. Spread(S, Tail(q), g)
    BY <1>1, <1>5, <1>6, <1>7 DEF Spread
<1> QED BY <1>8 DEF g, x

(* A message is processed.                                                  *)
LEMMA SpreadProcessed ==
    ASSUME NEW S, NEW q, NEW h \in Boxes, Spread(S, q, h), NEW c \in Consumers, h[c] # <<>>
    PROVE  /\ Head(h[c]) \in S
           /\ Spread(S \ {Head(h[c])}, q, [h EXCEPT ![c] = Tail(@)])
<1> DEFINE x == Head(h[c])
           g == [h EXCEPT ![c] = Tail(@)]
<1>1. h[c] \in Seq(Message) /\ NoTwice(h[c])
    BY DEF Spread, Boxes
<1>2. x \in Range(h[c]) /\ NoTwice(Tail(h[c])) /\ Range(Tail(h[c])) = Range(h[c]) \ {x}
    BY <1>1, TakeFirst
<1> HIDE DEF x
<1>3. NoTwice(g[c]) /\ Range(g[c]) = Range(h[c]) \ {x}
    BY <1>2 DEF Boxes
<1>4. \A d \in Consumers \ {c} : g[d] = h[d]
    BY DEF Boxes
<1> HIDE DEF g
<1>5. x \in S /\ x \notin Range(q) /\ \A d \in Consumers \ {c} : x \notin Range(h[d])
    BY <1>2 DEF Spread
<1>6. ASSUME NEW d \in Consumers
      PROVE  NoTwice(g[d]) /\ Range(g[d]) \subseteq (S \ {x}) \ Range(q)
    <2>1. CASE d = c
        BY <1>3, <2>1 DEF Spread
    <2>2. CASE d # c
        BY <1>4, <1>5, <2>2 DEF Spread
    <2> QED BY <2>1, <2>2
<1>7. ASSUME NEW d \in Consumers, NEW e \in Consumers, d # e
      PROVE  Range(g[d]) \cap Range(g[e]) = {}
    <2>1. Range(h[d]) \cap Range(h[e]) = {}
        BY <1>7 DEF Spread
    <2>2. Range(g[d]) \subseteq Range(h[d]) /\ Range(g[e]) \subseteq Range(h[e])
        BY <1>3, <1>4
    <2> QED BY <2>1, <2>2
<1>8. Spread(S \ {x}, q, g)
    BY <1>5, <1>6, <1>7 DEF Spread
<1> QED BY <1>5, <1>8 DEF g, x

(* What a step of one run that is under way shows for all of them.          *)
LEMMA AloneStep ==
    ASSUME LossInv, BenchInv', NEW r \in Runs, UnderWay(r), UNCHANGED shared,
           \A q \in Runs \ {r} : /\ run'[q] = run[q] /\ seen'[q] = seen[q]
                                 /\ held'[q] = held[q] /\ unacked'[q] = unacked[q],
           brokerFaults' = 0 => brokerFaults = 0,
           run'[r].consuming # {} => run'[r].phase \in {"driving", "draining"},
           \A c \in Consumers \ run'[r].consuming : held'[r][c] = <<>> /\ unacked'[r][c] = <<>>,
           brokerFaults' = 0 /\ Once(r) => Once(r)'
    PROVE  LossInv'
<1>1. Apart'
    <2>1. ASSUME NEW q \in Runs, NEW s \in Runs, q # s, UnderWay(q)', UnderWay(s)'
          PROVE  q \in shared'
        <3>1. UnderWay(q) /\ UnderWay(s)
            BY <2>1 DEF UnderWay
        <3> QED BY <2>1, <3>1 DEF LossInv, Apart
    <2>2. ASSUME NEW q \in Runs
          PROVE  /\ run'[q].consuming # {} => Working(q)'
                 /\ \A c \in Consumers \ run'[q].consuming :
                        held'[q][c] = <<>> /\ unacked'[q][c] = <<>>
        <3>1. CASE q = r
            BY <3>1 DEF Working
        <3>2. CASE q # r
            BY <3>2 DEF LossInv, Apart, Working
        <3> QED BY <3>1, <3>2
    <2> QED BY <2>1, <2>2 DEF Apart
<1>2. ASSUME brokerFaults' = 0, NEW q \in Runs, q \notin shared' PROVE Once(q)'
    <2>1. Once(q)
        BY <1>2 DEF LossInv
    <2>2. CASE q = r
        BY <1>2, <2>1, <2>2
    <2>3. CASE q # r
        <3>1. ~Working(q) /\ ~Working(q)'
            BY <1>2, <2>3 DEF LossInv, Apart, Working, UnderWay
        <3> QED BY <2>1, <2>3, <3>1 DEF Once
    <2> QED BY <2>2, <2>3
<1> QED BY <1>1, <1>2 DEF LossInv

(* What is known of a run that has the queue to itself.                     *)
LEMMA RunFields ==
    ASSUME LossInv, NEW r \in Runs
    PROVE  /\ BenchInv /\ run[r] \in RunState /\ run \in [Runs -> RunState]
           /\ run[r].sent \in Nat /\ run[r].received \in Nat /\ run[r].issued \in Nat
           /\ held[r] \in Boxes /\ queue \in Seq(Message) /\ unacked[r] \in Boxes
           /\ held \in [Runs -> Boxes] /\ unacked \in [Runs -> Boxes]
           /\ seen \in [Runs -> SUBSET Message]
           /\ run[r].consuming \in SUBSET Consumers
           /\ run[r].consuming # {} => Working(r)
           /\ \A c \in Consumers \ run[r].consuming : held[r][c] = <<>> /\ unacked[r][c] = <<>>
           /\ brokerFaults \in Nat
<1>1. BenchInv
    BY DEF LossInv
<1>2. /\ held \in [Runs -> Boxes] /\ unacked \in [Runs -> Boxes]
      /\ seen \in [Runs -> SUBSET Message] /\ brokerFaults \in Nat
    BY <1>1, BenchAssumption DEF BenchInv, BenchTypeOK, BenchAssumption, Boxes
<1>3. run[r] \in RunState /\ run \in [Runs -> RunState] /\ queue \in Seq(Message)
    BY <1>1, OneRun
<1>4. /\ run[r].consuming # {} => Working(r)
      /\ \A c \in Consumers \ run[r].consuming : held[r][c] = <<>> /\ unacked[r][c] = <<>>
    BY DEF LossInv, Apart
<1>5. run[r].sent \in Nat /\ run[r].received \in Nat /\ run[r].issued \in Nat
      /\ run[r].consuming \in SUBSET Consumers
    BY <1>3 DEF RunState
<1> QED BY <1>1, <1>2, <1>3, <1>4, <1>5

(* A run that starts while another one is under way makes both shared.      *)
LEMMA StartLoss ==
    ASSUME LossInv, BenchInv', NEW r \in Runs, Start(r) PROVE LossInv'
<1>1. /\ run \in [Runs -> RunState] /\ run[r].phase = "idle"
      /\ run' = [run EXCEPT ![r].phase = "connected"]
      /\ UNCHANGED <<queue, held, unacked, seen, brokerFaults>>
    BY RunFields DEF Start
<1>2. \A q \in Runs : q # r => run'[q] = run[q]
    BY <1>1
<1>3. /\ run'[r].phase = "connected" /\ run'[r].consuming = run[r].consuming
      /\ run'[r].sent = run[r].sent /\ run'[r].received = run[r].received
      /\ run'[r].issued = run[r].issued /\ run'[r].lost = run[r].lost
    BY <1>1 DEF RunState
<1>4. shared \subseteq shared'
    BY DEF Start
<1>5. ASSUME NEW q \in Runs, q # r, UnderWay(q) PROVE q \in shared' /\ r \in shared'
    BY <1>5 DEF Start
<1>6. ~UnderWay(r) /\ ~Working(r) /\ ~Working(r)' /\ run[r].consuming = {}
    <2>1. ~UnderWay(r) /\ ~Working(r) /\ ~Working(r)'
        BY <1>1, <1>3 DEF UnderWay, Working
    <2>2. run[r].consuming # {} => Working(r)
        BY RunFields
    <2> QED BY <2>1, <2>2
<1>7. Apart'
    <2>1. ASSUME NEW q \in Runs, NEW s \in Runs, q # s, UnderWay(q)', UnderWay(s)'
          PROVE  q \in shared'
        <3>1. CASE q = r
            <4>1. UnderWay(s)
                BY <1>2, <2>1, <3>1 DEF UnderWay
            <4> QED BY <1>5, <2>1, <3>1, <4>1
        <3>2. CASE s = r
            <4>1. UnderWay(q)
                BY <1>2, <2>1, <3>2 DEF UnderWay
            <4> QED BY <1>5, <2>1, <3>2, <4>1
        <3>3. CASE q # r /\ s # r
            <4>1. UnderWay(q) /\ UnderWay(s)
                BY <1>2, <2>1, <3>3 DEF UnderWay
            <4> QED BY <1>4, <2>1, <4>1 DEF LossInv, Apart
        <3> QED BY <3>1, <3>2, <3>3
    <2>2. ASSUME NEW q \in Runs
          PROVE  /\ run'[q].consuming # {} => Working(q)'
                 /\ \A c \in Consumers \ run'[q].consuming :
                        held'[q][c] = <<>> /\ unacked'[q][c] = <<>>
        <3>1. CASE q = r
            BY <1>1, <1>3, <1>6, <3>1, RunFields
        <3>2. CASE q # r
            BY <1>1, <1>2, <3>2 DEF LossInv, Apart, Working
        <3> QED BY <3>1, <3>2
    <2> QED BY <2>1, <2>2 DEF Apart
<1>8. ASSUME brokerFaults' = 0, NEW q \in Runs, q \notin shared' PROVE Once(q)'
    <2>1. Once(q)
        BY <1>1, <1>4, <1>8 DEF LossInv
    <2>2. CASE q = r
        BY <1>1, <1>3, <1>6, <2>1, <2>2 DEF Once
    <2>3. CASE q # r
        BY <1>1, <1>2, <2>1, <2>3 DEF Once, Working
    <2> QED BY <2>2, <2>3
<1> QED BY <1>7, <1>8 DEF LossInv

(* Nothing is nowhere.                                                      *)
LEMMA NothingSpread ==
    ASSUME NEW S, NEW h, \A c \in Consumers : h[c] = <<>> PROVE Spread(S, <<>>, h)
<1>1. NoTwice(<<>>) /\ Range(<<>>) = {}
    BY DEF NoTwice, Range
<1> QED BY <1>1 DEF Spread

(* A run begins with an empty queue and consumers that hold nothing.        *)
LEMMA ResetLoss ==
    ASSUME LossInv, BenchInv', NEW r \in Runs, ResetQueue(r) \/ ResetFails(r) PROVE LossInv'
<1>1. /\ run \in [Runs -> RunState] /\ run[r] \in RunState /\ run[r].phase = "connected"
      /\ UNCHANGED <<held, unacked, seen, shared>> /\ brokerFaults \in Nat
    BY RunFields DEF ResetQueue, ResetFails
<1>2. /\ run[r].consuming = {}
      /\ \A c \in Consumers : held[r][c] = <<>> /\ unacked[r][c] = <<>>
    <2>1. ~Working(r)
        BY <1>1 DEF Working
    <2>2. /\ run[r].consuming # {} => Working(r)
          /\ \A c \in Consumers \ run[r].consuming : held[r][c] = <<>> /\ unacked[r][c] = <<>>
        BY RunFields
    <2> QED BY <2>1, <2>2
<1>3. \A q \in Runs \ {r} : run'[q] = run[q]
    BY <1>1 DEF ResetQueue, ResetFails
<1>4. CASE ResetQueue(r)
    <2>1. /\ run'[r].phase = "driving"
          /\ run'[r].sent = run[r].sent /\ run'[r].received = run[r].received
          /\ run'[r].issued = run[r].issued
        BY <1>1, <1>4 DEF ResetQueue, RunState
    <2>2. queue' = <<>> /\ UNCHANGED brokerFaults
        BY <1>4 DEF ResetQueue
    <2>3. ASSUME Once(r) PROVE Once(r)'
        <3>1. Spread(FirstOf(r, run'[r].issued) \ seen'[r], queue', held'[r])
            BY <1>1, <1>2, <2>2, NothingSpread
        <3> QED BY <1>1, <2>1, <2>3, <3>1 DEF Once
    <2> QED BY <1>1, <1>2, <1>3, <2>1, <2>2, <2>3, AloneStep DEF UnderWay
<1>5. CASE ResetFails(r)
    <2>1. brokerFaults' = brokerFaults + 1 /\ run' = [run EXCEPT ![r].phase = "failed"]
        BY <1>5 DEF ResetFails
    <2>2. run'[r].consuming = run[r].consuming
        BY <1>1, <2>1 DEF RunState
    <2>3. brokerFaults' # 0
        BY <1>1, <2>1
    <2> QED BY <1>1, <1>2, <1>3, <2>2, <2>3, AloneStep DEF UnderWay
<1> QED BY <1>4, <1>5

(* The end of a run's producers.                                            *)
LEMMA DrainLoss ==
    ASSUME LossInv, BenchInv', NEW r \in Runs, StartDrain(r) PROVE LossInv'
<1>1. /\ run \in [Runs -> RunState] /\ run[r] \in RunState /\ run[r].phase = "driving"
      /\ run' = [run EXCEPT ![r].phase = "draining"]
      /\ UNCHANGED <<held, unacked, seen, shared, queue, brokerFaults>>
    BY RunFields DEF StartDrain
<1>2. \A q \in Runs \ {r} : run'[q] = run[q]
    BY <1>1
<1>3. /\ run'[r].phase = "draining" /\ run'[r].consuming = run[r].consuming
      /\ run'[r].sent = run[r].sent /\ run'[r].received = run[r].received
      /\ run'[r].issued = run[r].issued
    BY <1>1 DEF RunState
<1>4. ASSUME Once(r) PROVE Once(r)'
    BY <1>1, <1>3, <1>4 DEF Once, Working
<1>5. \A c \in Consumers \ run'[r].consuming : held'[r][c] = <<>> /\ unacked'[r][c] = <<>>
    BY <1>1, <1>3, RunFields
<1> QED BY <1>1, <1>2, <1>3, <1>4, <1>5, AloneStep DEF UnderWay

(* One message more.                                                        *)
LEMMA NextOf ==
    ASSUME NEW r \in Runs, NEW n \in Nat
    PROVE  /\ FirstOf(r, n + 1) = FirstOf(r, n) \cup {<<r, n>>}
           /\ <<r, n>> \notin FirstOf(r, n) /\ <<r, n>> \in Message
<1>1. 0..((n + 1) - 1) = 0..(n - 1) \cup {n} /\ n \notin 0..(n - 1)
    OBVIOUS
<1> QED BY <1>1 DEF FirstOf, Message

(* What is sent goes to the end of the queue; anything else a producer does *)
(* is the end of one or a failure.                                          *)
LEMMA ProduceLoss ==
    ASSUME LossInv, BenchInv', NEW r \in Runs, NEW p \in Producers,
           \/ Publish(r, p) \/ PublishFails(r, p) \/ PublishDropped(r, p) \/ ProducerEnds(r, p)
    PROVE  LossInv'
<1>1. /\ run \in [Runs -> RunState] /\ run[r] \in RunState /\ run[r].phase = "driving"
      /\ UNCHANGED <<held, unacked, seen, shared>> /\ brokerFaults \in Nat
    BY RunFields DEF Publish, PublishFails, PublishDropped, ProducerEnds, Sends
<1>2. \A q \in Runs \ {r} : run'[q] = run[q]
    BY <1>1 DEF Publish, PublishFails, PublishDropped, ProducerEnds
<1>3. run'[r].phase = "driving" /\ run'[r].consuming = run[r].consuming
    BY <1>1 DEF Publish, PublishFails, PublishDropped, ProducerEnds, RunState
<1>4. \A c \in Consumers \ run'[r].consuming : held'[r][c] = <<>> /\ unacked'[r][c] = <<>>
    BY <1>1, <1>3, RunFields
<1>5. brokerFaults' = 0 => brokerFaults = 0 /\ (Publish(r, p) \/ ProducerEnds(r, p))
    BY <1>1 DEF Publish, PublishFails, PublishDropped, ProducerEnds
<1>6. ASSUME Publish(r, p), Once(r) PROVE Once(r)'
    <2> DEFINE n == run[r].issued
               S == FirstOf(r, n) \ seen[r]
    <2>1. /\ run'[r].sent = run[r].sent + 1 /\ run'[r].issued = n + 1
          /\ run'[r].received = run[r].received /\ queue' = Append(queue, <<r, n>>)
        BY <1>1, <1>6 DEF Publish, RunState
    <2>2. n \in Nat /\ held[r] \in Boxes /\ queue \in Seq(Message)
        BY RunFields
    <2>3. Spread(S, queue, held[r]) /\ seen[r] \subseteq FirstOf(r, n)
        BY <1>1, <1>6 DEF Working, Once
    <2> HIDE DEF n
    <2>4. /\ FirstOf(r, n + 1) = FirstOf(r, n) \cup {<<r, n>>}
          /\ <<r, n>> \notin FirstOf(r, n) /\ <<r, n>> \in Message
        BY <2>2, NextOf
    <2>5. FirstOf(r, n + 1) \ seen[r] = S \cup {<<r, n>>} /\ <<r, n>> \notin S
        BY <2>3, <2>4
    <2> HIDE DEF S
    <2>6. Spread(S \cup {<<r, n>>}, queue', held[r])
        BY <2>1, <2>2, <2>3, <2>4, <2>5, SpreadSent
    <2>7. Spread(FirstOf(r, run'[r].issued) \ seen'[r], queue', held'[r])
        BY <1>1, <2>1, <2>5, <2>6
    <2>8. seen'[r] \subseteq FirstOf(r, run'[r].issued)
        BY <1>1, <2>1, <2>3, <2>4
    <2>9. run'[r].sent = run'[r].issued /\ run'[r].received = Cardinality(seen'[r])
        BY <1>1, <1>6, <2>1 DEF Once, n
    <2> QED BY <1>3, <2>7, <2>8, <2>9 DEF Once
<1>7. ASSUME ProducerEnds(r, p), Once(r) PROVE Once(r)'
    <2>1. /\ run'[r].sent = run[r].sent /\ run'[r].issued = run[r].issued
          /\ run'[r].received = run[r].received /\ UNCHANGED queue
        BY <1>1, <1>7 DEF ProducerEnds, RunState
    <2> QED BY <1>1, <1>3, <1>7, <2>1 DEF Once, Working
<1> QED BY <1>1, <1>2, <1>3, <1>4, <1>5, <1>6, <1>7, AloneStep DEF UnderWay

(* A delivery moves the next message from the queue to a consumer.          *)
LEMMA DeliverLoss ==
    ASSUME LossInv, BenchInv', NEW r \in Runs, NEW c \in Consumers, Deliver(r, c) \/ Ack(r, c)
    PROVE  LossInv'
<1>1. /\ run' = run /\ c \in run[r].consuming /\ Working(r)
      /\ held \in [Runs -> Boxes] /\ unacked \in [Runs -> Boxes]
      /\ held[r] \in Boxes /\ unacked[r] \in Boxes /\ queue \in Seq(Message)
      /\ UNCHANGED <<seen, shared, brokerFaults>>
    <2>1. c \in run[r].consuming
        BY DEF Deliver, Ack
    <2>2. run[r].consuming # {} => Working(r)
        BY RunFields
    <2>3. Working(r)
        BY <2>1, <2>2
    <2> QED BY <2>1, <2>3, RunFields DEF Deliver, Ack
<1>2. \A q \in Runs \ {r} : held'[q] = held[q] /\ unacked'[q] = unacked[q]
    BY <1>1 DEF Deliver, Ack
<1>3. \A d \in Consumers \ {c} : held'[r][d] = held[r][d] /\ unacked'[r][d] = unacked[r][d]
    BY <1>1 DEF Deliver, Ack, Boxes
<1>4. \A d \in Consumers \ run'[r].consuming : held'[r][d] = <<>> /\ unacked'[r][d] = <<>>
    BY <1>1, <1>3, RunFields
<1>5. ASSUME Deliver(r, c), Once(r) PROVE Once(r)'
    <2>1. /\ queue # <<>> /\ queue' = Tail(queue)
          /\ held'[r] = [held[r] EXCEPT ![c] = Append(@, Head(queue))]
        BY <1>1, <1>5 DEF Deliver
    <2>2. Spread(FirstOf(r, run[r].issued) \ seen[r], queue, held[r])
        BY <1>1, <1>5 DEF Once
    <2> DEFINE S == FirstOf(r, run[r].issued) \ seen[r]
    <2> HIDE DEF S
    <2>3. Spread(S, Tail(queue), [held[r] EXCEPT ![c] = Append(@, Head(queue))])
        BY <1>1, <2>1, <2>2, SpreadDelivered DEF S
    <2>4. Spread(FirstOf(r, run[r].issued) \ seen[r], queue', held'[r])
        BY <2>1, <2>3 DEF S
    <2> QED BY <1>1, <1>5, <2>4 DEF Once, Working
<1>6. ASSUME Ack(r, c), Once(r) PROVE Once(r)'
    <2>1. UNCHANGED <<queue, held>>
        BY <1>6 DEF Ack
    <2> QED BY <1>1, <1>6, <2>1 DEF Once, Working
<1> QED BY <1>1, <1>2, <1>4, <1>5, <1>6, AloneStep DEF Working, UnderWay

(* A message is processed that was not processed before.                    *)
LEMMA ProcessLoss ==
    ASSUME LossInv, BenchInv', NEW r \in Runs, NEW c \in Consumers, Process(r, c)
    PROVE  LossInv'
<1>1. /\ run \in [Runs -> RunState] /\ run[r] \in RunState /\ Working(r)
      /\ c \in run[r].consuming
      /\ held \in [Runs -> Boxes] /\ unacked \in [Runs -> Boxes]
      /\ held[r] \in Boxes /\ unacked[r] \in Boxes
      /\ seen \in [Runs -> SUBSET Message]
      /\ UNCHANGED <<queue, shared, brokerFaults>>
    <2>1. c \in run[r].consuming
        BY DEF Process
    <2>2. run[r].consuming # {} => Working(r)
        BY RunFields
    <2>3. Working(r)
        BY <2>1, <2>2
    <2> QED BY <2>1, <2>3, RunFields DEF Process
<1>2. \A q \in Runs \ {r} : /\ run'[q] = run[q] /\ seen'[q] = seen[q]
                            /\ held'[q] = held[q] /\ unacked'[q] = unacked[q]
    BY <1>1 DEF Process
<1>3. /\ run'[r].phase = run[r].phase /\ run'[r].consuming = run[r].consuming
      /\ run'[r].received = run[r].received + 1 /\ run'[r].sent = run[r].sent
      /\ run'[r].issued = run[r].issued
    BY <1>1 DEF Process, RunState
<1>4. \A d \in Consumers \ {c} : held'[r][d] = held[r][d] /\ unacked'[r][d] = unacked[r][d]
    BY <1>1 DEF Process, Boxes
<1>5. \A d \in Consumers \ run'[r].consuming : held'[r][d] = <<>> /\ unacked'[r][d] = <<>>
    BY <1>1, <1>3, <1>4, RunFields
<1>6. ASSUME Once(r) PROVE Once(r)'
    <2> DEFINE own == FirstOf(r, run[r].issued)
               x == Head(held[r][c])
    <2>1. /\ held[r][c] # <<>> /\ held'[r] = [held[r] EXCEPT ![c] = Tail(@)]
          /\ seen'[r] = seen[r] \cup {x}
        BY <1>1 DEF Process
    <2>2. Spread(own \ seen[r], queue, held[r]) /\ seen[r] \subseteq own
          /\ run[r].received = Cardinality(seen[r])
        BY <1>1, <1>6 DEF Once
    <2> DEFINE S == own \ seen[r]
    <2> HIDE DEF own, S
    <2>3. /\ Head(held[r][c]) \in S
          /\ Spread(S \ {Head(held[r][c])}, queue, [held[r] EXCEPT ![c] = Tail(@)])
        BY <1>1, <2>1, <2>2, SpreadProcessed DEF S
    <2>4. x \in own \ seen[r] /\ Spread((own \ seen[r]) \ {x}, queue, held'[r])
        BY <2>1, <2>3 DEF S
    <2> HIDE DEF x
    <2>5. own \ seen'[r] = (own \ seen[r]) \ {x} /\ seen'[r] \subseteq own
        BY <2>1, <2>2, <2>4
    <2>6. Cardinality(seen'[r]) = run[r].received + 1
        <3>1. IsFiniteSet(seen[r])
            BY RunFields, OneRun DEF CountersOK
        <3> QED BY <2>1, <2>2, <2>4, <3>1, FS_AddElement
    <2>7. Spread(own \ seen'[r], queue', held'[r])
        BY <1>1, <2>4, <2>5
    <2> QED BY <1>1, <1>3, <1>6, <2>5, <2>6, <2>7 DEF Once, Working, own
<1> QED BY <1>1, <1>2, <1>3, <1>5, <1>6, AloneStep DEF Working, UnderWay

(* A connection that goes is a failure; its consumers are left with nothing.*)
LEMMA ConnectionLoss ==
    ASSUME LossInv, BenchInv', NEW r \in Runs, NEW c \in Consumers, ConnectionLost(r, c)
    PROVE  LossInv'
<1>1. /\ run \in [Runs -> RunState] /\ run[r] \in RunState /\ Working(r)
      /\ held \in [Runs -> Boxes] /\ unacked \in [Runs -> Boxes]
      /\ brokerFaults \in Nat /\ brokerFaults' = brokerFaults + 1
      /\ UNCHANGED <<seen, shared>>
    <2>1. c \in run[r].consuming
        BY DEF ConnectionLost
    <2>2. run[r].consuming # {} => Working(r)
        BY RunFields
    <2>3. Working(r)
        BY <2>1, <2>2
    <2> QED BY <2>1, <2>3, RunFields DEF ConnectionLost
<1>2. PICK cs, dead : /\ HandBack(r, cs) /\ dead \subseteq cs
                      /\ run' = [run EXCEPT ![r].consuming = @ \ dead]
    BY DEF ConnectionLost
<1>3. \A q \in Runs \ {r} : /\ run'[q] = run[q]
                            /\ held'[q] = held[q] /\ unacked'[q] = unacked[q]
    BY <1>1, <1>2 DEF HandBack
<1>4. run'[r].phase = run[r].phase /\ run'[r].consuming = run[r].consuming \ dead
    BY <1>1, <1>2 DEF RunState
<1>5. ASSUME NEW d \in Consumers, d \notin run'[r].consuming
      PROVE  held'[r][d] = <<>> /\ unacked'[r][d] = <<>>
    <2>1. /\ held'[r][d] = IF d \in cs THEN <<>> ELSE held[r][d]
          /\ unacked'[r][d] = IF d \in cs THEN <<>> ELSE unacked[r][d]
        BY <1>1, <1>2 DEF HandBack
    <2>2. d \in cs \/ d \notin run[r].consuming
        BY <1>2, <1>4, <1>5
    <2> QED BY <2>1, <2>2, RunFields
<1>6. brokerFaults' # 0
    BY <1>1
<1> QED BY <1>1, <1>3, <1>4, <1>5, <1>6, AloneStep DEF Working, UnderWay

(* The result is what was sent less what was received.                      *)
LEMMA FinishLoss ==
    ASSUME LossInv, BenchInv', NEW r \in Runs, Drained(r) \/ DrainExpires(r)
    PROVE  LossInv'
<1>1. /\ run \in [Runs -> RunState] /\ run[r] \in RunState /\ run[r].phase = "draining"
      /\ held \in [Runs -> Boxes] /\ unacked \in [Runs -> Boxes]
      /\ UNCHANGED <<seen, shared, brokerFaults>>
    BY RunFields DEF Drained, DrainExpires, Finish
<1>2. /\ HandBack(r, Consumers)
      /\ run' = [run EXCEPT ![r].phase = "done", ![r].consuming = {}, ![r].lost = Lost(run[r])]
    BY DEF Drained, DrainExpires, Finish
<1>3. \A q \in Runs \ {r} : /\ run'[q] = run[q]
                            /\ held'[q] = held[q] /\ unacked'[q] = unacked[q]
    BY <1>1, <1>2 DEF HandBack
<1>4. /\ run'[r].phase = "done" /\ run'[r].consuming = {} /\ run'[r].lost = Lost(run[r])
      /\ run'[r].sent = run[r].sent /\ run'[r].received = run[r].received
      /\ run'[r].issued = run[r].issued
    BY <1>1, <1>2 DEF RunState
<1>5. ASSUME Once(r) PROVE Once(r)'
    <2>1. run[r].issued = Cardinality(Unseen(r)) + Cardinality(seen[r])
          /\ Cardinality(Unseen(r)) \in Nat /\ Cardinality(seen[r]) \in Nat
        BY <1>5, RunFields, OneRun, UnseenBound DEF Once, FirstOf
    <2>2. run[r].sent = run[r].issued /\ run[r].received = Cardinality(seen[r])
        BY <1>5 DEF Once
    <2>3. Lost(run[r]) = run[r].sent - run[r].received
        BY <2>1, <2>2 DEF Lost
    <2> QED BY <1>1, <1>4, <1>5, <2>3 DEF Once, Working
<1>6. \A c \in Consumers : held'[r][c] = <<>> /\ unacked'[r][c] = <<>>
    BY <1>1, <1>2 DEF HandBack
<1> QED BY <1>1, <1>3, <1>4, <1>5, <1>6, AloneStep DEF UnderWay

(* Before the first run there is nothing anywhere.                          *)
LEMMA LossInitInv == BenchInit => LossInv
<1> SUFFICES ASSUME BenchInit PROVE LossInv
    OBVIOUS
<1>1. BenchInv
    BY BenchInitInv
<1>2. \A r \in Runs : /\ run[r] = NewRun /\ seen[r] = {}
                      /\ \A c \in Consumers : held[r][c] = <<>> /\ unacked[r][c] = <<>>
    BY DEF BenchInit
<1>3. Apart
    BY <1>2 DEF Apart, UnderWay, NewRun
<1>4. ASSUME NEW r \in Runs PROVE Once(r)
    <2>1. /\ run[r].sent = 0 /\ run[r].issued = 0 /\ run[r].received = 0
          /\ run[r].phase = "idle" /\ seen[r] = {}
        BY <1>2 DEF NewRun
    <2>2. Cardinality(seen[r]) = 0
        BY <2>1, FS_EmptySet
    <2> QED BY <2>1, <2>2 DEF Once, Working
<1> QED BY <1>1, <1>3, <1>4 DEF LossInv

(* Every step keeps LossInv.                                                *)
LEMMA LossStep == LossInv /\ [BenchNext]_benchVars => LossInv'
<1> SUFFICES ASSUME LossInv, [BenchNext]_benchVars PROVE LossInv'
    OBVIOUS
<1>1. BenchInv'
    BY BenchStep DEF LossInv
<1>2. CASE UNCHANGED benchVars
    BY <1>1, <1>2 DEF benchVars, LossInv, Apart, Once, Working, UnderWay
<1>3. ASSUME NEW r \in Runs, Start(r) \/ ResetQueue(r) \/ ResetFails(r) \/ StartDrain(r)
      PROVE  LossInv'
    BY <1>1, <1>3, StartLoss, ResetLoss, DrainLoss
<1>4. ASSUME NEW r \in Runs, Drained(r) \/ DrainExpires(r) PROVE LossInv'
    BY <1>1, <1>4, FinishLoss
<1>5. ASSUME NEW r \in Runs, NEW c \in Consumers,
             Deliver(r, c) \/ Process(r, c) \/ Ack(r, c) \/ ConnectionLost(r, c)
      PROVE  LossInv'
    BY <1>1, <1>5, DeliverLoss, ProcessLoss, ConnectionLoss
<1>6. ASSUME NEW r \in Runs, NEW p \in Producers,
             \/ Publish(r, p) \/ PublishFails(r, p) \/ PublishDropped(r, p) \/ ProducerEnds(r, p)
      PROVE  LossInv'
    BY <1>1, <1>6, ProduceLoss
<1> QED BY <1>2, <1>3, <1>4, <1>5, <1>6 DEF BenchNext

(* A run that had the queue to itself and met no failure reports exactly    *)
(* the messages it has not processed, however many consumers it has: they   *)
(* get its own messages only, and none of them twice.                       *)
THEOREM LossExactCorrect == BenchSpec => []LossIsExact
<1>1. ASSUME LossInv PROVE LossIsExact
    <2> SUFFICES ASSUME NEW r \in Runs \ shared, run[r].phase = "done", brokerFaults = 0
                 PROVE  /\ run[r].lost = Cardinality(Unseen(r))
                        /\ run[r].received <= run[r].sent
        BY DEF LossIsExact
    <2>1. /\ run[r].sent = run[r].issued /\ run[r].received = Cardinality(seen[r])
          /\ run[r].lost = run[r].sent - run[r].received
          /\ seen[r] \subseteq FirstOf(r, run[r].issued)
        BY <1>1 DEF LossInv, Once
    <2>2. /\ run[r].issued = Cardinality(Unseen(r)) + Cardinality(seen[r])
          /\ Cardinality(Unseen(r)) \in Nat /\ Cardinality(seen[r]) \in Nat
        BY <1>1, <2>1, RunFields, OneRun, UnseenBound DEF FirstOf
    <2> QED BY <2>1, <2>2
<1>2. LossInv => LossIsExact
    BY <1>1
<1> QED BY <1>2, LossInitInv, LossStep, PTL DEF BenchSpec

-----------------------------------------------------------------------------
(* What the producers of a run have sent.                                   *)

Many == Cardinality(Producers)

(* due[i] is what the first i producers have still to send.                *)
Remaining(due, r) ==
    /\ due \in [0..Many -> Nat] /\ due[0] = 0
    /\ \A p \in Producers : due[p] + Quota(r, p) = due[p + 1] + producer[r][p].sent
    /\ \A i, j \in 0..Many : i <= j => due[i] <= due[j]
    /\ run[r].sent + due[Many] = Target(r)

QuotaOK(r) ==
    /\ \E due \in [0..Many -> Nat] : Remaining(due, r)
    /\ ~run[r].expired =>
           \A p \in Producers : producer[r][p].over => producer[r][p].sent >= Quota(r, p)
    /\ run[r].phase \in {"draining", "done"} => \A p \in Producers : producer[r][p].over

QuotaInv == BenchInv /\ \A r \in Runs : QuotaOK(r)

(* The least element of a set of natural numbers: what induction needs.     *)
LEMMA LeastNat ==
    ASSUME NEW T, T \subseteq Nat, T # {}
    PROVE  \E x \in T : \A y \in T : x <= y
<1> DEFINE R == OpToRel(<, Nat)
<1>1. IsWellFoundedOn(R, Nat)
    BY NatLessThanWellFounded
<1>2. \E x \in T : \A y \in T : ~(<<y, x>> \in R)
    <2> HIDE DEF R
    <2> QED BY <1>1, WFMin
<1>3. \A x, y \in Nat : <<y, x>> \notin R => x <= y
    BY DEF OpToRel
<1> QED BY <1>2, <1>3

(* There is a producer, and they are numbered.                              *)
LEMMA ProducersNumbered == Many \in Nat \ {0} /\ Producers = 0..(Many - 1)
<1>1. IsFiniteSet(Producers) /\ Producers # {} /\ Producers = 0..(Many - 1)
    BY BenchAssumption DEF BenchAssumption, Many
<1>2. Many \in Nat /\ Many # 0
    BY <1>1, FS_CardinalityType, FS_EmptySet DEF Many
<1> QED BY <1>1, <1>2

(* Division with remainder, and the share of the first i producers.         *)
LEMMA Shares ==
    ASSUME NEW t \in Nat, NEW n \in Nat \ {0}
    PROVE  /\ t \div n \in Nat /\ t % n \in 0..(n - 1)
           /\ t = (n * (t \div n)) + (t % n)
OBVIOUS

(* Multiplication over one producer more.                                   *)
LEMMA Times ==
    ASSUME NEW q \in Nat, NEW i \in Nat, NEW j \in Nat
    PROVE  /\ i * q \in Nat /\ 0 * q = 0 /\ (i + 1) * q = i * q + q
           /\ i <= j => i * q <= j * q
OBVIOUS

(* The quotas add up to the target.                                         *)
LEMMA QuotasAddUp ==
    ASSUME NEW r \in Runs, scenario \in Scenarios
    PROVE  \E due \in [0..Many -> Nat] :
               /\ due[0] = 0 /\ due[Many] = Target(r)
               /\ \A p \in Producers : Quota(r, p) \in Nat /\ due[p] + Quota(r, p) = due[p + 1]
               /\ \A i, j \in 0..Many : i <= j => due[i] <= due[j]
<1> DEFINE t == Target(r)
           q == t \div Many
           m == t % Many
           Part(i) == i * q + (IF i <= m THEN i ELSE m)
           due == [i \in 0..Many |-> Part(i)]
<1>1. t \in Nat /\ Many \in Nat \ {0} /\ Producers = 0..(Many - 1)
    BY BenchAssumption, ProducersNumbered DEF BenchAssumption, Target
<1> HIDE DEF t
<1>2. q \in Nat /\ m \in 0..(Many - 1) /\ t = (Many * q) + m
    BY <1>1, Shares
<1>3. \A p \in Producers : Quota(r, p) = q + (IF p < m THEN 1 ELSE 0)
    BY DEF Quota, Many, t
<1> HIDE DEF q, m
<1>4. ASSUME NEW i \in 0..Many, NEW j \in 0..Many
      PROVE  Part(i) \in Nat /\ (i <= j => Part(i) <= Part(j))
    <2>1. i * q \in Nat /\ j * q \in Nat /\ (i <= j => i * q <= j * q)
        BY <1>1, <1>2, Times
    <2> QED BY <1>1, <1>2, <2>1
<1>5. Part(0) = 0
    <2>1. 0 * q = 0
        BY <1>2, Times
    <2> QED BY <1>1, <1>2, <2>1
<1>6. Part(Many) = t
    BY <1>1, <1>2
<1>7. ASSUME NEW p \in Producers
      PROVE  Quota(r, p) \in Nat /\ Part(p) + Quota(r, p) = Part(p + 1)
    <2>1. p \in Nat /\ p * q \in Nat /\ (p + 1) * q = p * q + q
        BY <1>1, <1>2, Times
    <2>2. Quota(r, p) = q + (IF p < m THEN 1 ELSE 0)
        BY <1>3
    <2> QED BY <1>1, <1>2, <2>1, <2>2
<1>8. due \in [0..Many -> Nat]
    BY <1>4
<1>9. \A i \in 0..Many : due[i] = Part(i)
    OBVIOUS
<1> HIDE DEF Part, due
<1>10. 0 \in 0..Many /\ Many \in 0..Many /\ \A p \in Producers : p \in 0..Many /\ p + 1 \in 0..Many
    BY <1>1
<1>11. due[0] = 0 /\ due[Many] = t
    BY <1>5, <1>6, <1>9, <1>10
<1>12. \A p \in Producers : Quota(r, p) \in Nat /\ due[p] + Quota(r, p) = due[p + 1]
    BY <1>7, <1>9, <1>10
<1>13. \A i, j \in 0..Many : i <= j => due[i] <= due[j]
    BY <1>4, <1>9
<1> QED BY <1>8, <1>11, <1>12, <1>13 DEF t

(* When no producer has anything left to send, nothing is due.              *)
LEMMA NothingDue ==
    ASSUME NEW r \in Runs, NEW due, Remaining(due, r),
           \A p \in Producers : producer[r][p].sent \in Nat /\ Quota(r, p) \in Nat
                                /\ producer[r][p].sent >= Quota(r, p)
    PROVE  due[Many] = 0
<1> DEFINE T == {i \in 0..Many : due[i] # 0}
<1>1. Many \in Nat \ {0} /\ Producers = 0..(Many - 1) /\ due \in [0..Many -> Nat] /\ due[0] = 0
    BY ProducersNumbered DEF Remaining
<1>2. CASE T = {}
    <2>1. Many \in 0..Many
        BY <1>1
    <2> QED BY <1>2, <2>1
<1>3. CASE T # {}
    <2>1. T \subseteq Nat
        BY <1>1
    <2>2. PICK x \in T : \A y \in T : x <= y
        BY <1>3, <2>1, LeastNat
    <2>3. x \in 1..Many /\ due[x] # 0
        BY <1>1
    <2> DEFINE p == x - 1
    <2>4. p \in Producers /\ p \in 0..Many /\ p + 1 = x /\ p \notin T
        BY <1>1, <2>2, <2>3
    <2>5. due[p] = 0
        BY <2>4
    <2>6. due[p] + Quota(r, p) = due[x] + producer[r][p].sent
        BY <2>4 DEF Remaining
    <2>7. producer[r][p].sent \in Nat /\ Quota(r, p) \in Nat /\ producer[r][p].sent >= Quota(r, p)
          /\ due[x] \in Nat
        BY <1>1, <2>3, <2>4
    <2> HIDE DEF p
    <2> QED BY <2>3, <2>5, <2>6, <2>7
<1> QED BY <1>2, <1>3

(* A step that does not send.                                               *)
LEMMA QuotaKept ==
    ASSUME QuotaInv, NEW r \in Runs, UNCHANGED scenario, run'[r].sent = run[r].sent,
           run'[r].expired = run[r].expired, producer'[r] = producer[r],
           \/ run'[r].phase \notin {"draining", "done"}
           \/ \A p \in Producers : producer[r][p].over
    PROVE  QuotaOK(r)'
<1>1. PICK due \in [0..Many -> Nat] : Remaining(due, r)
    BY DEF QuotaInv, QuotaOK
<1>2. Remaining(due, r)'
    BY <1>1 DEF Remaining, Many, Quota, Target
<1>3. /\ ~run'[r].expired =>
             \A p \in Producers : producer'[r][p].over => producer'[r][p].sent >= Quota(r, p)
      /\ run'[r].phase \in {"draining", "done"} => \A p \in Producers : producer'[r][p].over
    BY DEF QuotaInv, QuotaOK
<1> QED BY <1>1, <1>2, <1>3 DEF QuotaOK, Many, Quota, Target

(* One less on both sides.                                                  *)
LEMMA OneLess ==
    ASSUME NEW a \in Nat, NEW b \in Nat, NEW c \in Nat, NEW d \in Nat, a + c = b + d
    PROVE  (a - 1) + c = (b - 1) + d
OBVIOUS

(* A producer that sends had something left to send, and so had every range *)
(* of producers that ends after it.                                         *)
LEMMA QuotaSent ==
    ASSUME QuotaInv, NEW r \in Runs, NEW p \in Producers, Sends(r, p), UNCHANGED scenario,
           run' = [run EXCEPT ![r].issued = @ + 1, ![r].sent = @ + 1],
           producer' = [producer EXCEPT ![r][p].sent = @ + 1]
    PROVE  QuotaOK(r)'
<1>1. PICK due \in [0..Many -> Nat] : Remaining(due, r)
    BY DEF QuotaInv, QuotaOK
<1>2. Many \in Nat \ {0} /\ Producers = 0..(Many - 1) /\ p \in 0..(Many - 1)
    BY ProducersNumbered
<1>3. /\ run \in [Runs -> RunState] /\ run[r] \in RunState
      /\ producer \in [Runs -> [Producers -> ProducerState]]
    BY OneRun DEF QuotaInv
<1>4. /\ run'[r].sent = run[r].sent + 1 /\ run'[r].phase = "driving" /\ run[r].sent \in Nat
      /\ run'[r].expired = run[r].expired
    BY <1>3 DEF RunState, Sends
<1>5. /\ producer'[r][p].sent = producer[r][p].sent + 1 /\ producer'[r][p].over = producer[r][p].over
      /\ \A o \in Producers : producer[r][o].sent \in Nat
      /\ \A o \in Producers \ {p} : producer'[r][o] = producer[r][o]
    BY <1>3 DEF ProducerState
<1>6. producer[r][p].sent < Quota(r, p) /\ ~producer[r][p].over
    BY DEF Sends
<1>7. \A o \in Producers : Quota(r, o) \in Nat
    BY QuotasAddUp DEF QuotaInv, BenchInv, BenchTypeOK
<1> DEFINE later == [i \in 0..Many |-> IF i > p THEN due[i] - 1 ELSE due[i]]
<1>8. ASSUME NEW i \in 0..Many, i > p PROVE due[i] > 0 /\ due[p] <= due[i] - 1
    <2>1. p \in 0..Many /\ p + 1 \in 0..Many /\ p + 1 <= i
        BY <1>2, <1>8
    <2>2. due[p + 1] <= due[i] /\ due[p] + Quota(r, p) = due[p + 1] + producer[r][p].sent
        BY <1>1, <2>1 DEF Remaining
    <2>3. due[p] \in Nat /\ due[p + 1] \in Nat /\ due[i] \in Nat
        BY <2>1
    <2> QED BY <1>5, <1>6, <1>7, <2>2, <2>3
<1>9. later \in [0..Many -> Nat]
    <2>1. ASSUME NEW i \in 0..Many PROVE later[i] \in Nat
        BY <1>2, <1>8
    <2> QED BY <2>1
<1>10. later[0] = 0 /\ later[Many] = due[Many] - 1
    <2>1. due[0] = 0
        BY <1>1 DEF Remaining
    <2> QED BY <1>2, <2>1
<1>11. ASSUME NEW o \in Producers
       PROVE  later[o] + Quota(r, o) = later[o + 1] + producer'[r][o].sent
    <2>1. o \in 0..Many /\ o + 1 \in 0..Many /\ o \in Nat
        BY <1>2
    <2>2. due[o] + Quota(r, o) = due[o + 1] + producer[r][o].sent
        BY <1>1 DEF Remaining
    <2>3. due[o] \in Nat /\ due[o + 1] \in Nat /\ producer[r][o].sent \in Nat /\ Quota(r, o) \in Nat
        BY <1>5, <1>7, <2>1
    <2>4. CASE o = p
        <3>1. later[o] = due[o] /\ later[o + 1] = due[o + 1] - 1
            BY <1>2, <2>1, <2>4
        <3>2. producer'[r][o].sent = producer[r][o].sent + 1
            BY <1>5, <2>4
        <3>3. due[o + 1] + producer[r][o].sent = (due[o + 1] - 1) + (producer[r][o].sent + 1)
            BY <2>3
        <3> HIDE DEF later
        <3> QED BY <2>2, <3>1, <3>2, <3>3, Zenon
    <2>5. CASE o < p
        <3>1. later[o] = due[o] /\ later[o + 1] = due[o + 1]
            BY <1>2, <2>1, <2>5
        <3>2. producer'[r][o].sent = producer[r][o].sent
            BY <1>2, <1>5, <2>1, <2>5
        <3> HIDE DEF later
        <3> QED BY <2>2, <3>1, <3>2, Zenon
    <2>6. CASE o > p
        <3>1. later[o] = due[o] - 1 /\ later[o + 1] = due[o + 1] - 1
            BY <1>2, <2>1, <2>6
        <3>2. producer'[r][o].sent = producer[r][o].sent
            BY <1>2, <1>5, <2>1, <2>6
        <3>3. (due[o] - 1) + Quota(r, o) = (due[o + 1] - 1) + producer[r][o].sent
            <4> DEFINE a == due[o]
                       b == due[o + 1]
                       c == Quota(r, o)
                       d == producer[r][o].sent
            <4>1. a \in Nat /\ b \in Nat /\ c \in Nat /\ d \in Nat
                BY <2>3
            <4>2. a + c = b + d
                BY <2>2
            <4> HIDE DEF a, b, c, d
            <4>3. (a - 1) + c = (b - 1) + d
                BY <4>1, <4>2, OneLess
            <4> QED BY <4>3 DEF a, b, c, d
        <3> HIDE DEF later
        <3> QED BY <3>1, <3>2, <3>3, Zenon
    <2> QED BY <1>2, <2>1, <2>4, <2>5, <2>6
<1>12. ASSUME NEW i \in 0..Many, NEW j \in 0..Many, i <= j PROVE later[i] <= later[j]
    <2>1. due[i] <= due[j] /\ due[i] \in Nat /\ due[j] \in Nat /\ due[p] \in Nat
        BY <1>1, <1>2, <1>12 DEF Remaining
    <2>2. CASE i <= p /\ j > p
        <3>1. due[i] <= due[p] /\ due[p] <= due[j] - 1
            BY <1>1, <1>2, <1>8, <2>2 DEF Remaining
        <3> QED BY <2>1, <2>2, <3>1
    <2>3. CASE ~(i <= p /\ j > p)
        BY <1>2, <1>12, <2>1, <2>3
    <2> QED BY <2>2, <2>3
<1>13. run'[r].sent + later[Many] = Target(r)
    <2>1. run[r].sent + due[Many] = Target(r) /\ due[Many] \in Nat
        BY <1>1, <1>2 DEF Remaining
    <2>2. (run[r].sent + 1) + (due[Many] - 1) = Target(r)
        BY <1>4, <2>1
    <2>3. run'[r].sent = run[r].sent + 1 /\ later[Many] = due[Many] - 1
        BY <1>4, <1>10
    <2> HIDE DEF later
    <2> QED BY <2>2, <2>3, Zenon
<1> HIDE DEF later
<1>14. Remaining(later, r)'
    BY <1>9, <1>10, <1>11, <1>12, <1>13 DEF Remaining, Many, Quota, Target
<1>15. ASSUME ~run'[r].expired, NEW o \in Producers, producer'[r][o].over
       PROVE  producer'[r][o].sent >= Quota(r, o)
    <2>1. o # p
        BY <1>5, <1>6, <1>15
    <2>2. producer'[r][o] = producer[r][o]
        BY <1>5, <2>1
    <2> QED BY <1>4, <1>15, <2>2 DEF QuotaInv, QuotaOK
<1> QED BY <1>4, <1>9, <1>14, <1>15 DEF QuotaOK, Many, Quota, Target

(* A producer that ends before its quota marks the run as expired.          *)
LEMMA QuotaEnds ==
    ASSUME QuotaInv, NEW r \in Runs, NEW p \in Producers, ProducerEnds(r, p)
    PROVE  QuotaOK(r)'
<1>1. PICK due \in [0..Many -> Nat] : Remaining(due, r)
    BY DEF QuotaInv, QuotaOK
<1>2. /\ run \in [Runs -> RunState] /\ run[r] \in RunState /\ run[r].phase = "driving"
      /\ producer \in [Runs -> [Producers -> ProducerState]]
    BY OneRun DEF QuotaInv, ProducerEnds
<1>3. /\ run'[r].sent = run[r].sent /\ run'[r].phase = "driving" /\ scenario' = scenario
      /\ run'[r].expired = (run[r].expired \/ producer[r][p].sent < Quota(r, p))
    BY <1>2 DEF RunState, ProducerEnds
<1>4. /\ \A o \in Producers : producer'[r][o].sent = producer[r][o].sent
      /\ \A o \in Producers \ {p} : producer'[r][o] = producer[r][o]
      /\ \A o \in Producers : producer[r][o].sent \in Nat
    BY <1>2 DEF ProducerState, ProducerEnds
<1>5. \A o \in Producers : Quota(r, o) \in Nat
    BY QuotasAddUp DEF QuotaInv, BenchInv, BenchTypeOK
<1>6. Remaining(due, r)'
    BY <1>1, <1>3, <1>4 DEF Remaining, Many, Quota, Target
<1>7. ASSUME ~run'[r].expired, NEW o \in Producers, producer'[r][o].over
      PROVE  producer'[r][o].sent >= Quota(r, o)
    <2>1. CASE o = p
        <3>1. ~(producer[r][p].sent < Quota(r, p))
            BY <1>3, <1>7
        <3> QED BY <1>4, <1>5, <2>1, <3>1
    <2>2. CASE o # p
        BY <1>3, <1>4, <1>7, <2>2 DEF QuotaInv, QuotaOK
    <2> QED BY <2>1, <2>2
<1> QED BY <1>1, <1>3, <1>6, <1>7 DEF QuotaOK, Many, Quota, Target

(* A step of run r leaves the others' counters alone.                       *)
LEMMA OthersQuota ==
    ASSUME QuotaInv, BenchInv', NEW r \in Runs, QuotaOK(r)', UNCHANGED scenario,
           \A q \in Runs \ {r} : run'[q] = run[q] /\ producer'[q] = producer[q]
    PROVE  QuotaInv'
<1>1. ASSUME NEW q \in Runs, q # r PROVE QuotaOK(q)'
    <2>1. run'[q] = run[q] /\ producer'[q] = producer[q]
        BY <1>1
    <2>2. QuotaOK(q)
        BY DEF QuotaInv
    <2>3. \/ run'[q].phase \notin {"draining", "done"}
          \/ \A p \in Producers : producer[q][p].over
        BY <2>1, <2>2 DEF QuotaOK
    <2> QED BY <2>1, <2>3, QuotaKept
<1> QED BY <1>1 DEF QuotaInv

(* Steps in which no producer takes part.                                   *)
LEMMA IdleQuota ==
    ASSUME QuotaInv, BenchInv', NEW r \in Runs, UNCHANGED <<producer, scenario>>,
           \/ Start(r) \/ ResetQueue(r) \/ ResetFails(r) \/ StartDrain(r) \/ Drained(r)
           \/ DrainExpires(r)
           \/ \E c \in Consumers :
                  Deliver(r, c) \/ Process(r, c) \/ Ack(r, c) \/ ConnectionLost(r, c)
    PROVE  QuotaInv'
<1>1. run \in [Runs -> RunState] /\ run[r] \in RunState
    BY OneRun DEF QuotaInv
<1>2. QuotaOK(r)
    BY DEF QuotaInv
<1>3. /\ run'[r].sent = run[r].sent /\ run'[r].expired = run[r].expired
      /\ \A q \in Runs \ {r} : run'[q] = run[q]
      /\ run'[r].phase = run[r].phase \/ run'[r].phase \in {"connected", "driving", "failed"}
         \/ StartDrain(r) \/ run[r].phase = "draining"
    <2>1. CASE Start(r) \/ ResetQueue(r) \/ ResetFails(r)
        BY <1>1, <2>1 DEF Start, ResetQueue, ResetFails, RunState
    <2>2. CASE StartDrain(r)
        BY <1>1, <2>2 DEF StartDrain, RunState
    <2>3. CASE Drained(r) \/ DrainExpires(r)
        BY <1>1, <2>3 DEF Drained, DrainExpires, Finish, RunState
    <2>4. CASE \E c \in Consumers : Deliver(r, c) \/ Ack(r, c)
        BY <1>1, <2>4 DEF Deliver, Ack
    <2>5. CASE \E c \in Consumers : Process(r, c)
        BY <1>1, <2>5 DEF Process, RunState
    <2>6. CASE \E c \in Consumers : ConnectionLost(r, c)
        <3>1. PICK dead : run' = [run EXCEPT ![r].consuming = @ \ dead]
            BY <2>6 DEF ConnectionLost
        <3> QED BY <1>1, <3>1 DEF RunState
    <2> QED BY <2>1, <2>2, <2>3, <2>4, <2>5, <2>6
<1>4. \/ run'[r].phase \notin {"draining", "done"}
      \/ \A p \in Producers : producer[r][p].over
    <2>1. CASE StartDrain(r)
        BY <2>1 DEF StartDrain
    <2>2. CASE run[r].phase = "draining"
        BY <1>2, <2>2 DEF QuotaOK
    <2>3. CASE run'[r].phase = run[r].phase
        BY <1>2, <2>3 DEF QuotaOK
    <2> QED BY <1>3, <2>1, <2>2, <2>3
<1>5. QuotaOK(r)'
    BY <1>3, <1>4, QuotaKept
<1> QED BY <1>3, <1>5, OthersQuota

(* A message sent is one less to send.                                      *)
LEMMA ProduceQuota ==
    ASSUME QuotaInv, BenchInv', NEW r \in Runs, NEW p \in Producers,
           \/ Publish(r, p) \/ PublishFails(r, p) \/ PublishDropped(r, p) \/ ProducerEnds(r, p)
    PROVE  QuotaInv'
<1>1. /\ run \in [Runs -> RunState] /\ run[r] \in RunState
      /\ producer \in [Runs -> [Producers -> ProducerState]]
    BY OneRun DEF QuotaInv
<1>2. \A q \in Runs \ {r} : run'[q] = run[q] /\ producer'[q] = producer[q]
    BY <1>1 DEF Publish, PublishFails, PublishDropped, ProducerEnds
<1>3. UNCHANGED scenario
    BY DEF Publish, PublishFails, PublishDropped, ProducerEnds
<1>4. CASE Publish(r, p) \/ PublishDropped(r, p)
    <2>1. QuotaOK(r)'
        BY <1>4, <1>3, QuotaSent DEF Publish, PublishDropped
    <2> QED BY <1>2, <1>3, <2>1, OthersQuota
<1>5. CASE PublishFails(r, p)
    <2>1. /\ run'[r].sent = run[r].sent /\ run'[r].expired = run[r].expired
          /\ producer'[r] = producer[r] /\ run'[r].phase = "driving"
        BY <1>1, <1>5 DEF PublishFails, Sends, RunState
    <2>2. QuotaOK(r)'
        BY <1>3, <2>1, QuotaKept
    <2> QED BY <1>2, <1>3, <2>2, OthersQuota
<1>6. CASE ProducerEnds(r, p)
    BY <1>2, <1>6, <1>3, QuotaEnds, OthersQuota
<1> QED BY <1>4, <1>5, <1>6

(* At first everything is still to be sent.                                 *)
LEMMA QuotaInitInv == BenchInit => QuotaInv
<1> SUFFICES ASSUME BenchInit PROVE QuotaInv
    OBVIOUS
<1>1. BenchInv
    BY BenchInitInv
<1>2. ASSUME NEW r \in Runs PROVE QuotaOK(r)
    <2>1. /\ run[r].sent = 0 /\ run[r].phase = "idle"
          /\ \A p \in Producers : producer[r][p].sent = 0 /\ producer[r][p].over = FALSE
        BY DEF BenchInit, NewRun
    <2>2. PICK due \in [0..Many -> Nat] :
              /\ due[0] = 0 /\ due[Many] = Target(r)
              /\ \A p \in Producers : Quota(r, p) \in Nat /\ due[p] + Quota(r, p) = due[p + 1]
              /\ \A i, j \in 0..Many : i <= j => due[i] <= due[j]
        BY <1>1, QuotasAddUp DEF BenchInv, BenchTypeOK
    <2>3. Many \in 0..Many /\ \A p \in Producers : p + 1 \in 0..Many
        BY ProducersNumbered
    <2>4. run[r].sent + due[Many] = Target(r)
        BY <2>1, <2>2, <2>3
    <2>5. \A p \in Producers : due[p] + Quota(r, p) = due[p + 1] + producer[r][p].sent
        BY <2>1, <2>2, <2>3
    <2>6. Remaining(due, r)
        BY <2>2, <2>4, <2>5 DEF Remaining
    <2> QED BY <2>1, <2>6 DEF QuotaOK
<1> QED BY <1>1, <1>2 DEF QuotaInv

(* Every step keeps QuotaInv.                                               *)
LEMMA QuotaStep == QuotaInv /\ [BenchNext]_benchVars => QuotaInv'
<1> SUFFICES ASSUME QuotaInv, [BenchNext]_benchVars PROVE QuotaInv'
    OBVIOUS
<1>1. BenchInv'
    BY BenchStep DEF QuotaInv
<1>2. CASE UNCHANGED benchVars
    <2>1. ASSUME NEW r \in Runs PROVE QuotaOK(r)'
        <3>1. UNCHANGED <<run, producer, scenario>> /\ QuotaOK(r)
            BY <1>2 DEF benchVars, QuotaInv
        <3> QED BY <3>1, QuotaKept DEF QuotaOK
    <2> QED BY <1>1, <2>1 DEF QuotaInv
<1>3. ASSUME NEW r \in Runs,
             \/ Start(r) \/ ResetQueue(r) \/ ResetFails(r) \/ StartDrain(r) \/ Drained(r)
             \/ DrainExpires(r)
             \/ \E c \in Consumers :
                    Deliver(r, c) \/ Process(r, c) \/ Ack(r, c) \/ ConnectionLost(r, c)
      PROVE  QuotaInv'
    <2>1. UNCHANGED <<producer, scenario>>
        BY <1>3 DEF Start, ResetQueue, ResetFails, StartDrain, Drained, DrainExpires, Finish,
                    Deliver, Process, Ack, ConnectionLost
    <2> QED BY <1>1, <1>3, <2>1, IdleQuota
<1>4. ASSUME NEW r \in Runs, NEW p \in Producers,
             \/ Publish(r, p) \/ PublishFails(r, p) \/ PublishDropped(r, p) \/ ProducerEnds(r, p)
      PROVE  QuotaInv'
    BY <1>1, <1>4, ProduceQuota
<1> QED BY <1>2, <1>3, <1>4 DEF BenchNext

(* The producers of a run send the target between them, however it divides  *)
(* among them, no more and, unless a deadline passes, no fewer.             *)
THEOREM QuotaCorrect == BenchSpec => []QuotaIsSent
<1>1. ASSUME QuotaInv PROVE QuotaIsSent
    <2> SUFFICES ASSUME NEW r \in Runs
                 PROVE  /\ run[r].sent <= Target(r)
                        /\ run[r].phase = "done" /\ ~run[r].expired => run[r].sent = Target(r)
        BY DEF QuotaIsSent
    <2>1. PICK due \in [0..Many -> Nat] : Remaining(due, r)
        BY <1>1 DEF QuotaInv, QuotaOK
    <2>2. run[r].sent \in Nat /\ producer \in [Runs -> [Producers -> ProducerState]]
        BY <1>1, OneRun DEF QuotaInv, RunState
    <2>3. due[Many] \in Nat
        BY ProducersNumbered
    <2>4. run[r].sent + due[Many] = Target(r)
        BY <2>1 DEF Remaining
    <2>5. ASSUME run[r].phase = "done", ~run[r].expired PROVE run[r].sent = Target(r)
        <3>1. \A p \in Producers : producer[r][p].sent >= Quota(r, p)
            BY <1>1, <2>5 DEF QuotaInv, QuotaOK
        <3>2. \A p \in Producers : producer[r][p].sent \in Nat /\ Quota(r, p) \in Nat
            BY <1>1, <2>2, QuotasAddUp DEF ProducerState, QuotaInv, BenchInv, BenchTypeOK
        <3>3. due[Many] = 0
            BY <2>1, <3>1, <3>2, NothingDue
        <3> QED BY <2>2, <2>4, <3>3
    <2> QED BY <2>2, <2>3, <2>4, <2>5
<1>2. QuotaInv => QuotaIsSent
    BY <1>1
<1> QED BY <1>2, QuotaInitInv, QuotaStep, PTL DEF BenchSpec
=============================================================================
