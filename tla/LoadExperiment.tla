-------------------------- MODULE LoadExperiment ---------------------------
(***************************************************************************)
(* src/cash_types/load_generator.py driving the cache service: reset, a    *)
(* workload of reads and writes from a pool of clients, metrics, a flush,  *)
(* metrics again.  Requests are due at given times; here a client may send *)
(* the next one at any time.                                               *)
(***************************************************************************)
EXTENDS CacheStrategies

CONSTANTS
    Requests,       \* --requests of one workload, for each strategy
    Later,          \* bound: requests of a workload after an interruption
    Further,        \* bound: requests of the workloads after the first
    Concurrency,    \* --concurrency, clients in the pool
    Workloads       \* workloads to run

ASSUME LoadAssumption ==
    /\ Requests \in [Strategies -> Nat]
    /\ \A s \in Strategies : {Later, Further} \subseteq 0..Requests[s]
    /\ Workloads \in Nat \ {0}
    /\ Concurrency \in Nat \ {0}

VARIABLES
    phase,          \* where main() is
    left,           \* operations not yet sent
    awaited,        \* threads whose client waits for the answer
    workloads,      \* workloads done
    disturbed       \* requests of an earlier generator or client may still run

driver == <<phase, left, awaited, workloads, disturbed>>
experimentVars == <<cacheVars, driver>>

Phases == {"reset", "resetting", "load", "flushing", "after", "done", "raised"}

(* The type of the generator's state.                                       *)
LoadTypeOK ==
    /\ phase \in Phases
    /\ left \in 0..Requests[strategy]
    /\ awaited \subseteq Threads
    /\ workloads \in 0..Workloads
    /\ disturbed \in BOOLEAN

ExperimentInit ==
    /\ CacheInit
    /\ phase = "reset"
    /\ left = 0
    /\ awaited = {}
    /\ workloads = 0
    /\ disturbed = FALSE

(* post_json of /admin/reset before the workload.                           *)
SendReset(t) ==
    /\ phase = "reset"
    /\ Begin(t, "reset", Absent)
    /\ phase' = "resetting"
    /\ awaited' = {t}
    /\ UNCHANGED <<left, workloads, disturbed>>

(* build_operations draws any method and any item.                          *)
Operations == {"read", "write"} \X Items

(* A free client of the pool takes the next operation.                      *)
SendOperation(t) ==
    /\ phase = "load"
    /\ left > 0
    /\ Cardinality(awaited) < Concurrency
    /\ \E o \in Operations : Begin(t, o[1], o[2])
    /\ left' = left - 1
    /\ awaited' = awaited \cup {t}
    /\ UNCHANGED <<phase, workloads, disturbed>>

(* The pool is empty: /metrics, then /admin/flush.                          *)
SendFlush(t) ==
    /\ phase = "load"
    /\ left = 0 /\ awaited = {}
    /\ Begin(t, "flush", Absent)
    /\ phase' = "flushing"
    /\ awaited' = {t}
    /\ UNCHANGED <<left, workloads, disturbed>>

(* Mutant: one request too many.                                            *)
MutantPlanned == Requests[strategy] + 1

(* requests_count                                                           *)
Planned == IF workloads > 0 THEN Further ELSE IF disturbed THEN Later ELSE Requests[strategy]

(* An answer arrives.  A failed operation is counted, a failed reset or     *)
(* flush ends main() with an exception.                                     *)
Answer(t) ==
    /\ Reply(t, t \in awaited)
    /\ awaited' = awaited \ {t}
    /\ phase' = IF t \notin awaited \/ phase \notin {"resetting", "flushing"} THEN phase
                ELSE IF req[t].pc = "failed" THEN "raised"
                ELSE IF phase = "resetting" THEN "load"
                ELSE "after"
    /\ left' = IF phase' = "load" /\ phase = "resetting" THEN Planned ELSE left
    /\ UNCHANGED <<workloads, disturbed>>

(* urlopen's timeout: the client gives up, the request goes on.             *)
GiveUp(t) ==
    /\ t \in awaited
    /\ failures < CacheFaults
    /\ failures' = failures + 1
    /\ awaited' = awaited \ {t}
    /\ disturbed' = TRUE
    /\ phase' = IF phase \in {"resetting", "flushing"} THEN "raised" ELSE phase
    /\ UNCHANGED <<strategy, data, req, acked, epoch, exposed, left, workloads>>

(* /metrics once more; the row is built, and the next workload follows.     *)
BuildRow ==
    /\ phase = "after"
    /\ workloads' = workloads + 1
    /\ phase' = IF workloads' = Workloads THEN "done" ELSE "reset"
    /\ UNCHANGED <<cacheVars, left, awaited, disturbed>>

(* The generator is stopped, or has raised, and is started again.           *)
Rerun ==
    /\ phase # "reset"
    /\ failures < CacheFaults
    /\ failures' = failures + 1
    /\ phase' = "reset"
    /\ left' = 0 /\ awaited' = {} /\ workloads' = 0
    /\ disturbed' = TRUE
    /\ UNCHANGED <<strategy, data, req, acked, epoch, exposed>>

(* The clients of a service that restarts get no answer.                    *)
ServiceRestarts ==
    /\ RestartService
    /\ awaited' = {}
    /\ phase' = IF phase \in {"resetting", "flushing"} THEN "raised" ELSE phase
    /\ UNCHANGED <<left, workloads, disturbed>>

Serve(a) == Command(a) /\ UNCHANGED driver
Fail(a) == Refused(a) /\ UNCHANGED driver
WakeUp == Wake /\ UNCHANGED driver

ExperimentNext ==
    \/ \E t \in Threads :
        SendReset(t) \/ SendOperation(t) \/ SendFlush(t) \/ Answer(t) \/ GiveUp(t)
    \/ \E a \in Actors : Serve(a) \/ Fail(a)
    \/ WakeUp \/ BuildRow \/ Rerun \/ ServiceRestarts

(* Some thread runs, or the event loop wakes the flush task; no thread has  *)
(* a right to its turn.  Nothing is assumed of the generator: it may stop   *)
(* at any point.                                                            *)
ExperimentFairness == WF_experimentVars(WakeUp \/ \E a \in Actors : Serve(a))

ExperimentSpec ==
    ExperimentInit /\ [][ExperimentNext]_experimentVars /\ ExperimentFairness

-----------------------------------------------------------------------------
(* "Before each run the database and the cache were reset" (results/        *)
(* REPORT.md): a workload starts from the seed, an empty cache and nothing  *)
(* dirty, unless requests of an interrupted client are still running.  The  *)
(* reset takes no flush lock: what keeps a flush from storing an old item   *)
(* behind it is that the workload before ended with a flush.                *)
WorkloadStartsClean ==
    phase = "load" /\ left = Planned /\ ~disturbed
        => /\ \A i \in Items : stored[i] = Seed /\ cached[i] = Absent
           /\ dirty = {}

(* After the flush at the end of a workload every acknowledged write is in  *)
(* the table, failures or not.                                              *)
FlushStoresAll ==
    phase = "after" /\ ~disturbed
        => \A i \in Items \ exposed : Owed(acked[i]) <= stored[i]

(* Nothing stays dirty for ever while the flush task lives: batches reach   *)
(* every item, and no writer keeps the lock.                                *)
DirtyIsFlushed == []<>(dirty = {} \/ req[FlushTask].pc = "dead")
=============================================================================
