-------------------------- MODULE CacheStrategies --------------------------
(***************************************************************************)
(* The cache comparison service of src/cash_types/app: one strategy, a     *)
(* Redis cache, a PostgreSQL table.  FastAPI runs every handler in a       *)
(* thread of a pool, so the commands of two requests interleave; the       *)
(* periodic flush runs in the event loop and blocks it, so meanwhile no    *)
(* request begins and no answer is delivered.  A step is one Redis command *)
(* or one database transaction.                                            *)
(*                                                                         *)
(* An item's value is a version: writes are numbered in the order they     *)
(* take effect.  Names, timestamps and the metrics counters are left out.  *)
(***************************************************************************)
EXTENDS Naturals, FiniteSets, FiniteSetsExt

CONSTANTS
    Items,          \* ids of the items that requests ask for
    Threads,        \* threads of the pool
    FlushTask,      \* the task of flush_forever
    Strategies,     \* names build_strategy may be given
    BatchSize,      \* write_back_batch_size
    CacheFaults     \* bound on failing commands, restarts and lost clients

ASSUME CacheAssumption ==
    /\ Items \subseteq Nat \ {0} /\ IsFiniteSet(Items) /\ Items # {}
    /\ FlushTask \notin Threads
    /\ Strategies \subseteq {"cache_aside", "write_through", "write_back"}
    /\ BatchSize \in Nat \ {0}
    /\ CacheFaults \in Nat

VARIABLES
    strategy,       \* the strategy of this process
    cached,         \* version under item:<id> in Redis
    dirty,          \* the Redis set write_back_dirty_items
    stored,         \* version in the items table
    req,            \* what each thread and the flush task are doing
    clock,          \* number of the latest version
    acked,          \* latest version whose writer was answered with success
    epoch,          \* number of the latest version when a reset last cut in
    exposed,        \* items hit by an overlap or a failure nothing repairs
    failures        \* number of faults so far

data == <<cached, dirty, stored, clock>>
cacheVars == <<strategy, data, req, acked, epoch, exposed, failures>>

Absent == 0
Seed == 1

Actors == Threads \cup {FlushTask}

Idle == [op |-> "none", pc |-> "idle", item |-> Absent, version |-> Absent,
         ids |-> {}, done |-> {}, need |-> Absent]

ProgramPoints ==
    {"idle", "get", "select", "fill", "upsert", "evict", "store", "set", "sadd", "scard",
     "smembers", "fget", "fupsert", "srem", "clear", "truncate",
     "answered", "failed", "dead"}

(* with self._flush_lock: write holds it over set, sadd and scard, flush    *)
(* from smembers to srem; an exception releases it.                         *)
Locked == {"sadd", "scard", "fget", "fupsert", "srem"}

Ops == {"none", "read", "write", "flush", "reset"}

RequestState ==
    [op : Ops, pc : ProgramPoints, item : Items \cup {Absent}, version : Nat,
     ids : SUBSET Items, done : SUBSET Items, need : Nat]

(* The type of the service's state; one thread at a time is inside the      *)
(* flush lock, and a flush between two items has items left.                *)
CacheTypeOK ==
    /\ strategy \in Strategies
    /\ cached \in [Items -> Nat] /\ stored \in [Items -> Nat]
    /\ dirty \subseteq Items
    /\ req \in [Actors -> RequestState]
    /\ clock \in Nat /\ epoch \in Nat
    /\ acked \in [Items -> Nat]
    /\ exposed \subseteq Items
    /\ failures \in 0..CacheFaults
    /\ \A a, b \in Actors : req[a].pc \in Locked /\ req[b].pc \in Locked => a = b
    /\ \A a \in Actors : req[a].pc \in {"fget", "fupsert"} => req[a].ids # {}

(* lifespan: the table has been seeded and the cache cleared.  Only the     *)
(* write-back strategy starts the flush task.                               *)
CacheInit ==
    /\ strategy \in Strategies
    /\ cached = [i \in Items |-> Absent]
    /\ stored = [i \in Items |-> Seed]
    /\ dirty = {}
    /\ req = [a \in Actors |-> Idle]
    /\ clock = Seed
    /\ acked = [i \in Items |-> Absent]
    /\ epoch = Seed
    /\ exposed = {}
    /\ failures = 0

WriteBack == strategy = "write_back"

(* Mutant: a flush does not take the lock.                                  *)
MutantLockIsFree == \A a \in Actors : req[a].pc \notin {"sadd", "scard"}

LockIsFree == \A a \in Actors : req[a].pc \notin Locked

(* The flush task blocks the event loop from its waking to its return.      *)
LoopIsFree == req[FlushTask].pc \in {"idle", "dead"}

(* A cached version that the table does not have and no flush will bring.   *)
Incoherent(c, s, d) == {i \in Items : c[i] \notin {Absent, s[i]} /\ i \notin d}

(* Where a request goes on after a command: to the next program point, or,  *)
(* when the command took effect but its answer was lost, to its failure;    *)
(* the flush task ends for good with its first exception.                   *)
Abort(a) ==
    /\ failures < CacheFaults
    /\ failures' = failures + 1
    /\ req' = [req EXCEPT ![a].pc = IF a = FlushTask THEN "dead" ELSE "failed"]

Continue(a, r, damage) ==
    \/ /\ req' = [req EXCEPT ![a] = r]
       /\ exposed' = damage
       /\ UNCHANGED failures
    \/ /\ Abort(a)
       /\ exposed' = damage \cup Incoherent(cached', stored', dirty')

(* The command fails without an effect: CacheError, or the database is gone. *)
Refused(a) ==
    /\ req[a].pc \notin {"idle", "answered", "failed", "dead"}
    /\ Abort(a)
    /\ exposed' = exposed \cup Incoherent(cached, stored, dirty)
    /\ UNCHANGED <<strategy, data, acked, epoch>>

-----------------------------------------------------------------------------
(* CacheStrategy.read.                                                      *)

(* What was acknowledged counts against a read only while the item is not   *)
(* exposed.                                                                 *)
Excused(r) == IF r.item \in exposed THEN Absent ELSE r.need

Get(a) ==
    LET r == req[a] IN
    /\ r.pc = "get"
    /\ UNCHANGED <<strategy, data, acked, epoch>>
    /\ \/ /\ cached[r.item] # Absent
          /\ Continue(a, [r EXCEPT !.pc = "answered", !.version = cached[r.item],
                                  !.need = Excused(r)], exposed)
       \/ /\ cached[r.item] = Absent
          /\ Continue(a, [r EXCEPT !.pc = "select"], exposed)

(* db.get_item; a missing row is a KeyError, answered with 404.             *)
Select(a) ==
    LET r == req[a]
        row == [r EXCEPT !.version = stored[r.item], !.need = Excused(r)] IN
    /\ r.pc = "select"
    /\ UNCHANGED <<strategy, data, acked, epoch>>
    /\ \/ /\ stored[r.item] # Absent
          /\ Continue(a, [row EXCEPT !.pc = "fill"], exposed)
       \/ /\ stored[r.item] = Absent
          /\ Continue(a, [row EXCEPT !.pc = "failed"], exposed)

(* The version a SET should carry; after any other the item is exposed.     *)
Current(i) == IF WriteBack /\ cached[i] # Absent THEN cached[i] ELSE stored[i]

(* cache.set of a row read or written a step ago.  Under cache-aside and    *)
(* write-through a current version also repairs the item.                   *)
SetRow(a) ==
    LET r == req[a] IN
    /\ cached' = [cached EXCEPT ![r.item] = r.version]
    /\ UNCHANGED <<strategy, dirty, stored, clock, acked, epoch>>
    /\ Continue(a, [r EXCEPT !.pc = "answered"],
                IF r.version # Current(r.item) THEN exposed \cup {r.item}
                ELSE IF WriteBack THEN exposed
                ELSE exposed \ {r.item})

Fill(a) == req[a].pc = "fill" /\ SetRow(a)

-----------------------------------------------------------------------------
(* The three ways to write.                                                 *)

(* Mutant: the cache is left alone after the write.                         *)
MutantUpsert(a) ==
    LET r == req[a] IN
    /\ r.pc = "upsert"
    /\ clock' = clock + 1
    /\ stored' = [stored EXCEPT ![r.item] = clock']
    /\ UNCHANGED <<strategy, cached, dirty, acked, epoch>>
    /\ Continue(a, [r EXCEPT !.pc = "answered", !.version = clock'], exposed)

(* db.upsert_item of CacheAsideStrategy.write and WriteThroughStrategy.write. *)
Upsert(a) ==
    LET r == req[a] IN
    /\ r.pc = "upsert"
    /\ clock' = clock + 1
    /\ stored' = [stored EXCEPT ![r.item] = clock']
    /\ UNCHANGED <<strategy, cached, dirty, acked, epoch>>
    /\ Continue(a, [r EXCEPT !.pc = IF strategy = "cache_aside" THEN "evict" ELSE "store",
                            !.version = clock'], exposed)

(* Mutant: the old version stays in the cache.                              *)
MutantEvict(a) ==
    /\ req[a].pc = "evict"
    /\ UNCHANGED <<strategy, data, acked, epoch>>
    /\ Continue(a, [req[a] EXCEPT !.pc = "answered"], exposed)

Evict(a) ==
    LET r == req[a] IN
    /\ r.pc = "evict"
    /\ cached' = [cached EXCEPT ![r.item] = Absent]
    /\ UNCHANGED <<strategy, dirty, stored, clock, acked, epoch>>
    /\ Continue(a, [r EXCEPT !.pc = "answered"], exposed \ {r.item})

Store(a) == req[a].pc = "store" /\ SetRow(a)

(* WriteBackStrategy.write takes the lock and sets the item.                *)
Set(a) ==
    LET r == req[a] IN
    /\ r.pc = "set"
    /\ LockIsFree
    /\ clock' = clock + 1
    /\ cached' = [cached EXCEPT ![r.item] = clock']
    /\ UNCHANGED <<strategy, dirty, stored, acked, epoch>>
    /\ Continue(a, [r EXCEPT !.pc = "sadd", !.version = clock'], exposed)

(* sadd; from here on a flush finds the item.                               *)
SAdd(a) ==
    LET r == req[a] IN
    /\ r.pc = "sadd"
    /\ dirty' = dirty \cup {r.item}
    /\ UNCHANGED <<strategy, cached, stored, clock, acked, epoch>>
    /\ Continue(a, [r EXCEPT !.pc = "scard"],
                IF cached[r.item] = r.version THEN exposed \ {r.item} ELSE exposed)

(* pending_dirty_writes, for the metrics; the lock is released.             *)
SCard(a) ==
    /\ req[a].pc = "scard"
    /\ UNCHANGED <<strategy, data, acked, epoch>>
    /\ Continue(a, [req[a] EXCEPT !.pc = "answered"], exposed)

-----------------------------------------------------------------------------
(* WriteBackStrategy.flush.                                                 *)

(* Mutant: the administrator's flush takes one batch.                       *)
MutantBatch(a) == {i \in dirty : Cardinality({j \in dirty : j < i}) < BatchSize}

(* The first ids of the sorted list; the administrator's flush takes all.   *)
Batch(a) ==
    IF a = FlushTask
    THEN {i \in dirty : Cardinality({j \in dirty : j < i}) < BatchSize}
    ELSE dirty

(* The end of a flush: flush_forever sleeps again.                          *)
Returned(a) == IF a = FlushTask THEN Idle ELSE [req[a] EXCEPT !.pc = "answered",
                                                               !.ids = {}, !.done = {}]

SMembers(a) ==
    LET r == req[a] IN
    /\ r.pc = "smembers"
    /\ LockIsFree
    /\ UNCHANGED <<strategy, data, acked, epoch>>
    /\ Continue(a, IF Batch(a) = {} THEN Returned(a)
                   ELSE [r EXCEPT !.pc = "fget", !.ids = Batch(a)], exposed)

(* The id at hand is counted as flushed, and the loop goes on.              *)
Flushed(r) ==
    LET i == Min(r.ids) IN
    [r EXCEPT !.ids = @ \ {i}, !.done = @ \cup {i},
              !.pc = IF r.ids = {i} THEN "srem" ELSE "fget"]

FGet(a) ==
    LET r == req[a]
        i == Min(r.ids) IN
    /\ r.pc = "fget"
    /\ UNCHANGED <<strategy, data, acked, epoch>>
    /\ Continue(a, IF cached[i] = Absent THEN Flushed(r)
                   ELSE [r EXCEPT !.pc = "fupsert", !.version = cached[i]], exposed)

FUpsert(a) ==
    LET r == req[a]
        i == Min(r.ids) IN
    /\ r.pc = "fupsert"
    /\ stored' = [stored EXCEPT ![i] = r.version]
    /\ UNCHANGED <<strategy, cached, dirty, clock, acked, epoch>>
    /\ Continue(a, Flushed(r),
                IF cached[i] \in {Absent, r.version} THEN exposed ELSE exposed \cup {i})

(* Mutant: the whole dirty set is deleted after a batch.                    *)
MutantSRemAll(a) ==
    /\ req[a].pc = "srem"
    /\ dirty' = {}
    /\ UNCHANGED <<strategy, cached, stored, clock, acked, epoch>>
    /\ Continue(a, Returned(a), exposed)

(* Mutant: the ids still to be flushed are removed, which are none.         *)
MutantSRemNone(a) ==
    /\ req[a].pc = "srem"
    /\ dirty' = dirty \ req[a].ids
    /\ UNCHANGED <<strategy, cached, stored, clock, acked, epoch>>
    /\ Continue(a, Returned(a), exposed)

SRem(a) ==
    /\ req[a].pc = "srem"
    /\ dirty' = dirty \ req[a].done
    /\ UNCHANGED <<strategy, cached, stored, clock, acked, epoch>>
    /\ Continue(a, Returned(a), exposed)

(* asyncio.sleep of flush_forever is over.                                  *)
Wake ==
    /\ WriteBack
    /\ req[FlushTask].pc = "idle"
    /\ req' = [req EXCEPT ![FlushTask] = [Idle EXCEPT !.op = "flush", !.pc = "smembers"]]
    /\ UNCHANGED <<strategy, data, acked, epoch, exposed, failures>>

-----------------------------------------------------------------------------
(* POST /admin/reset: FLUSHDB, then TRUNCATE and the seed in one            *)
(* transaction, without the flush lock.  What was acknowledged before       *)
(* either no longer counts; the TRUNCATE also undoes what a running flush   *)
(* has stored and is about to call clean.                                   *)

(* Mutant: only the dirty set is deleted.                                   *)
MutantClear(a) ==
    /\ req[a].pc = "clear"
    /\ dirty' = {}
    /\ epoch' = clock
    /\ UNCHANGED <<strategy, cached, stored, clock, acked>>
    /\ Continue(a, [req[a] EXCEPT !.pc = "truncate"], {})

Clear(a) ==
    /\ req[a].pc = "clear"
    /\ cached' = [i \in Items |-> Absent]
    /\ dirty' = {}
    /\ epoch' = clock
    /\ UNCHANGED <<strategy, stored, clock, acked>>
    /\ Continue(a, [req[a] EXCEPT !.pc = "truncate"], {})

Truncate(a) ==
    /\ req[a].pc = "truncate"
    /\ stored' = [i \in Items |-> Seed]
    /\ epoch' = clock
    /\ UNCHANGED <<strategy, cached, dirty, clock, acked>>
    /\ Continue(a, [req[a] EXCEPT !.pc = "answered"],
                exposed \cup Incoherent(cached, stored', dirty \ UNION {req[b].done : b \in Actors}))

-----------------------------------------------------------------------------
(* Requests.                                                                *)

FirstPoint(op) ==
    CASE op = "read" -> "get"
      [] op = "write" -> IF WriteBack THEN "set" ELSE "upsert"
      [] op = "flush" -> IF WriteBack THEN "smembers" ELSE "answered"
      [] op = "reset" -> "clear"

(* A request comes in and gets a thread.                                    *)
Begin(t, op, i) ==
    /\ req[t].pc = "idle"
    /\ LoopIsFree
    /\ req' = [req EXCEPT ![t] = [Idle EXCEPT !.op = op, !.pc = FirstPoint(op), !.item = i,
                                             !.need = IF i = Absent THEN Absent ELSE acked[i]]]
    /\ UNCHANGED <<strategy, data, acked, epoch, exposed, failures>>

(* The answer is delivered; `heard` says whether the client is still there. *)
Reply(t, heard) ==
    LET r == req[t] IN
    /\ r.pc \in {"answered", "failed"}
    /\ LoopIsFree
    /\ req' = [req EXCEPT ![t] = Idle]
    /\ acked' = IF heard /\ r.op = "write" /\ r.pc = "answered" /\ r.version > acked[r.item]
                THEN [acked EXCEPT ![r.item] = r.version] ELSE acked
    /\ UNCHANGED <<strategy, data, epoch, exposed, failures>>

(* One command of a request or of the flush task.                           *)
Command(a) ==
    \/ Get(a) \/ Select(a) \/ Fill(a)
    \/ Upsert(a) \/ Evict(a) \/ Store(a)
    \/ Set(a) \/ SAdd(a) \/ SCard(a)
    \/ SMembers(a) \/ FGet(a) \/ FUpsert(a) \/ SRem(a)
    \/ Clear(a) \/ Truncate(a)

(* The process dies and starts again; Redis and PostgreSQL keep their data, *)
(* and the table is not empty, so lifespan resets nothing.                  *)
RestartService ==
    /\ failures < CacheFaults
    /\ failures' = failures + 1
    /\ req' = [a \in Actors |-> Idle]
    /\ exposed' = exposed \cup Incoherent(cached, stored, dirty)
    /\ UNCHANGED <<strategy, data, acked, epoch>>

-----------------------------------------------------------------------------
(* What an acknowledged version is still worth after the resets.            *)
Owed(v) == IF v <= epoch THEN Absent ELSE v

(* No acknowledged write is lost: it, or a later one, is in the table, or   *)
(* in Redis where the next flush finds it - unless a reset dropped it or a  *)
(* slow read filled the cache over it.  Commands that fail, a flush that    *)
(* stops half-way and a restart lose nothing.                               *)
AckedWriteKept ==
    \A i \in Items \ exposed :
        \/ Owed(acked[i]) <= stored[i]
        \/ i \in dirty /\ Owed(acked[i]) <= cached[i]

(* A read that begins after a write was acknowledged returns that write or  *)
(* a later one, whichever copies it is served from.                         *)
ReadSeesAckedWrite ==
    \A t \in Threads :
        req[t].op = "read" /\ req[t].pc = "answered" => Owed(req[t].need) <= req[t].version

(* The cache and the table disagree only while a write of the item is under *)
(* way, or by one of the overlaps and failures that expose it.              *)
CacheAgrees ==
    \A i \in Incoherent(cached, stored, dirty) \ exposed :
        \E a \in Actors : req[a].pc \in {"evict", "store", "sadd"} /\ req[a].item = i
=============================================================================
