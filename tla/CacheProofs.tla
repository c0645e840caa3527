----------------------------- MODULE CacheProofs -----------------------------
(***************************************************************************)
(* What holds of the cache service and of the generator that drives it,    *)
(* for any number of items, threads and faults, and any batch size.  In    *)
(* this order: one thread at a time is inside the flush lock and no        *)
(* acknowledged write is lost (CacheInv); cache and table agree (AgreeInv);*)
(* reads see acknowledged writes (ReadInv); workloads start clean and end  *)
(* flushed (ExperimentInv).                                                *)
(***************************************************************************)
EXTENDS LoadExperiment, WellFoundedInduction, TLAPS

(* The points at which a request knows its item, those of a flush that has  *)
(* read the dirty set, and those of a write that has taken effect.          *)
ItemPoints == {"get", "select", "fill", "upsert", "evict", "store", "set", "sadd"}
Flushing == {"fget", "fupsert", "srem"}
Written == {"evict", "store", "scard", "answered"}

WritePoints == {"upsert", "evict", "store", "set", "sadd", "scard"}

(* What the program point of a request says of it, when c writes have taken *)
(* effect.                                                                  *)
RequestOK(q, c) ==
    /\ q \in RequestState
    /\ q.pc \in ItemPoints => q.item \in Items
    /\ q.pc \in {"fget", "fupsert"} => q.ids # {}
    /\ q.pc = "smembers" => q.done = {}
    /\ q.pc \in WritePoints => q.op = "write"
    /\ q.op = "write" => /\ q.pc \in WritePoints \cup {"answered", "failed", "dead"}
                         /\ q.item \in Items /\ q.version <= c
    /\ WriteBack => q.pc \notin {"upsert", "evict", "store"}
    /\ ~WriteBack => q.pc \notin {"set", "sadd", "scard", "smembers"} \cup Flushing

(* What a running flush is about to call clean.                             *)
Doomed == UNION {req[a].done : a \in {b \in Actors : req[b].pc \in Flushing}}

(* The cache holds the version, or a later one, unless the item is exposed. *)
InCache(i, v) == i \in exposed \/ Owed(v) <= cached[i]

(* The version is kept: in the table, or in the cache under an id that a    *)
(* flush will find and is not about to remove.                              *)
Safe(i, v) ==
    IF WriteBack
    THEN \/ i \in exposed
         \/ Owed(v) <= cached[i] /\ (i \in dirty \ Doomed \/ Owed(v) <= stored[i])
    ELSE Owed(v) <= stored[i]

(* The write whose item is in the cache and not in the dirty set yet is the *)
(* latest one: the lock is held.                                            *)
RequestKept(q) ==
    /\ q.op = "write" /\ q.pc \in Written => Safe(q.item, q.version)
    /\ q.pc = "sadd" => q.version = clock /\ InCache(q.item, q.version)

CacheInv ==
    /\ CacheTypeOK
    /\ ~WriteBack => dirty = {}
    /\ \A a \in Actors : RequestOK(req[a], clock) /\ RequestKept(req[a])
    /\ \A i \in Items : acked[i] <= clock /\ Safe(i, acked[i])

-----------------------------------------------------------------------------
(* A set of natural numbers has its minimum among its members.              *)
LEMMA MinIsMember ==
    ASSUME NEW S \in SUBSET Nat, S # {}
    PROVE  Min(S) \in S
<1>1. \E x \in S : \A y \in S : ~ (<<y, x>> \in OpToRel(<, Nat))
    BY NatLessThanWellFounded, WFMin, Zenon
<1>2. PICK x \in S : \A y \in S : ~ (y < x)
    BY <1>1 DEF OpToRel
<1>3. \A y \in S : x <= y
    BY <1>2
<1> QED BY <1>3 DEF Min

(* An idle thread is right at any time.                                     *)
LEMMA IdleOK ==
    ASSUME NEW c
    PROVE  RequestOK(Idle, c) /\ RequestKept(Idle) /\ Idle.pc \notin Locked \cup Flushing \cup {"sadd"}
BY DEF RequestOK, RequestKept, RequestState, Idle, Ops, ProgramPoints, ItemPoints, Flushing,
       WritePoints, Written, Absent, Locked

(* The first state: nothing is under way and nothing owed.                  *)
LEMMA CacheInitInv == CacheInit => CacheInv
<1> SUFFICES ASSUME CacheInit PROVE CacheInv
    OBVIOUS
<1>1. RequestOK(Idle, clock) /\ RequestKept(Idle)
    BY IdleOK
<1>2. CacheTypeOK
    <2>1. Absent \in Nat /\ Seed \in Nat /\ 0 \in 0..CacheFaults
        BY CacheAssumption DEF Absent, Seed, CacheAssumption
    <2>2. Idle \in RequestState /\ Idle.pc \notin Locked /\ Idle.pc \notin {"fget", "fupsert"}
        BY <1>1 DEF RequestOK, Idle, Locked
    <2> QED BY <2>1, <2>2 DEF CacheInit, CacheTypeOK
<1>3. \A a \in Actors : RequestOK(req[a], clock) /\ RequestKept(req[a])
    BY <1>1 DEF CacheInit
<1>4. \A i \in Items : acked[i] <= clock /\ Safe(i, acked[i])
    BY DEF CacheInit, Safe, Owed, Absent, Seed
<1> QED BY <1>2, <1>3, <1>4 DEF CacheInit, CacheInv

(* A request that moves on, or begins, and what its step has to show: what  *)
(* is kept stays kept, and the new state of the request is right.           *)
LEMMA RequestStep ==
    ASSUME CacheInv, NEW a \in Actors, NEW q, RequestOK(q, clock'), RequestKept(q)',
           req' = [req EXCEPT ![a] = q],
           q.pc \in Locked => req[a].pc \in Locked \/ LockIsFree,
           UNCHANGED strategy,
           cached' \in [Items -> Nat], stored' \in [Items -> Nat], dirty' \in SUBSET Items,
           clock' \in Nat, epoch' \in Nat, acked' \in [Items -> Nat],
           exposed' \in SUBSET Items, failures' \in 0..CacheFaults,
           ~WriteBack => dirty' = {},
           clock <= clock',
           clock' = clock \/ \A b \in Actors : req[b].pc # "sadd",
           \A i \in Items : acked'[i] <= clock /\ Safe(i, acked'[i]),
           \A i \in Items, v \in 0..clock : Safe(i, v) => Safe(i, v)',
           WriteBack => \A i \in Items, v \in 0..clock : InCache(i, v) => InCache(i, v)'
    PROVE  CacheInv'
<1>1. /\ req \in [Actors -> RequestState] /\ q \in RequestState /\ clock \in Nat
      /\ \A b \in Actors : RequestOK(req[b], clock) /\ RequestKept(req[b])
    BY DEF CacheInv, CacheTypeOK, RequestOK
<1>2. WriteBack' = WriteBack
    BY DEF WriteBack
<1>3. req' \in [Actors -> RequestState] /\ req'[a] = q /\ \A b \in Actors \ {a} : req'[b] = req[b]
    BY <1>1
<1>4. \A b, c \in Actors : req'[b].pc \in Locked /\ req'[c].pc \in Locked => b = c
    <2>1. \A b, c \in Actors : req[b].pc \in Locked /\ req[c].pc \in Locked => b = c
        BY DEF CacheInv, CacheTypeOK
    <2> QED BY <1>3, <2>1 DEF LockIsFree
<1>5. ASSUME NEW b \in Actors \ {a} PROVE RequestOK(req'[b], clock')
    <2>1. RequestOK(req[b], clock) /\ req'[b] = req[b] /\ req[b] \in RequestState
        BY <1>1, <1>3
    <2>2. req[b].version \in Nat
        BY <2>1 DEF RequestState
    <2> QED BY <1>1, <2>1, <2>2 DEF RequestOK
<1>6. ASSUME NEW b \in Actors PROVE req'[b].pc \in {"fget", "fupsert"} => req'[b].ids # {}
    BY <1>3, <1>5, <1>6 DEF RequestOK
<1>7. CacheTypeOK'
    BY <1>3, <1>4, <1>6 DEF CacheTypeOK, CacheInv
<1>8. ASSUME NEW b \in Actors \ {a} PROVE RequestKept(req[b])'
    <2>1. RequestOK(req[b], clock) /\ RequestKept(req[b]) /\ req'[b] = req[b] /\ req[b] \in RequestState
        BY <1>1, <1>3
    <2>2. req[b].version \in Nat
        BY <2>1 DEF RequestState
    <2>3. ASSUME req[b].op = "write", req[b].pc \in Written PROVE Safe(req[b].item, req[b].version)'
        <3>1. req[b].item \in Items /\ req[b].version \in 0..clock
            BY <1>1, <2>1, <2>2, <2>3 DEF RequestOK
        <3>2. Safe(req[b].item, req[b].version)
            BY <2>1, <2>3 DEF RequestKept
        <3> QED BY <2>1, <3>1, <3>2 DEF Safe, InCache
    <2>4. ASSUME req[b].pc = "sadd"
          PROVE  req[b].version = clock' /\ InCache(req[b].item, req[b].version)'
        <3>1. WriteBack /\ req[b].item \in Items
            BY <2>1, <2>4 DEF RequestOK, ItemPoints
        <3>2. req[b].version = clock /\ InCache(req[b].item, req[b].version)
            BY <2>1, <2>4 DEF RequestKept
        <3>3. clock' = clock
            BY <2>4
        <3>4. req[b].version \in 0..clock
            BY <1>1, <3>2
        <3>5. InCache(req[b].item, req[b].version) => InCache(req[b].item, req[b].version)'
            BY <3>1, <3>4
        <3> QED BY <2>1, <3>2, <3>3, <3>5 DEF InCache
    <2> QED BY <2>1, <2>3, <2>4 DEF RequestKept
<1>9. ASSUME NEW b \in Actors PROVE RequestOK(req[b], clock)' /\ RequestKept(req[b])'
    <2>1. CASE b = a
        <3>1. RequestKept(q)' => RequestKept(req[b])'
            BY <1>3, <2>1 DEF RequestKept
        <3>2. RequestOK(req'[b], clock')
            BY <1>3, <2>1
        <3> QED BY <1>2, <3>1, <3>2 DEF RequestOK
    <2>2. CASE b # a
        <3>1. RequestKept(req[b])'
            BY <1>8, <2>2
        <3>2. RequestOK(req'[b], clock')
            BY <1>5, <2>2
        <3> QED BY <1>2, <1>3, <2>2, <3>1, <3>2 DEF RequestOK
    <2> QED BY <2>1, <2>2
<1>10. ASSUME NEW i \in Items PROVE acked'[i] <= clock' /\ Safe(i, acked[i])'
    <2>1. acked'[i] \in 0..clock /\ acked'[i] <= clock' /\ Safe(i, acked'[i])
        BY <1>1
    <2>2. Safe(i, acked'[i]) => Safe(i, acked[i])'
        BY <2>1 DEF Safe
    <2> QED BY <2>1, <2>2
<1> QED BY <1>2, <1>7, <1>9, <1>10 DEF CacheInv

-----------------------------------------------------------------------------
(* Updates of a request, field by field.                                    *)
LEMMA FieldType ==
    ASSUME NEW q \in RequestState, NEW pc \in ProgramPoints, NEW n \in Nat, NEW S \in SUBSET Items
    PROVE  /\ [q EXCEPT !.pc = pc] \in RequestState
           /\ [q EXCEPT !.version = n] \in RequestState
           /\ [q EXCEPT !.need = n] \in RequestState
           /\ [q EXCEPT !.ids = S] \in RequestState
           /\ [q EXCEPT !.done = S] \in RequestState
<1>1. [q EXCEPT !.pc = pc] \in RequestState
    BY DEF RequestState
<1>2. [q EXCEPT !.version = n] \in RequestState
    BY DEF RequestState
<1>3. [q EXCEPT !.need = n] \in RequestState
    BY DEF RequestState
<1>4. [q EXCEPT !.ids = S] \in RequestState
    BY DEF RequestState
<1>5. [q EXCEPT !.done = S] \in RequestState
    BY DEF RequestState
<1> QED BY <1>1, <1>2, <1>3, <1>4, <1>5

(* The updates of several fields that the commands make.                    *)
LEMMA FieldsType ==
    ASSUME NEW q \in RequestState, NEW pc \in ProgramPoints, NEW n \in Nat, NEW m \in Nat,
           NEW S \in SUBSET Items, NEW T \in SUBSET Items
    PROVE  /\ [q EXCEPT !.pc = pc, !.version = n] \in RequestState
           /\ [q EXCEPT !.version = n, !.need = m] \in RequestState
           /\ [q EXCEPT !.pc = pc, !.version = n, !.need = m] \in RequestState
           /\ [q EXCEPT !.pc = pc, !.ids = S] \in RequestState
           /\ [q EXCEPT !.pc = pc, !.ids = S, !.done = T] \in RequestState
           /\ [q EXCEPT !.ids = S, !.done = T, !.pc = pc] \in RequestState
<1> DEFINE at == [q EXCEPT !.pc = pc]
           got == [at EXCEPT !.version = n]
           row == [q EXCEPT !.version = n]
           batch == [at EXCEPT !.ids = S]
           rest == [q EXCEPT !.ids = S]
           flushed == [rest EXCEPT !.done = T]
<1>1. at \in RequestState /\ row \in RequestState /\ rest \in RequestState
    BY FieldType
<1>2. got \in RequestState /\ batch \in RequestState /\ flushed \in RequestState
    <2> HIDE DEF at, rest
    <2> QED BY <1>1, FieldType
<1>3. [got EXCEPT !.need = m] \in RequestState
    <2> HIDE DEF got
    <2> QED BY <1>2, FieldType
<1>4. [row EXCEPT !.need = m] \in RequestState
    <2> HIDE DEF row
    <2> QED BY <1>1, FieldType
<1>5. [batch EXCEPT !.done = T] \in RequestState
    <2> HIDE DEF batch
    <2> QED BY <1>2, FieldType
<1>6. [flushed EXCEPT !.pc = pc] \in RequestState
    <2> HIDE DEF flushed
    <2> QED BY <1>2, FieldType
<1> QED BY <1>2, <1>3, <1>4, <1>5, <1>6

(* A request that fails is owed nothing.                                    *)
LEMMA FailedRequest ==
    ASSUME NEW q, NEW c \in Nat, NEW d \in Nat, c <= d, RequestOK(q, c), NEW pc \in {"failed", "dead"}
    PROVE  /\ RequestOK([q EXCEPT !.pc = pc], d)
           /\ [q EXCEPT !.pc = pc].pc \notin Written \cup {"sadd"} \cup Locked \cup Flushing
<1> DEFINE f == [q EXCEPT !.pc = pc]
<1>1. q \in RequestState /\ pc \in ProgramPoints
    BY DEF RequestOK, ProgramPoints
<1>2. f \in RequestState
    BY <1>1, FieldType
<1>3. f.pc = pc /\ f.op = q.op /\ f.item = q.item /\ f.version = q.version /\ q.version \in Nat
    BY <1>1 DEF RequestState
<1>4. f.op = "write" => f.item \in Items /\ f.version <= d
    BY <1>3 DEF RequestOK
<1> HIDE DEF f
<1>5. RequestOK(f, d)
    BY <1>2, <1>3, <1>4 DEF RequestOK, ItemPoints, WritePoints, Flushing
<1>6. f.pc \notin Written \cup {"sadd"} \cup Locked \cup Flushing
    BY <1>3 DEF Written, Locked, Flushing
<1> QED BY <1>5, <1>6 DEF f

(* A step may doom only what the flush it belongs to counts as done.        *)
LEMMA DoomedStep ==
    ASSUME req \in [Actors -> RequestState], NEW a \in Actors, NEW q, req' = [req EXCEPT ![a] = q],
           NEW S, q.pc \in Flushing => q.done \subseteq S
    PROVE  /\ Doomed' \subseteq Doomed \cup S
           /\ req[a].pc \in Flushing => req[a].done \subseteq Doomed
<1>1. ASSUME NEW i \in Doomed' PROVE i \in Doomed \cup S
    <2>1. PICK b \in Actors : req'[b].pc \in Flushing /\ i \in req'[b].done
        BY <1>1 DEF Doomed
    <2>2. CASE b = a
        BY <2>1, <2>2
    <2>3. CASE b # a
        BY <2>1, <2>3 DEF Doomed
    <2> QED BY <2>2, <2>3
<1> QED BY <1>1 DEF Doomed

(* A command that goes on as r, or has taken effect and fails.              *)
LEMMA ContinueStep ==
    ASSUME CacheInv, NEW a \in Actors, NEW r, NEW damage \in SUBSET Items, Continue(a, r, damage),
           RequestOK(r, clock'),
           r.pc \in Locked => req[a].pc \in Locked \/ LockIsFree,
           UNCHANGED <<strategy, acked>>,
           cached' \in [Items -> Nat], stored' \in [Items -> Nat], dirty' \in SUBSET Items,
           clock' \in Nat, epoch' \in Nat,
           ~WriteBack => dirty' = {},
           clock <= clock',
           clock' = clock \/ \A b \in Actors : req[b].pc # "sadd",
           \A i \in Items, v \in 0..clock : Safe(i, v) => Safe(i, v)',
           WriteBack => \A i \in Items, v \in 0..clock : InCache(i, v) => InCache(i, v)',
           req' = [req EXCEPT ![a] = r] => RequestKept(r)'
    PROVE  CacheInv'
<1>1. /\ acked' \in [Items -> Nat] /\ clock \in Nat /\ exposed \in SUBSET Items
      /\ failures \in 0..CacheFaults /\ RequestOK(req[a], clock)
      /\ \A i \in Items : acked'[i] <= clock /\ Safe(i, acked'[i])
    BY DEF CacheInv, CacheTypeOK
<1>2. exposed' \in SUBSET Items
    BY DEF Continue, Incoherent
<1>3. failures' \in 0..CacheFaults
    BY <1>1, CacheAssumption DEF Continue, Abort, CacheAssumption
<1>4. CASE req' = [req EXCEPT ![a] = r]
    BY <1>1, <1>2, <1>3, <1>4, RequestStep
<1>5. CASE Abort(a)
    <2>1. PICK pc \in {"failed", "dead"} : req' = [req EXCEPT ![a].pc = pc]
        BY <1>5 DEF Abort
    <2> DEFINE f == [req[a] EXCEPT !.pc = pc]
    <2>2. req' = [req EXCEPT ![a] = f]
        BY <2>1 DEF CacheInv, CacheTypeOK
    <2>3. RequestOK(f, clock') /\ f.pc \notin Written \cup {"sadd"} \cup Locked \cup Flushing
        BY <1>1, FailedRequest
    <2> HIDE DEF f
    <2>4. ASSUME NEW g, g.pc \notin Written \cup {"sadd"} PROVE RequestKept(g)'
        BY <2>4 DEF RequestKept
    <2>5. PICK g : g = f
        OBVIOUS
    <2>6. RequestKept(g)'
        BY <2>3, <2>4, <2>5
    <2>7. g.pc \notin Locked /\ RequestOK(g, clock') /\ req' = [req EXCEPT ![a] = g]
        BY <2>2, <2>3, <2>5
    <2> QED BY <1>1, <1>2, <1>3, <2>6, <2>7, RequestStep
<1> QED BY <1>4, <1>5 DEF Continue

(* A step that leaves the data alone and dooms nothing keeps what is kept.  *)
LEMMA QuietKeeps ==
    ASSUME UNCHANGED <<strategy, data, epoch>>, exposed \subseteq exposed', Doomed' \subseteq Doomed
    PROVE  /\ \A i \in Items, v \in 0..clock : Safe(i, v) => Safe(i, v)'
           /\ \A i \in Items, v \in 0..clock : InCache(i, v) => InCache(i, v)'
BY DEF data, Safe, InCache, Owed, WriteBack

-----------------------------------------------------------------------------
(* What the invariant says of the data and of one request.                  *)
LEMMA Known ==
    ASSUME CacheInv, NEW a \in Actors
    PROVE  /\ req \in [Actors -> RequestState] /\ req[a] \in RequestState
           /\ RequestOK(req[a], clock) /\ RequestKept(req[a])
           /\ cached \in [Items -> Nat] /\ stored \in [Items -> Nat] /\ dirty \in SUBSET Items
           /\ clock \in Nat /\ epoch \in Nat /\ acked \in [Items -> Nat]
           /\ exposed \in SUBSET Items
           /\ ~WriteBack => dirty = {}
BY DEF CacheInv, CacheTypeOK

(* However a command ends, it dooms no more than the request counts done.   *)
LEMMA ContinueDooms ==
    ASSUME CacheInv, NEW a \in Actors, NEW r, NEW damage, Continue(a, r, damage),
           NEW S, r.pc \in Flushing => r.done \subseteq S
    PROVE  Doomed' \subseteq Doomed \cup S /\ damage \subseteq exposed'
<1>1. ASSUME req' = [req EXCEPT ![a] = r] PROVE Doomed' \subseteq Doomed \cup S
    <2>1. req \in [Actors -> RequestState]
        BY Known
    <2> QED BY <1>1, <2>1, DoomedStep
<1>2. ASSUME Abort(a) PROVE Doomed' \subseteq Doomed \cup S
    <2>1. PICK pc \in {"failed", "dead"} : req' = [req EXCEPT ![a].pc = pc]
        BY <1>2 DEF Abort
    <2> DEFINE f == [req[a] EXCEPT !.pc = pc]
    <2>2. req \in [Actors -> RequestState] /\ req[a] \in RequestState
        BY Known
    <2>3. req' = [req EXCEPT ![a] = f]
        BY <2>1, <2>2
    <2>4. f.pc \notin Flushing
        BY <2>2 DEF RequestState, Flushing
    <2> HIDE DEF f
    <2>5. f.pc \in Flushing => f.done \subseteq S
        BY <2>4
    <2> QED BY <2>2, <2>3, <2>5, DoomedStep
<1>3. Doomed' \subseteq Doomed \cup S
    BY <1>1, <1>2 DEF Continue
<1>4. damage \subseteq exposed'
    BY DEF Continue
<1> QED BY <1>3, <1>4

(* A request after a command that leaves the data alone.                    *)
LEMMA QuietStep ==
    ASSUME CacheInv, NEW a \in Actors, NEW r, Continue(a, r, exposed),
           UNCHANGED <<strategy, data, acked, epoch>>,
           RequestOK(r, clock), RequestKept(r), r.pc # "sadd",
           r.pc \in Locked => req[a].pc \in Locked \/ LockIsFree,
           r.pc \in Flushing => r.done = {}
    PROVE  CacheInv'
<1>1. UNCHANGED <<cached, dirty, stored, clock, epoch, strategy>>
    BY DEF data
<1>2. exposed \subseteq exposed'
    BY DEF Continue
<1>3. Doomed' \subseteq Doomed
    <2>1. Doomed' \subseteq Doomed \cup {}
        BY ContinueDooms
    <2> QED BY <2>1
<1>4. /\ \A i \in Items, v \in 0..clock : Safe(i, v) => Safe(i, v)'
      /\ \A i \in Items, v \in 0..clock : InCache(i, v) => InCache(i, v)'
    BY <1>2, <1>3, QuietKeeps
<1>5. RequestKept(r)'
    <2>1. ASSUME r.op = "write", r.pc \in Written PROVE Safe(r.item, r.version)'
        <3>1. Safe(r.item, r.version)
            BY <2>1 DEF RequestKept
        <3>2. r.item \in Items /\ r.version \in 0..clock
            <4>1. r.version \in Nat
                BY DEF RequestOK, RequestState
            <4> QED BY <2>1, <4>1, Known DEF RequestOK
        <3> QED BY <1>4, <3>1, <3>2 DEF Safe
    <2> QED BY <2>1 DEF RequestKept
<1>6. /\ cached' \in [Items -> Nat] /\ stored' \in [Items -> Nat] /\ dirty' \in SUBSET Items
      /\ clock' \in Nat /\ epoch' \in Nat /\ clock <= clock' /\ clock' = clock
      /\ ~WriteBack => dirty' = {}
    BY <1>1, Known
<1>7. RequestOK(r, clock')
    BY <1>1
<1>8. exposed \in SUBSET Items
    BY Known
<1> QED BY <1>1, <1>4, <1>5, <1>6, <1>7, <1>8, ContinueStep

(* A read that hits, or misses.                                             *)
LEMMA GetInv == ASSUME CacheInv, NEW a \in Actors, Get(a) PROVE CacheInv'
<1> DEFINE r == req[a]
           hit == [r EXCEPT !.pc = "answered", !.version = cached[r.item], !.need = Excused(r)]
           miss == [r EXCEPT !.pc = "select"]
<1>1. r \in RequestState /\ RequestOK(r, clock) /\ r.pc = "get"
    BY Known DEF Get
<1>2. r.item \in Items /\ r.op # "write"
    BY <1>1 DEF RequestOK, ItemPoints, WritePoints
<1>3. cached[r.item] \in Nat /\ Excused(r) \in Nat
    BY <1>1, <1>2, Known DEF RequestState, Excused, Absent
<1>4. hit \in RequestState /\ miss \in RequestState
    BY <1>1, <1>3, FieldType, FieldsType DEF ProgramPoints
<1>5. /\ hit.pc = "answered" /\ hit.op = r.op
      /\ miss.pc = "select" /\ miss.op = r.op /\ miss.item = r.item
    BY <1>1 DEF RequestState
<1> HIDE DEF hit, miss, r
<1>6. RequestOK(hit, clock) /\ RequestOK(miss, clock)
    BY <1>2, <1>4, <1>5 DEF RequestOK, ItemPoints, WritePoints, Flushing
<1>7. RequestKept(hit) /\ RequestKept(miss)
    BY <1>2, <1>5 DEF RequestKept
<1>8. /\ hit.pc \notin Locked \cup Flushing \cup {"sadd"}
      /\ miss.pc \notin Locked \cup Flushing \cup {"sadd"}
    BY <1>5 DEF Locked, Flushing
<1>9. UNCHANGED <<strategy, data, acked, epoch>>
    BY DEF Get
<1>10. Continue(a, hit, exposed) \/ Continue(a, miss, exposed)
    BY DEF Get, hit, miss, r
<1> QED BY <1>6, <1>7, <1>8, <1>9, <1>10, QuietStep

(* The row, or none.                                                        *)
LEMMA SelectInv == ASSUME CacheInv, NEW a \in Actors, Select(a) PROVE CacheInv'
<1> DEFINE r == req[a]
           row == [r EXCEPT !.version = stored[r.item], !.need = Excused(r)]
           found == [row EXCEPT !.pc = "fill"]
           none == [row EXCEPT !.pc = "failed"]
<1>1. r \in RequestState /\ RequestOK(r, clock) /\ r.pc = "select"
    BY Known DEF Select
<1>2. r.item \in Items /\ r.op # "write"
    BY <1>1 DEF RequestOK, ItemPoints, WritePoints
<1>3. stored[r.item] \in Nat /\ Excused(r) \in Nat
    BY <1>1, <1>2, Known DEF RequestState, Excused, Absent
<1>4. row \in RequestState /\ row.op = r.op /\ row.item = r.item
    BY <1>1, <1>3, FieldsType DEF RequestState
<1>5. Continue(a, found, exposed) \/ Continue(a, none, exposed)
    BY DEF Select
<1> HIDE DEF row
<1>6. found \in RequestState /\ none \in RequestState
    BY <1>4, FieldType DEF ProgramPoints
<1>7. /\ found.pc = "fill" /\ found.op = r.op /\ found.item = r.item
      /\ none.pc = "failed" /\ none.op = r.op
    BY <1>4 DEF RequestState
<1> HIDE DEF found, none, r
<1>8. RequestOK(found, clock) /\ RequestOK(none, clock)
    BY <1>2, <1>6, <1>7 DEF RequestOK, ItemPoints, WritePoints, Flushing
<1>9. RequestKept(found) /\ RequestKept(none)
    BY <1>2, <1>7 DEF RequestKept
<1>10. /\ found.pc \notin Locked \cup Flushing \cup {"sadd"}
       /\ none.pc \notin Locked \cup Flushing \cup {"sadd"}
    BY <1>7 DEF Locked, Flushing
<1>11. UNCHANGED <<strategy, data, acked, epoch>>
    BY DEF Select
<1> QED BY <1>5, <1>8, <1>9, <1>10, <1>11, QuietStep

(* The length of the dirty set is only read.                                *)
LEMMA SCardInv == ASSUME CacheInv, NEW a \in Actors, SCard(a) PROVE CacheInv'
<1> DEFINE r == [req[a] EXCEPT !.pc = "answered"]
<1>1. req[a] \in RequestState /\ RequestOK(req[a], clock) /\ RequestKept(req[a]) /\ req[a].pc = "scard"
    BY Known DEF SCard
<1>2. r \in RequestState
    BY <1>1, FieldType DEF ProgramPoints
<1>3. r.pc = "answered" /\ r.op = req[a].op /\ r.item = req[a].item /\ r.version = req[a].version
    BY <1>1 DEF RequestState
<1>4. Continue(a, r, exposed) /\ UNCHANGED <<strategy, data, acked, epoch>>
    BY DEF SCard
<1> HIDE DEF r
<1>5. RequestOK(r, clock)
    BY <1>1, <1>2, <1>3 DEF RequestOK, ItemPoints, WritePoints, Flushing
<1>6. RequestKept(r)
    BY <1>1, <1>3 DEF RequestKept, Written
<1>7. r.pc \notin Locked \cup Flushing \cup {"sadd"}
    BY <1>3 DEF Locked, Flushing
<1> QED BY <1>4, <1>5, <1>6, <1>7, QuietStep

(* A flush takes its batch, under the lock, or has nothing to do.           *)
LEMMA SMembersInv == ASSUME CacheInv, NEW a \in Actors, SMembers(a) PROVE CacheInv'
<1> DEFINE r == [req[a] EXCEPT !.pc = "fget", !.ids = Batch(a)]
           e == Returned(a)
           answered == [req[a] EXCEPT !.pc = "answered", !.ids = {}, !.done = {}]
<1>1. req[a] \in RequestState /\ RequestOK(req[a], clock) /\ req[a].pc = "smembers"
    BY Known DEF SMembers
<1>2. req[a].op # "write" /\ req[a].done = {} /\ WriteBack
    BY <1>1 DEF RequestOK, WritePoints
<1>3. Batch(a) \in SUBSET Items
    BY Known DEF Batch
<1>4. r \in RequestState /\ answered \in RequestState
    BY <1>1, <1>3, FieldsType DEF ProgramPoints
<1>5. /\ r.pc = "fget" /\ r.op = req[a].op /\ r.ids = Batch(a) /\ r.done = {}
      /\ answered.pc = "answered" /\ answered.op = req[a].op
    BY <1>1, <1>2 DEF RequestState
<1>6. \/ Batch(a) # {} /\ Continue(a, r, exposed)
      \/ Continue(a, answered, exposed)
      \/ Continue(a, Idle, exposed)
    BY DEF SMembers, Returned
<1>7. LockIsFree /\ UNCHANGED <<strategy, data, acked, epoch>>
    BY DEF SMembers
<1> HIDE DEF r, answered, e
<1>8. CASE Batch(a) # {} /\ Continue(a, r, exposed)
    <2>1. RequestOK(r, clock)
        BY <1>2, <1>4, <1>5, <1>8 DEF RequestOK, ItemPoints, WritePoints, Flushing
    <2>2. RequestKept(r)
        BY <1>2, <1>5 DEF RequestKept
    <2> QED BY <1>5, <1>7, <1>8, <2>1, <2>2, QuietStep
<1>9. CASE Continue(a, answered, exposed)
    <2>1. RequestOK(answered, clock)
        BY <1>2, <1>4, <1>5 DEF RequestOK, ItemPoints, WritePoints, Flushing
    <2>2. RequestKept(answered) /\ answered.pc \notin Locked \cup Flushing \cup {"sadd"}
        BY <1>2, <1>5 DEF RequestKept, Locked, Flushing
    <2> QED BY <1>7, <1>9, <2>1, <2>2, QuietStep
<1>10. CASE Continue(a, Idle, exposed)
    <2>1. RequestOK(Idle, clock) /\ RequestKept(Idle) /\ Idle.pc \notin Locked \cup Flushing \cup {"sadd"}
        BY IdleOK
    <2> QED BY <1>7, <1>10, <2>1, QuietStep
<1> QED BY <1>6, <1>8, <1>9, <1>10

-----------------------------------------------------------------------------
(* The commands that write.                                                 *)

(* A request that waits in no lock, or leaves its own, hurts nobody's done. *)
LEMMA StaysDoomed ==
    ASSUME CacheInv, NEW a \in Actors, NEW r, NEW damage, Continue(a, r, damage),
           r.pc \notin Flushing
    PROVE  Doomed' \subseteq Doomed
<1>1. Doomed' \subseteq Doomed \cup {}
    BY ContinueDooms
<1> QED BY <1>1

(* What is owed never exceeds the version, and is nothing for old ones.     *)
LEMMA OwedIs ==
    ASSUME CacheInv
    PROVE  /\ \A v \in Nat : Owed(v) \in Nat /\ Owed(v) <= v
           /\ Absent \in Nat /\ Seed \in Nat /\ clock \in Nat /\ clock + 1 \in Nat
<1>1. epoch \in Nat /\ clock \in Nat
    BY Known DEF CacheInv, CacheTypeOK
<1> QED BY <1>1 DEF Owed, Absent, Seed

(* A row set in the cache: it is what the cache should hold, or the item is *)
(* exposed.                                                                 *)
LEMMA SetRowInv ==
    ASSUME CacheInv, NEW a \in Actors, req[a].pc \in {"fill", "store"}, SetRow(a)
    PROVE  CacheInv'
<1>1. PICK q \in RequestState : q = req[a] /\ RequestOK(q, clock) /\ RequestKept(q)
    BY Known
<1>2. q.item \in Items /\ q.version \in Nat
    BY <1>1 DEF RequestOK, RequestState, ItemPoints
<1>3. PICK r \in RequestState : r = [q EXCEPT !.pc = "answered"]
    BY <1>1, FieldType DEF ProgramPoints
<1>4. r.pc = "answered" /\ r.op = q.op /\ r.item = q.item /\ r.version = q.version
    BY <1>1, <1>3 DEF RequestState
<1> DEFINE damage == IF q.version # Current(q.item) THEN exposed \cup {q.item}
                     ELSE IF WriteBack THEN exposed
                     ELSE exposed \ {q.item}
<1>5. /\ cached' = [cached EXCEPT ![q.item] = q.version]
      /\ UNCHANGED <<strategy, dirty, stored, clock, acked, epoch>>
      /\ Continue(a, r, damage)
    BY <1>1, <1>3 DEF SetRow
<1>6. /\ cached \in [Items -> Nat] /\ stored \in [Items -> Nat] /\ dirty \in SUBSET Items
      /\ clock \in Nat /\ epoch \in Nat /\ exposed \in SUBSET Items
      /\ ~WriteBack => dirty = {}
    BY Known
<1>7. damage \in {exposed \cup {q.item}, exposed, exposed \ {q.item}}
    OBVIOUS
<1>8. WriteBack => /\ exposed \subseteq damage
                   /\ q.item \in damage \/ q.version = Current(q.item)
    OBVIOUS
<1> HIDE DEF damage
<1>9. damage \subseteq exposed' /\ damage \in SUBSET Items
    BY <1>2, <1>5, <1>6, <1>7 DEF Continue
<1>10. Doomed' \subseteq Doomed
    <2>1. r.pc \notin Flushing
        BY <1>4 DEF Flushing
    <2> QED BY <1>5, <2>1, StaysDoomed
<1>11. ASSUME WriteBack, NEW i \in Items, NEW v \in 0..clock, i \notin exposed', Owed(v) <= cached[i]
       PROVE  Owed(v) <= cached'[i]
    <2>1. CASE i # q.item
        BY <1>5, <1>6, <1>11, <2>1
    <2>2. CASE i = q.item
        <3>1. q.version = Current(i)
            BY <1>8, <1>9, <1>11, <2>2
        <3>2. cached'[i] = q.version
            BY <1>2, <1>5, <1>6, <2>2
        <3>3. CASE cached[i] # Absent
            BY <1>11, <3>1, <3>2, <3>3 DEF Current
        <3>4. CASE cached[i] = Absent
            <4>1. Owed(v) = 0 /\ stored[i] \in Nat
                BY <1>6, <1>11, <3>4, OwedIs DEF Absent
            <4>2. cached'[i] = stored[i]
                BY <3>1, <3>2, <3>4 DEF Current
            <4> QED BY <4>1, <4>2
        <3> QED BY <3>3, <3>4
    <2> QED BY <2>1, <2>2
<1>12. /\ \A v : Owed(v)' = Owed(v)
       /\ WriteBack' = WriteBack
       /\ exposed \subseteq exposed' \/ ~WriteBack
    BY <1>5, <1>8, <1>9 DEF Owed, WriteBack
<1>13. ASSUME NEW i \in Items, NEW v \in 0..clock PROVE Safe(i, v) => Safe(i, v)'
    <2>1. CASE ~WriteBack
        BY <1>5, <1>12, <2>1 DEF Safe
    <2>2. CASE WriteBack /\ i \notin exposed'
        <3>1. Owed(v) <= cached[i] => Owed(v) <= cached'[i]
            BY <1>11, <2>2
        <3> QED BY <1>5, <1>10, <1>12, <2>2, <3>1 DEF Safe
    <2>3. CASE WriteBack /\ i \in exposed'
        BY <1>12, <2>3 DEF Safe
    <2> QED BY <2>1, <2>2, <2>3
<1>14. ASSUME WriteBack, NEW i \in Items, NEW v \in 0..clock PROVE InCache(i, v) => InCache(i, v)'
    <2>1. CASE i \notin exposed'
        <3>1. Owed(v) <= cached[i] => Owed(v) <= cached'[i]
            BY <1>11, <1>14, <2>1
        <3> QED BY <1>12, <1>14, <2>1, <3>1 DEF InCache
    <2>2. CASE i \in exposed'
        BY <2>2 DEF InCache
    <2> QED BY <2>1, <2>2
<1>15. RequestOK(r, clock')
    BY <1>1, <1>3, <1>4, <1>5 DEF RequestOK, ItemPoints, WritePoints, Flushing
<1>16. RequestKept(r)'
    <2>1. ASSUME q.op = "write" PROVE Safe(q.item, q.version)'
        <3>1. q.pc = "store"
            BY <1>1, <2>1 DEF RequestOK, WritePoints
        <3>2. Safe(q.item, q.version) /\ q.version \in 0..clock
            BY <1>1, <1>2, <1>6, <2>1, <3>1 DEF RequestKept, Written, RequestOK
        <3> QED BY <1>2, <1>13, <3>2
    <2> QED BY <1>4, <2>1 DEF RequestKept
<1>17. /\ cached' \in [Items -> Nat] /\ stored' \in [Items -> Nat] /\ dirty' \in SUBSET Items
       /\ clock' \in Nat /\ epoch' \in Nat /\ clock <= clock' /\ clock' = clock
       /\ ~WriteBack => dirty' = {}
    BY <1>2, <1>5, <1>6
<1>18. r.pc \notin Locked /\ UNCHANGED <<strategy, acked>>
    BY <1>4, <1>5 DEF Locked
<1> QED BY <1>5, <1>9, <1>13, <1>14, <1>15, <1>16, <1>17, <1>18, ContinueStep

(* A write of the table: the new version is later than any that is owed.    *)
LEMMA UpsertInv == ASSUME CacheInv, NEW a \in Actors, Upsert(a) PROVE CacheInv'
<1>1. PICK q \in RequestState : q = req[a] /\ RequestOK(q, clock) /\ q.pc = "upsert"
    BY Known DEF Upsert
<1>2. q.item \in Items /\ q.op = "write" /\ ~WriteBack
    BY <1>1 DEF RequestOK, ItemPoints, WritePoints
<1>3. PICK n \in Nat : n = clock + 1 /\ n = clock'
    BY OwedIs DEF Upsert
<1>4. PICK pc \in {"evict", "store"} : pc = IF strategy = "cache_aside" THEN "evict" ELSE "store"
    OBVIOUS
<1>5. PICK r \in RequestState : r = [q EXCEPT !.pc = pc, !.version = n]
    <2>1. pc \in ProgramPoints
        BY <1>4 DEF ProgramPoints
    <2> QED BY <1>3, <2>1, FieldsType
<1>6. r.pc = pc /\ r.op = "write" /\ r.item = q.item /\ r.version = n
    BY <1>2, <1>5 DEF RequestState
<1>7. /\ stored' = [stored EXCEPT ![q.item] = n]
      /\ UNCHANGED <<strategy, cached, dirty, acked, epoch>>
      /\ Continue(a, r, exposed)
    BY <1>1, <1>3, <1>4, <1>5 DEF Upsert
<1>8. /\ cached \in [Items -> Nat] /\ stored \in [Items -> Nat] /\ dirty \in SUBSET Items
      /\ clock \in Nat /\ epoch \in Nat /\ exposed \in SUBSET Items
      /\ ~WriteBack => dirty = {}
    BY Known
<1>9. WriteBack' = WriteBack /\ \A v : Owed(v)' = Owed(v)
    BY <1>7 DEF WriteBack, Owed
<1>10. ASSUME NEW i \in Items, NEW v \in 0..clock PROVE Safe(i, v) => Safe(i, v)'
    <2>1. Owed(v) \in Nat /\ Owed(v) <= n
        BY <1>3, OwedIs
    <2>2. stored'[i] = n \/ stored'[i] = stored[i]
        BY <1>7, <1>8
    <2> QED BY <1>2, <1>9, <2>1, <2>2 DEF Safe
<1>11. RequestOK(r, clock')
    <2>1. r.pc \in {"evict", "store"} /\ r.version <= clock'
        BY <1>3, <1>4, <1>6
    <2> QED BY <1>2, <1>6, <2>1 DEF RequestOK, ItemPoints, WritePoints, Flushing
<1>12. RequestKept(r)'
    <2>1. Owed(n)' <= n /\ stored'[q.item] = n
        BY <1>2, <1>3, <1>7, <1>8, <1>9, OwedIs
    <2>2. Safe(q.item, n)'
        BY <1>2, <1>9, <2>1 DEF Safe
    <2>3. r.pc # "sadd"
        BY <1>4, <1>6
    <2> QED BY <1>6, <2>2, <2>3 DEF RequestKept
<1>13. \A b \in Actors : req[b].pc # "sadd"
    BY <1>2, Known DEF RequestOK
<1>14. r.pc \notin Locked
    BY <1>4, <1>6 DEF Locked
<1>15. /\ cached' \in [Items -> Nat] /\ stored' \in [Items -> Nat] /\ dirty' \in SUBSET Items
       /\ clock' \in Nat /\ epoch' \in Nat
       /\ ~WriteBack => dirty' = {}
       /\ UNCHANGED <<strategy, acked>>
    BY <1>3, <1>7, <1>8
<1>16. clock <= clock'
    BY <1>3, <1>8
<1> QED BY <1>2, <1>7, <1>8, <1>10, <1>11, <1>12, <1>13, <1>14, <1>15, <1>16, ContinueStep

(* Cache-aside forgets the item; the table has it.                          *)
LEMMA EvictInv == ASSUME CacheInv, NEW a \in Actors, Evict(a) PROVE CacheInv'
<1>1. PICK q \in RequestState : q = req[a] /\ RequestOK(q, clock) /\ RequestKept(q) /\ q.pc = "evict"
    BY Known DEF Evict
<1>2. q.item \in Items /\ q.op = "write" /\ ~WriteBack /\ q.version \in 0..clock
    BY <1>1, Known DEF RequestOK, ItemPoints, WritePoints, RequestState
<1>3. PICK r \in RequestState : r = [q EXCEPT !.pc = "answered"]
    BY FieldType DEF ProgramPoints
<1>4. r.pc = "answered" /\ r.op = "write" /\ r.item = q.item /\ r.version = q.version
    BY <1>2, <1>3 DEF RequestState
<1>5. /\ cached' = [cached EXCEPT ![q.item] = Absent]
      /\ UNCHANGED <<strategy, dirty, stored, clock, acked, epoch>>
      /\ Continue(a, r, exposed \ {q.item})
    BY <1>1, <1>3 DEF Evict
<1>6. /\ cached \in [Items -> Nat] /\ stored \in [Items -> Nat] /\ dirty \in SUBSET Items
      /\ clock \in Nat /\ epoch \in Nat /\ exposed \ {q.item} \in SUBSET Items
      /\ ~WriteBack => dirty = {}
    BY Known
<1>7. \A i, v : Safe(i, v) => Safe(i, v)'
    BY <1>2, <1>5 DEF Safe, WriteBack, Owed
<1>8. RequestOK(r, clock')
    BY <1>2, <1>4, <1>5 DEF RequestOK, ItemPoints, WritePoints, Flushing
<1>9. RequestKept(r)'
    <2>1. Safe(q.item, q.version)'
        BY <1>1, <1>2, <1>7 DEF RequestKept, Written
    <2> QED BY <1>4, <2>1 DEF RequestKept
<1>10. /\ cached' \in [Items -> Nat] /\ stored' \in [Items -> Nat] /\ dirty' \in SUBSET Items
       /\ clock' \in Nat /\ epoch' \in Nat
    BY <1>5, <1>6 DEF Absent
<1>11. /\ clock' = clock /\ clock <= clock'
       /\ ~WriteBack => dirty' = {}
    BY <1>5, <1>6
<1>12. r.pc \notin Locked /\ UNCHANGED <<strategy, acked>>
    BY <1>4, <1>5 DEF Locked
<1> QED BY <1>2, <1>5, <1>6, <1>7, <1>8, <1>9, <1>10, <1>11, <1>12, ContinueStep

(* Write-back sets the item, under the lock: its version is the latest, and *)
(* the item is not dirty yet.                                               *)
LEMMA SetInv == ASSUME CacheInv, NEW a \in Actors, Set(a) PROVE CacheInv'
<1>1. PICK q \in RequestState : q = req[a] /\ RequestOK(q, clock) /\ q.pc = "set"
    BY Known DEF Set
<1>2. q.item \in Items /\ q.op = "write" /\ WriteBack
    BY <1>1 DEF RequestOK, ItemPoints, WritePoints
<1>3. PICK n \in Nat : n = clock + 1 /\ n = clock'
    BY OwedIs DEF Set
<1>4. PICK r \in RequestState : r = [q EXCEPT !.pc = "sadd", !.version = n]
    BY <1>3, FieldsType DEF ProgramPoints
<1>5. r.pc = "sadd" /\ r.op = "write" /\ r.item = q.item /\ r.version = n
    BY <1>2, <1>4 DEF RequestState
<1>6. /\ cached' = [cached EXCEPT ![q.item] = n]
      /\ UNCHANGED <<strategy, dirty, stored, acked, epoch>>
      /\ Continue(a, r, exposed)
      /\ LockIsFree
    BY <1>1, <1>3, <1>4 DEF Set
<1>7. /\ cached \in [Items -> Nat] /\ stored \in [Items -> Nat] /\ dirty \in SUBSET Items
      /\ clock \in Nat /\ epoch \in Nat /\ exposed \in SUBSET Items
    BY Known
<1>8. WriteBack' = WriteBack /\ \A v : Owed(v)' = Owed(v)
    BY <1>6 DEF WriteBack, Owed
<1>9. Doomed' \subseteq Doomed /\ exposed \subseteq exposed'
    <2>1. r.pc \notin Flushing
        BY <1>5 DEF Flushing
    <2> QED BY <1>6, <2>1, StaysDoomed DEF Continue
<1>10. ASSUME NEW i \in Items, NEW v \in 0..clock, Owed(v) <= cached[i] PROVE Owed(v) <= cached'[i]
    <2>1. Owed(v) \in Nat /\ Owed(v) <= n
        BY <1>3, OwedIs
    <2>2. cached'[i] = n \/ cached'[i] = cached[i]
        BY <1>6, <1>7
    <2> QED BY <1>10, <2>1, <2>2
<1>11. ASSUME NEW i \in Items, NEW v \in 0..clock
       PROVE  (Safe(i, v) => Safe(i, v)') /\ (InCache(i, v) => InCache(i, v)')
    <2>1. Owed(v) <= cached[i] => Owed(v) <= cached'[i]
        BY <1>10
    <2>2. Safe(i, v) => Safe(i, v)'
        BY <1>2, <1>6, <1>8, <1>9, <2>1 DEF Safe
    <2>3. InCache(i, v) => InCache(i, v)'
        BY <1>8, <1>9, <2>1 DEF InCache
    <2> QED BY <2>2, <2>3
<1>12. RequestOK(r, clock')
    <2>1. r.version <= clock'
        BY <1>3, <1>5
    <2> QED BY <1>2, <1>5, <2>1 DEF RequestOK, ItemPoints, WritePoints, Flushing
<1>13. RequestKept(r)'
    <2>1. Owed(n)' <= n /\ cached'[q.item] = n
        BY <1>2, <1>6, <1>7, <1>8, OwedIs
    <2>2. InCache(q.item, n)'
        BY <2>1 DEF InCache
    <2> QED BY <1>3, <1>5, <2>2 DEF RequestKept, Written
<1>14. \A b \in Actors : req[b].pc # "sadd"
    BY <1>6 DEF LockIsFree, Locked
<1>15. /\ cached' \in [Items -> Nat] /\ stored' \in [Items -> Nat] /\ dirty' \in SUBSET Items
       /\ clock' \in Nat /\ epoch' \in Nat /\ clock <= clock'
       /\ ~WriteBack => dirty' = {}
       /\ UNCHANGED <<strategy, acked>>
    BY <1>2, <1>3, <1>6, <1>7
<1> QED BY <1>6, <1>7, <1>11, <1>12, <1>13, <1>14, <1>15, ContinueStep

(* Under the lock no flush is about to call anything clean: the item is     *)
(* dirty from here on, and what the cache holds of it is kept.              *)
LEMMA SAddInv == ASSUME CacheInv, NEW a \in Actors, SAdd(a) PROVE CacheInv'
<1>1. PICK q \in RequestState : q = req[a] /\ RequestOK(q, clock) /\ RequestKept(q) /\ q.pc = "sadd"
    BY Known DEF SAdd
<1>2. /\ q.item \in Items /\ q.op = "write" /\ WriteBack
      /\ q.version = clock /\ InCache(q.item, clock) /\ clock \in Nat
    BY <1>1, Known DEF RequestOK, ItemPoints, WritePoints, RequestKept
<1>3. PICK r \in RequestState : r = [q EXCEPT !.pc = "scard"]
    BY FieldType DEF ProgramPoints
<1>4. r.pc = "scard" /\ r.op = "write" /\ r.item = q.item /\ r.version = q.version
    BY <1>2, <1>3 DEF RequestState
<1> DEFINE damage == IF cached[q.item] = q.version THEN exposed \ {q.item} ELSE exposed
<1>5. /\ dirty' = dirty \cup {q.item}
      /\ UNCHANGED <<strategy, cached, stored, clock, acked, epoch>>
      /\ Continue(a, r, damage)
    BY <1>1, <1>3 DEF SAdd
<1>6. /\ cached \in [Items -> Nat] /\ stored \in [Items -> Nat] /\ dirty \in SUBSET Items
      /\ epoch \in Nat /\ exposed \in SUBSET Items
    BY Known
<1>7. damage \in SUBSET Items /\ damage \subseteq exposed'
    BY <1>5, <1>6 DEF Continue
<1>8. WriteBack' = WriteBack /\ \A v : Owed(v)' = Owed(v)
    BY <1>5 DEF WriteBack, Owed
<1>9. Doomed' = {}
    <2>1. Doomed = {}
        <3>1. \A b \in Actors : req[b].pc \in Locked => b = a
            BY <1>1 DEF CacheInv, CacheTypeOK, Locked
        <3>2. \A b \in Actors : req[b].pc \notin Flushing
            BY <1>1, <3>1 DEF Locked, Flushing
        <3> QED BY <3>2 DEF Doomed
    <2>2. r.pc \notin Flushing
        BY <1>4 DEF Flushing
    <2> QED BY <1>5, <2>1, <2>2, StaysDoomed
<1>10. ASSUME NEW i \in Items, NEW v \in 0..clock, InCache(i, v)
       PROVE  i \in exposed' \/ Owed(v) <= cached[i]
    <2>1. CASE i \in damage
        BY <1>7, <2>1
    <2>2. CASE i \notin damage /\ i \notin exposed
        BY <1>10, <2>2 DEF InCache
    <2>3. CASE i \notin damage /\ i \in exposed
        <3>1. i = q.item /\ cached[i] = clock
            BY <1>2, <2>3
        <3> QED BY <3>1, OwedIs
    <2> QED BY <2>1, <2>2, <2>3
<1>11. ASSUME NEW i \in Items, NEW v \in 0..clock PROVE InCache(i, v) => InCache(i, v)'
    BY <1>5, <1>8, <1>10 DEF InCache
<1>12. ASSUME NEW i \in Items, NEW v \in 0..clock, Safe(i, v) PROVE Safe(i, v)'
    <2>1. i \in exposed' \/ Owed(v) <= cached[i]
        BY <1>2, <1>10, <1>12 DEF Safe, InCache
    <2>2. i \in dirty' \/ Owed(v) <= stored[i] \/ i \in exposed'
        <3>1. CASE i = q.item
            BY <1>5, <3>1
        <3>2. CASE i # q.item
            <4>1. i \in exposed => i \in exposed'
                BY <1>7, <3>2
            <4> QED BY <1>2, <1>5, <1>12, <4>1 DEF Safe
        <3> QED BY <3>1, <3>2
    <2> QED BY <1>2, <1>5, <1>8, <1>9, <2>1, <2>2 DEF Safe
<1> HIDE DEF damage
<1>13. RequestOK(r, clock')
    BY <1>1, <1>2, <1>4, <1>5 DEF RequestOK, ItemPoints, WritePoints, Flushing
<1>14. RequestKept(r)'
    <2>1. q.item \in exposed' \/ Owed(clock) <= cached[q.item]
        BY <1>2, <1>10
    <2>2. Safe(q.item, q.version)'
        BY <1>2, <1>5, <1>8, <1>9, <2>1 DEF Safe
    <2> QED BY <1>4, <2>2 DEF RequestKept
<1>15. r.pc \in Locked => req[a].pc \in Locked
    BY <1>1 DEF Locked
<1>16. /\ cached' \in [Items -> Nat] /\ stored' \in [Items -> Nat] /\ dirty' \in SUBSET Items
       /\ clock' \in Nat /\ epoch' \in Nat /\ clock <= clock' /\ clock' = clock
       /\ ~WriteBack => dirty' = {}
       /\ UNCHANGED <<strategy, acked>>
    BY <1>2, <1>5, <1>6
<1> QED BY <1>5, <1>7, <1>11, <1>12, <1>13, <1>14, <1>15, <1>16, ContinueStep

(* The request of a flush after an id has been counted as flushed.          *)
LEMMA FlushedIs ==
    ASSUME NEW q \in RequestState, q.ids # {}, q.pc \in {"fget", "fupsert"}, q.op # "write",
           WriteBack, NEW c
    PROVE  /\ Min(q.ids) \in q.ids /\ Min(q.ids) \in Items
           /\ RequestOK(Flushed(q), c) /\ RequestKept(Flushed(q))
           /\ Flushed(q).done = q.done \cup {Min(q.ids)}
           /\ Flushed(q).pc \in {"fget", "srem"}
           /\ Flushed(q).op = q.op
<1>1. q.ids \in SUBSET Items /\ q.ids \in SUBSET Nat /\ q.done \in SUBSET Items
    BY CacheAssumption DEF RequestState, CacheAssumption
<1>2. PICK i \in q.ids : i = Min(q.ids)
    BY <1>1, MinIsMember
<1>3. PICK pc \in {"fget", "srem"} : pc = IF q.ids = {i} THEN "srem" ELSE "fget"
    OBVIOUS
<1>4. PICK S \in SUBSET Items : S = q.ids \ {i}
    BY <1>1
<1>5. PICK T \in SUBSET Items : T = q.done \cup {i}
    BY <1>1, <1>2
<1>6. PICK f \in RequestState : f = [q EXCEPT !.ids = S, !.done = T, !.pc = pc]
    <2>1. pc \in ProgramPoints
        BY <1>3 DEF ProgramPoints
    <2> QED BY <2>1, FieldsType
<1>7. f = Flushed(q)
    BY <1>2, <1>3, <1>4, <1>5, <1>6 DEF Flushed
<1>8. f.ids = S /\ f.done = T /\ f.pc = pc /\ f.op = q.op
    BY <1>6 DEF RequestState
<1>9. f.pc = "fget" => f.ids # {}
    BY <1>2, <1>3, <1>4, <1>8
<1>10. RequestOK(f, c)
    BY <1>3, <1>8, <1>9 DEF RequestOK, ItemPoints, WritePoints, Flushing
<1>11. RequestKept(f)
    BY <1>3, <1>8 DEF RequestKept
<1> QED BY <1>1, <1>2, <1>3, <1>5, <1>7, <1>8, <1>10, <1>11

(* A flush of an id reads the cache.  An item that is not there is called   *)
(* clean: what was owed of it is gone with a reset.                         *)
LEMMA FGetInv == ASSUME CacheInv, NEW a \in Actors, FGet(a) PROVE CacheInv'
<1>1. PICK q \in RequestState : q = req[a] /\ RequestOK(q, clock) /\ q.pc = "fget"
    BY Known DEF FGet
<1>2. q.op # "write" /\ q.ids # {} /\ WriteBack
    BY <1>1 DEF RequestOK, WritePoints, Flushing
<1>3. PICK i \in Items : i = Min(q.ids)
    BY <1>1, <1>2, FlushedIs
<1>4. UNCHANGED <<strategy, data, acked, epoch>>
    BY DEF FGet
<1>5. CASE cached[i] # Absent /\ Continue(a, [q EXCEPT !.pc = "fupsert", !.version = cached[i]], exposed)
    <2>1. PICK n \in Nat : n = cached[i]
        BY Known
    <2>2. PICK r \in RequestState : r = [q EXCEPT !.pc = "fupsert", !.version = n]
        BY FieldsType DEF ProgramPoints
    <2>3. r.pc = "fupsert" /\ r.op = q.op /\ r.ids = q.ids /\ r.done = q.done
        BY <2>2 DEF RequestState
    <2>4. Continue(a, r, exposed)
        BY <1>5, <2>1, <2>2
    <2>5. Doomed' \subseteq Doomed
        <3>1. q.done \subseteq Doomed
            BY <1>1 DEF Doomed, Flushing
        <3> QED BY <2>3, <2>4, <3>1, ContinueDooms
    <2>6. exposed \subseteq exposed'
        BY <2>4 DEF Continue
    <2>7. /\ \A j \in Items, v \in 0..clock : Safe(j, v) => Safe(j, v)'
          /\ \A j \in Items, v \in 0..clock : InCache(j, v) => InCache(j, v)'
        BY <1>4, <2>5, <2>6, QuietKeeps
    <2>8. RequestOK(r, clock')
        BY <1>2, <2>3 DEF RequestOK, ItemPoints, WritePoints, Flushing
    <2>9. RequestKept(r)'
        BY <1>2, <2>3 DEF RequestKept
    <2>10. r.pc \in Locked => req[a].pc \in Locked
        BY <1>1 DEF Locked
    <2>11. /\ cached' \in [Items -> Nat] /\ stored' \in [Items -> Nat] /\ dirty' \in SUBSET Items
           /\ clock' \in Nat /\ epoch' \in Nat /\ clock' = clock /\ clock <= clock'
           /\ ~WriteBack => dirty' = {}
        BY <1>2, <1>4, Known DEF data
    <2>12. exposed \in SUBSET Items
        BY Known
    <2> QED BY <1>4, <2>4, <2>7, <2>8, <2>9, <2>10, <2>11, <2>12, ContinueStep
<1>6. CASE cached[i] = Absent /\ Continue(a, Flushed(q), exposed)
    <2>1. PICK r : r = Flushed(q)
        OBVIOUS
    <2>2. /\ \A c : RequestOK(r, c)
          /\ r.done = q.done \cup {i} /\ r.pc \in {"fget", "srem"} /\ r.op = q.op
        BY <1>1, <1>2, <1>3, <2>1, FlushedIs
    <2>3. Continue(a, r, exposed)
        BY <1>6, <2>1
    <2>4. Doomed' \subseteq Doomed \cup {i}
        <3>1. q.done \subseteq Doomed
            BY <1>1 DEF Doomed, Flushing
        <3>2. r.done \subseteq Doomed \cup {i}
            BY <2>2, <3>1
        <3>3. Doomed' \subseteq Doomed \cup (Doomed \cup {i})
            BY <2>3, <3>2, ContinueDooms
        <3> QED BY <3>3
    <2>5. exposed \subseteq exposed'
        BY <2>3 DEF Continue
    <2>6. /\ UNCHANGED <<cached, stored, dirty, clock>>
          /\ WriteBack' = WriteBack /\ \A v : Owed(v)' = Owed(v)
        BY <1>4 DEF WriteBack, Owed, data
    <2>7. ASSUME NEW j \in Items, NEW v \in 0..clock, Safe(j, v) PROVE Safe(j, v)'
        <3>1. CASE j = i /\ j \notin exposed
            <4>1. Owed(v) <= 0
                BY <1>2, <1>6, <2>7, <3>1 DEF Safe, Absent
            <4>2. Owed(v) = 0 /\ stored[j] \in Nat
                BY <4>1, OwedIs, Known
            <4>3. Owed(v) <= stored[j] /\ Owed(v) <= cached[j]
                BY <1>6, <3>1, <4>2 DEF Absent
            <4> QED BY <1>2, <2>6, <4>3 DEF Safe
        <3>2. CASE j # i
            BY <1>2, <2>4, <2>5, <2>6, <2>7, <3>2 DEF Safe
        <3>3. CASE j \in exposed
            BY <1>2, <2>5, <2>6, <3>3 DEF Safe
        <3> QED BY <3>1, <3>2, <3>3
    <2>8. ASSUME NEW j \in Items, NEW v \in 0..clock PROVE InCache(j, v) => InCache(j, v)'
        BY <2>5, <2>6 DEF InCache
    <2>9. RequestKept(r)'
        BY <1>2, <2>2 DEF RequestKept
    <2>10. r.pc \in Locked => req[a].pc \in Locked
        BY <1>1 DEF Locked
    <2>11. /\ cached' \in [Items -> Nat] /\ stored' \in [Items -> Nat] /\ dirty' \in SUBSET Items
           /\ clock' \in Nat /\ epoch' \in Nat /\ clock' = clock /\ clock <= clock'
           /\ ~WriteBack => dirty' = {}
        BY <1>2, <1>4, Known DEF data
    <2>12. exposed \in SUBSET Items
        BY Known
    <2> QED BY <1>4, <2>2, <2>3, <2>7, <2>8, <2>9, <2>10, <2>11, <2>12, ContinueStep
<1>7. \/ cached[i] # Absent /\ Continue(a, [q EXCEPT !.pc = "fupsert", !.version = cached[i]], exposed)
      \/ cached[i] = Absent /\ Continue(a, Flushed(q), exposed)
    BY <1>1, <1>3 DEF FGet
<1> QED BY <1>5, <1>6, <1>7

(* The version goes to the table.  The cache still has it, or has lost the  *)
(* item to a reset, or the item is exposed.                                 *)
LEMMA FUpsertInv == ASSUME CacheInv, NEW a \in Actors, FUpsert(a) PROVE CacheInv'
<1>1. PICK q \in RequestState : q = req[a] /\ RequestOK(q, clock) /\ q.pc = "fupsert"
    BY Known DEF FUpsert
<1>2. q.op # "write" /\ q.ids # {} /\ WriteBack /\ q.version \in Nat
    BY <1>1 DEF RequestOK, WritePoints, Flushing, RequestState
<1>3. PICK i \in Items : i = Min(q.ids)
    BY <1>1, <1>2, FlushedIs
<1>4. PICK r : r = Flushed(q)
    OBVIOUS
<1>5. /\ \A c : RequestOK(r, c)
      /\ r.done = q.done \cup {i} /\ r.pc \in {"fget", "srem"} /\ r.op = q.op
    BY <1>1, <1>2, <1>3, <1>4, FlushedIs
<1> DEFINE damage == IF cached[i] \in {Absent, q.version} THEN exposed ELSE exposed \cup {i}
<1>6. /\ stored' = [stored EXCEPT ![i] = q.version]
      /\ UNCHANGED <<strategy, cached, dirty, clock, acked, epoch>>
      /\ Continue(a, r, damage)
    BY <1>1, <1>3, <1>4 DEF FUpsert
<1>7. /\ cached \in [Items -> Nat] /\ stored \in [Items -> Nat] /\ dirty \in SUBSET Items
      /\ clock \in Nat /\ epoch \in Nat /\ exposed \in SUBSET Items
    BY Known
<1>8. /\ damage \in SUBSET Items /\ damage \subseteq exposed' /\ exposed \subseteq exposed'
      /\ i \in exposed' \/ cached[i] = Absent \/ cached[i] = q.version
    BY <1>6, <1>7 DEF Continue
<1> HIDE DEF damage
<1>9. Doomed' \subseteq Doomed \cup {i}
    <2>1. q.done \subseteq Doomed
        BY <1>1 DEF Doomed, Flushing
    <2>2. r.done \subseteq Doomed \cup {i}
        BY <1>5, <2>1
    <2>3. Doomed' \subseteq Doomed \cup (Doomed \cup {i})
        BY <1>6, <2>2, ContinueDooms
    <2> QED BY <2>3
<1>10. WriteBack' = WriteBack /\ \A v : Owed(v)' = Owed(v)
    BY <1>6 DEF WriteBack, Owed
<1>11. ASSUME NEW j \in Items, NEW v \in 0..clock, Safe(j, v) PROVE Safe(j, v)'
    <2>1. CASE j \in exposed'
        BY <1>2, <1>10, <2>1 DEF Safe
    <2>2. CASE j = i /\ j \notin exposed'
        <3>1. Owed(v) <= cached[i]
            BY <1>2, <1>8, <1>11, <2>2 DEF Safe
        <3>2. stored'[i] = q.version
            BY <1>6, <1>7
        <3>3. Owed(v) <= stored'[i]
            <4>1. CASE cached[i] = q.version
                BY <3>1, <3>2, <4>1
            <4>2. CASE cached[i] = Absent
                <5>1. Owed(v) = 0
                    BY <3>1, <4>2, OwedIs DEF Absent
                <5> QED BY <1>2, <3>2, <5>1
            <4> QED BY <1>8, <2>2, <4>1, <4>2
        <3> QED BY <1>2, <1>6, <1>10, <2>2, <3>1, <3>3 DEF Safe
    <2>3. CASE j # i /\ j \notin exposed'
        <3>1. stored'[j] = stored[j]
            BY <1>6, <1>7, <2>3
        <3> QED BY <1>2, <1>6, <1>8, <1>9, <1>10, <1>11, <2>3, <3>1 DEF Safe
    <2> QED BY <2>1, <2>2, <2>3
<1>12. ASSUME NEW j \in Items, NEW v \in 0..clock PROVE InCache(j, v) => InCache(j, v)'
    BY <1>6, <1>8, <1>10 DEF InCache
<1>13. RequestKept(r)'
    BY <1>2, <1>5 DEF RequestKept
<1>14. r.pc \in Locked => req[a].pc \in Locked
    BY <1>1 DEF Locked
<1>15. /\ cached' \in [Items -> Nat] /\ stored' \in [Items -> Nat] /\ dirty' \in SUBSET Items
       /\ clock' \in Nat /\ epoch' \in Nat /\ UNCHANGED <<strategy, acked>>
    BY <1>2, <1>6, <1>7
<1>16. /\ clock' = clock /\ clock <= clock'
       /\ ~WriteBack => dirty' = {}
    BY <1>2, <1>6, <1>7
<1> QED BY <1>5, <1>6, <1>8, <1>11, <1>12, <1>13, <1>14, <1>15, <1>16, ContinueStep

(* The end of a flush removes what it was about to call clean.              *)
LEMMA SRemInv == ASSUME CacheInv, NEW a \in Actors, SRem(a) PROVE CacheInv'
<1>1. PICK q \in RequestState : q = req[a] /\ RequestOK(q, clock) /\ q.pc = "srem"
    BY Known DEF SRem
<1>2. q.op # "write" /\ WriteBack
    BY <1>1 DEF RequestOK, WritePoints, Flushing
<1>3. PICK r : r = Returned(a)
    OBVIOUS
<1>4. RequestOK(r, clock) /\ RequestKept(r)' /\ r.pc \notin Locked \cup Flushing
    <2>1. CASE r = Idle
        BY <2>1, IdleOK DEF RequestKept, Idle
    <2>2. CASE r = [q EXCEPT !.pc = "answered", !.ids = {}, !.done = {}]
        <3>1. r \in RequestState
            BY <2>2, FieldsType DEF ProgramPoints
        <3>2. r.pc = "answered" /\ r.op = q.op
            BY <2>2 DEF RequestState
        <3> QED BY <1>2, <3>1, <3>2
                DEF RequestOK, RequestKept, ItemPoints, WritePoints, Flushing, Locked
    <2> QED BY <1>1, <1>3, <2>1, <2>2 DEF Returned
<1>5. /\ dirty' = dirty \ q.done
      /\ UNCHANGED <<strategy, cached, stored, clock, acked, epoch>>
      /\ Continue(a, r, exposed)
    BY <1>1, <1>3 DEF SRem
<1>6. /\ cached \in [Items -> Nat] /\ stored \in [Items -> Nat] /\ dirty \in SUBSET Items
      /\ clock \in Nat /\ epoch \in Nat /\ exposed \in SUBSET Items
    BY Known
<1>7. Doomed' \subseteq Doomed /\ q.done \subseteq Doomed /\ exposed \subseteq exposed'
    <2>1. Doomed' \subseteq Doomed
        BY <1>4, <1>5, StaysDoomed
    <2>2. q.done \subseteq Doomed
        BY <1>1 DEF Doomed, Flushing
    <2> QED BY <1>5, <2>1, <2>2 DEF Continue
<1>8. dirty \ Doomed \subseteq dirty' \ Doomed'
    BY <1>5, <1>7
<1>9. WriteBack' = WriteBack /\ \A v : Owed(v)' = Owed(v)
    BY <1>5 DEF WriteBack, Owed
<1>10. ASSUME NEW i \in Items, NEW v \in 0..clock
       PROVE  (Safe(i, v) => Safe(i, v)') /\ (InCache(i, v) => InCache(i, v)')
    <2>1. Safe(i, v) => Safe(i, v)'
        BY <1>2, <1>5, <1>7, <1>8, <1>9 DEF Safe
    <2>2. InCache(i, v) => InCache(i, v)'
        BY <1>5, <1>7, <1>9 DEF InCache
    <2> QED BY <2>1, <2>2
<1>11. /\ cached' \in [Items -> Nat] /\ stored' \in [Items -> Nat] /\ dirty' \in SUBSET Items
       /\ clock' \in Nat /\ epoch' \in Nat /\ UNCHANGED <<strategy, acked>>
    BY <1>5, <1>6
<1>12. /\ clock' = clock /\ clock <= clock' /\ RequestOK(r, clock')
       /\ ~WriteBack => dirty' = {}
    BY <1>2, <1>4, <1>5, <1>6
<1> QED BY <1>4, <1>5, <1>6, <1>10, <1>11, <1>12, ContinueStep

-----------------------------------------------------------------------------
(* A reset: nothing acknowledged before it counts any more.                 *)
LEMMA ResetInv ==
    ASSUME CacheInv, NEW a \in Actors, Clear(a) \/ Truncate(a)
    PROVE  CacheInv'
<1>1. PICK q \in RequestState : q = req[a] /\ RequestOK(q, clock) /\ q.pc \in {"clear", "truncate"}
    BY Known DEF Clear, Truncate
<1>2. q.op # "write"
    BY <1>1 DEF RequestOK, WritePoints
<1>3. PICK pc \in {"truncate", "answered"}, damage \in SUBSET Items :
        Continue(a, [q EXCEPT !.pc = pc], damage)
    <2>1. Incoherent(cached, stored', dirty \ UNION {req[b].done : b \in Actors}) \subseteq Items
        BY DEF Incoherent
    <2>2. exposed \subseteq Items
        BY Known
    <2>3. CASE Clear(a)
        BY <1>1, <2>3 DEF Clear
    <2>4. CASE Truncate(a)
        BY <1>1, <2>1, <2>2, <2>4 DEF Truncate
    <2> QED BY <2>3, <2>4
<1>4. PICK r \in RequestState : r = [q EXCEPT !.pc = pc]
    <2>1. pc \in ProgramPoints
        BY <1>3 DEF ProgramPoints
    <2> QED BY <2>1, FieldType
<1>5. r.pc = pc /\ r.op = q.op
    BY <1>4 DEF RequestState
<1>6. \A c : RequestOK(r, c)
    BY <1>2, <1>3, <1>5 DEF RequestOK, ItemPoints, WritePoints, Flushing
<1>7. RequestKept(r)' /\ r.pc \notin Locked
    BY <1>2, <1>3, <1>5 DEF RequestKept, Locked
<1>8. /\ cached \in [Items -> Nat] /\ stored \in [Items -> Nat] /\ dirty \in SUBSET Items
      /\ clock \in Nat
      /\ ~WriteBack => dirty = {}
    BY Known
<1>9. /\ cached' \in {cached, [i \in Items |-> Absent]}
      /\ stored' \in {stored, [i \in Items |-> Seed]}
      /\ dirty' \in {dirty, {}}
    BY DEF Clear, Truncate
<1>10. epoch' = clock /\ clock' = clock /\ UNCHANGED <<strategy, acked>>
    BY DEF Clear, Truncate
<1>11. /\ cached' \in [Items -> Nat] /\ stored' \in [Items -> Nat]
       /\ dirty' \in SUBSET Items /\ (~WriteBack => dirty' = {})
    BY <1>8, <1>9 DEF Absent, Seed
<1>12. clock' \in Nat /\ epoch' \in Nat /\ clock <= clock'
    BY <1>8, <1>10
<1>13. ASSUME NEW i \in Items, NEW v \in 0..clock PROVE Safe(i, v)' /\ InCache(i, v)'
    <2>1. Owed(v)' = 0
        BY <1>8, <1>10 DEF Owed, Absent
    <2>2. 0 <= cached'[i] /\ 0 <= stored'[i]
        BY <1>11
    <2> QED BY <2>1, <2>2 DEF Safe, InCache
<1> QED BY <1>3, <1>4, <1>6, <1>7, <1>10, <1>11, <1>12, <1>13, ContinueStep

-----------------------------------------------------------------------------
(* A command that has no effect and fails is a step that changes nothing.   *)
LEMMA RefusedInv == ASSUME CacheInv, NEW a \in Actors, Refused(a) PROVE CacheInv'
<1>1. UNCHANGED <<strategy, data, acked, epoch>>
    BY DEF Refused
<1>2. Continue(a, Idle, exposed)
    <2>1. cached' = cached /\ stored' = stored /\ dirty' = dirty
        BY <1>1 DEF data
    <2>2. Abort(a) /\ exposed' = exposed \cup Incoherent(cached, stored, dirty)
        BY DEF Refused
    <2> QED BY <2>1, <2>2 DEF Continue
<1>3. RequestOK(Idle, clock) /\ RequestKept(Idle) /\ Idle.pc \notin Locked \cup Flushing \cup {"sadd"}
    BY IdleOK
<1> QED BY <1>1, <1>2, <1>3, QuietStep

(* A request that begins or ends while the data stay.                       *)
LEMMA DataKept ==
    ASSUME CacheInv, NEW a \in Actors, NEW q, RequestOK(q, clock), RequestKept(q),
           q.pc \notin Locked \cup Flushing \cup {"sadd"},
           req' = [req EXCEPT ![a] = q],
           UNCHANGED <<strategy, data, epoch, exposed, failures>>,
           acked' \in [Items -> Nat],
           \A i \in Items : acked'[i] <= clock /\ Safe(i, acked'[i])
    PROVE  CacheInv'
<1>1. Doomed' \subseteq Doomed
    <2>1. Doomed' \subseteq Doomed \cup {}
        BY Known, DoomedStep
    <2> QED BY <2>1
<1>2. /\ \A i \in Items, v \in 0..clock : Safe(i, v) => Safe(i, v)'
      /\ \A i \in Items, v \in 0..clock : InCache(i, v) => InCache(i, v)'
    BY <1>1, QuietKeeps
<1>3. UNCHANGED <<cached, stored, dirty, clock>>
    BY DEF data
<1>4. /\ cached' \in [Items -> Nat] /\ stored' \in [Items -> Nat] /\ dirty' \in SUBSET Items
      /\ clock' \in Nat /\ epoch' \in Nat /\ exposed' \in SUBSET Items
    BY <1>3, Known
<1>5. failures' \in 0..CacheFaults
    BY DEF CacheInv, CacheTypeOK
<1>6. /\ clock' = clock /\ clock <= clock' /\ RequestOK(q, clock')
      /\ ~WriteBack => dirty' = {}
    BY <1>3, Known
<1>7. RequestKept(q)'
    <2>1. ASSUME q.op = "write", q.pc \in Written PROVE Safe(q.item, q.version)'
        <3>1. q.item \in Items /\ q.version \in 0..clock
            BY <2>1, Known DEF RequestOK, RequestState
        <3>2. Safe(q.item, q.version)
            BY <2>1 DEF RequestKept
        <3> QED BY <1>2, <3>1, <3>2
    <2> QED BY <2>1 DEF RequestKept
<1> QED BY <1>2, <1>4, <1>5, <1>6, <1>7, RequestStep

(* The flush task wakes.                                                    *)
LEMMA WakeInv == ASSUME CacheInv, Wake PROVE CacheInv'
<1>1. PICK q : q = [Idle EXCEPT !.op = "flush", !.pc = "smembers"]
    OBVIOUS
<1>2. /\ WriteBack /\ req' = [req EXCEPT ![FlushTask] = q]
      /\ UNCHANGED <<strategy, data, acked, epoch, exposed, failures>>
    BY <1>1 DEF Wake
<1>3. q.pc = "smembers" /\ q.op = "flush" /\ q.done = {} /\ q \in RequestState
    BY <1>1 DEF Idle, RequestState, Ops, ProgramPoints, Absent
<1>4. RequestOK(q, clock) /\ RequestKept(q) /\ q.pc \notin Locked \cup Flushing \cup {"sadd"}
    BY <1>2, <1>3 DEF RequestOK, RequestKept, ItemPoints, WritePoints, Flushing, Locked
<1>5. FlushTask \in Actors
    BY DEF Actors
<1>6. acked' \in [Items -> Nat] /\ \A i \in Items : acked'[i] <= clock /\ Safe(i, acked'[i])
    BY <1>2 DEF CacheInv, CacheTypeOK
<1> QED BY <1>2, <1>4, <1>5, <1>6, DataKept

(* A request comes in.                                                      *)
LEMMA BeginInv ==
    ASSUME CacheInv, NEW t \in Threads, NEW op \in {"read", "write", "flush", "reset"},
           NEW i \in Items \cup {Absent}, op \in {"read", "write"} => i \in Items,
           Begin(t, op, i)
    PROVE  CacheInv'
<1>1. PICK n \in Nat : n = IF i = Absent THEN Absent ELSE acked[i]
    BY Known DEF CacheInv, CacheTypeOK, Absent
<1>2. PICK pc : pc = FirstPoint(op)
    OBVIOUS
<1>3. /\ op = "read" => pc = "get"
      /\ op = "write" => pc = IF WriteBack THEN "set" ELSE "upsert"
      /\ op = "flush" => pc = IF WriteBack THEN "smembers" ELSE "answered"
      /\ op = "reset" => pc = "clear"
    BY <1>2 DEF FirstPoint
<1>4. PICK q : q = [Idle EXCEPT !.op = op, !.pc = pc, !.item = i, !.need = n]
    OBVIOUS
<1>5. /\ req' = [req EXCEPT ![t] = q]
      /\ UNCHANGED <<strategy, data, acked, epoch, exposed, failures>>
    BY <1>1, <1>2, <1>4 DEF Begin
<1>6. q.op = op /\ q.pc = pc /\ q.item = i /\ q.version = 0 /\ q.done = {} /\ q.ids = {} /\ q.need = n
    BY <1>4 DEF Idle, Absent
<1>7. pc \in {"get", "set", "upsert", "smembers", "answered", "clear"}
    BY <1>3
<1>8. q \in RequestState
    <2>1. q = [op |-> op, pc |-> pc, item |-> i, version |-> 0, ids |-> {}, done |-> {}, need |-> n]
        BY <1>4 DEF Idle, Absent
    <2>2. pc \in ProgramPoints /\ op \in Ops
        BY <1>7 DEF ProgramPoints, Ops
    <2> QED BY <1>1, <2>1, <2>2 DEF RequestState
<1>9. RequestOK(q, clock)
    <2>1. clock \in Nat
        BY DEF CacheInv, CacheTypeOK
    <2>2. /\ pc \in ItemPoints => i \in Items
          /\ pc \in WritePoints => op = "write"
          /\ op = "write" => pc \in WritePoints /\ i \in Items
          /\ WriteBack => pc # "upsert"
          /\ ~WriteBack => pc \notin {"set", "smembers"}
        BY <1>3 DEF ItemPoints, WritePoints
    <2> QED BY <1>6, <1>7, <1>8, <2>1, <2>2 DEF RequestOK, Flushing
<1>10. RequestKept(q)
    <2>1. op = "write" => pc \in {"set", "upsert"}
        BY <1>3
    <2> QED BY <1>6, <1>7, <2>1 DEF RequestKept, Written
<1>11. q.pc \notin Locked \cup Flushing \cup {"sadd"}
    BY <1>6, <1>7 DEF Locked, Flushing
<1>12. t \in Actors
    BY DEF Actors
<1>13. acked' \in [Items -> Nat] /\ \A j \in Items : acked'[j] <= clock /\ Safe(j, acked'[j])
    BY <1>5 DEF CacheInv, CacheTypeOK
<1> QED BY <1>5, <1>9, <1>10, <1>11, <1>12, <1>13, DataKept

(* A request is answered: what its client may rely on now is kept.          *)
LEMMA ReplyInv ==
    ASSUME CacheInv, NEW t \in Threads, NEW heard, Reply(t, heard)
    PROVE  CacheInv'
<1>1. t \in Actors
    BY DEF Actors
<1>2. PICK q \in RequestState : q = req[t] /\ RequestOK(q, clock) /\ RequestKept(q)
    BY <1>1, Known
<1>3. PICK i : i = Idle
    OBVIOUS
<1>4. RequestOK(i, clock) /\ RequestKept(i) /\ i.pc \notin Locked \cup Flushing \cup {"sadd"}
    BY <1>3, IdleOK
<1>5. /\ req' = [req EXCEPT ![t] = i]
      /\ UNCHANGED <<strategy, data, epoch, exposed, failures>>
      /\ \/ acked' = acked
         \/ q.op = "write" /\ q.pc = "answered" /\ acked' = [acked EXCEPT ![q.item] = q.version]
    BY <1>2, <1>3 DEF Reply
<1>6. acked \in [Items -> Nat] /\ \A j \in Items : acked[j] <= clock /\ Safe(j, acked[j])
    BY DEF CacheInv, CacheTypeOK
<1>7. acked' \in [Items -> Nat] /\ \A j \in Items : acked'[j] <= clock /\ Safe(j, acked'[j])
    <2>1. CASE acked' = acked
        BY <1>6, <2>1
    <2>2. CASE q.op = "write" /\ q.pc = "answered" /\ acked' = [acked EXCEPT ![q.item] = q.version]
        <3>1. q.item \in Items /\ q.version \in Nat /\ q.version <= clock /\ Safe(q.item, q.version)
            BY <1>2, <2>2 DEF RequestOK, RequestKept, Written, RequestState
        <3>2. acked' \in [Items -> Nat]
            BY <1>6, <2>2, <3>1
        <3>3. ASSUME NEW j \in Items PROVE acked'[j] <= clock /\ Safe(j, acked'[j])
            <4>1. CASE j = q.item
                BY <1>6, <2>2, <3>1, <4>1
            <4>2. CASE j # q.item
                BY <1>6, <2>2, <4>2
            <4> QED BY <4>1, <4>2
        <3> QED BY <3>2, <3>3
    <2> QED BY <1>5, <2>1, <2>2
<1> QED BY <1>1, <1>4, <1>5, <1>7, DataKept

(* The process dies: no flush is under way any more, and the data stay.     *)
LEMMA RestartInv == ASSUME CacheInv, RestartService PROVE CacheInv'
<1>1. /\ req' = [b \in Actors |-> Idle]
      /\ UNCHANGED <<strategy, data, acked, epoch>>
      /\ exposed' = exposed \cup Incoherent(cached, stored, dirty)
      /\ failures < CacheFaults /\ failures' = failures + 1
    BY DEF RestartService
<1>2. UNCHANGED <<cached, stored, dirty, clock, acked, strategy, epoch>>
    BY <1>1 DEF data
<1>3. \A c : RequestOK(Idle, c) /\ RequestKept(Idle) /\ Idle.pc \notin Locked \cup Flushing \cup {"sadd"}
    BY IdleOK
<1>4. Doomed' = {}
    BY <1>1, <1>3 DEF Doomed
<1>5. /\ \A i \in Items, v \in 0..clock : Safe(i, v) => Safe(i, v)'
    <2>1. exposed \subseteq exposed' /\ Doomed' \subseteq Doomed
        BY <1>1, <1>4
    <2> QED BY <1>1, <2>1, QuietKeeps
<1>6. CacheTypeOK'
    <2>1. exposed' \subseteq Items
        BY <1>1 DEF Incoherent, CacheInv, CacheTypeOK
    <2>2. failures' \in 0..CacheFaults
        BY <1>1, CacheAssumption DEF CacheInv, CacheTypeOK, CacheAssumption
    <2>3. Idle \in RequestState /\ Idle.pc = "idle"
        BY <1>3 DEF RequestOK, Idle
    <2> QED BY <1>1, <1>2, <2>1, <2>2, <2>3 DEF CacheInv, CacheTypeOK, Locked
<1>7. ASSUME NEW b \in Actors PROVE RequestOK(req[b], clock)' /\ RequestKept(req[b])'
    <2>1. PICK i : i = Idle
        OBVIOUS
    <2>2. req'[b] = i /\ RequestOK(i, clock') /\ i.op = "none" /\ i.pc = "idle"
        BY <1>1, <1>3, <2>1 DEF Idle
    <2>3. WriteBack' = WriteBack
        BY <1>2 DEF WriteBack
    <2> QED BY <2>2, <2>3 DEF RequestOK, RequestKept
<1>8. ASSUME NEW i \in Items PROVE acked'[i] <= clock' /\ Safe(i, acked[i])'
    <2>1. acked[i] \in Nat /\ clock \in Nat /\ acked[i] <= clock /\ Safe(i, acked[i])
        BY DEF CacheInv, CacheTypeOK
    <2>2. PICK v \in 0..clock : v = acked[i] /\ Safe(i, v)
        BY <2>1
    <2>3. Safe(i, v)' /\ acked'[i] = v /\ v <= clock'
        BY <1>2, <1>5, <2>2
    <2> QED BY <2>3 DEF Safe
<1> QED BY <1>2, <1>6, <1>7, <1>8 DEF CacheInv, WriteBack

(* A step of the generator alone.                                           *)
LEMMA OutsideInv ==
    ASSUME CacheInv, UNCHANGED <<strategy, data, req, acked, epoch, exposed>>,
           failures' \in 0..CacheFaults
    PROVE  CacheInv'
BY DEF CacheInv, CacheTypeOK, data, RequestOK, RequestKept, Safe, InCache, Owed, Doomed, WriteBack

(* One command.                                                             *)
LEMMA CommandInv == ASSUME CacheInv, NEW a \in Actors, Command(a) PROVE CacheInv'
<1>1. CASE Fill(a) \/ Store(a)
    <2>1. req[a].pc \in {"fill", "store"} /\ SetRow(a)
        BY <1>1 DEF Fill, Store
    <2> QED BY <2>1, SetRowInv
<1>2. CASE Get(a) \/ Select(a)
    BY <1>2, GetInv, SelectInv
<1>3. CASE Upsert(a) \/ Evict(a)
    BY <1>3, UpsertInv, EvictInv
<1>4. CASE Set(a) \/ SAdd(a) \/ SCard(a)
    BY <1>4, SetInv, SAddInv, SCardInv
<1>5. CASE SMembers(a) \/ FGet(a) \/ FUpsert(a) \/ SRem(a)
    BY <1>5, SMembersInv, FGetInv, FUpsertInv, SRemInv
<1>6. CASE Clear(a) \/ Truncate(a)
    BY <1>6, ResetInv
<1> QED BY <1>1, <1>2, <1>3, <1>4, <1>5, <1>6 DEF Command

(* Every step of the service and of the generator keeps the invariant.      *)
LEMMA ExperimentStepInv ==
    ASSUME CacheInv, [ExperimentNext]_experimentVars
    PROVE  CacheInv'
<1>1. failures \in 0..CacheFaults
    BY DEF CacheInv, CacheTypeOK
<1>2. ASSUME failures < CacheFaults, failures' = failures + 1 PROVE failures' \in 0..CacheFaults
    BY <1>1, <1>2, CacheAssumption DEF CacheAssumption
<1>3. ASSUME NEW t \in Threads, SendReset(t) PROVE CacheInv'
    BY <1>3, BeginInv DEF SendReset
<1>4. ASSUME NEW t \in Threads, SendOperation(t) PROVE CacheInv'
    <2>1. PICK o \in {"read", "write"} \X Items : Begin(t, o[1], o[2])
        BY <1>4 DEF SendOperation, Operations
    <2>2. o[1] \in {"read", "write"} /\ o[2] \in Items
        BY <2>1
    <2> QED BY <2>1, <2>2, BeginInv
<1>5. ASSUME NEW t \in Threads, SendFlush(t) PROVE CacheInv'
    BY <1>5, BeginInv DEF SendFlush
<1>6. ASSUME NEW t \in Threads, Answer(t) PROVE CacheInv'
    <2>1. PICK heard : heard = (t \in awaited)
        OBVIOUS
    <2>2. Reply(t, heard)
        BY <1>6, <2>1 DEF Answer
    <2> QED BY <2>2, ReplyInv
<1>7. ASSUME NEW t \in Threads, GiveUp(t) PROVE CacheInv'
    BY <1>2, <1>7, OutsideInv DEF GiveUp
<1>8. ASSUME NEW a \in Actors, Serve(a) \/ Fail(a) PROVE CacheInv'
    BY <1>8, CommandInv, RefusedInv DEF Serve, Fail
<1>9. CASE WakeUp
    BY <1>9, WakeInv DEF WakeUp
<1>10. CASE BuildRow
    BY <1>1, <1>10, OutsideInv DEF BuildRow, cacheVars
<1>11. CASE Rerun
    BY <1>2, <1>11, OutsideInv DEF Rerun
<1>12. CASE ServiceRestarts
    BY <1>12, RestartInv DEF ServiceRestarts
<1>13. CASE UNCHANGED experimentVars
    BY <1>1, <1>13, OutsideInv DEF experimentVars, cacheVars
<1> QED BY <1>3, <1>4, <1>5, <1>6, <1>7, <1>8, <1>9, <1>10, <1>11, <1>12, <1>13 DEF ExperimentNext

(* In every reachable state of the service: its types, and one thread at a  *)
(* time inside the flush lock, whoever fails and whenever the process       *)
(* restarts.                                                                *)
THEOREM CacheTypeCorrect == ExperimentSpec => []CacheTypeOK
<1>1. ExperimentInit => CacheInv
    BY CacheInitInv DEF ExperimentInit
<1>2. CacheInv /\ [ExperimentNext]_experimentVars => CacheInv'
    BY ExperimentStepInv
<1>3. CacheInv => CacheTypeOK
    BY DEF CacheInv
<1> QED BY <1>1, <1>2, <1>3, PTL DEF ExperimentSpec

(* No acknowledged write is lost: for any number of items, clients, threads *)
(* and faults, the version that was acknowledged or a later one is in the   *)
(* table, or in the cache under an id that the next flush finds, unless the *)
(* item is exposed.                                                         *)
THEOREM AckedWriteKeptCorrect == ExperimentSpec => []AckedWriteKept
<1>1. ExperimentInit => CacheInv
    BY CacheInitInv DEF ExperimentInit
<1>2. CacheInv /\ [ExperimentNext]_experimentVars => CacheInv'
    BY ExperimentStepInv
<1>3. CacheInv => AckedWriteKept
    <2> SUFFICES ASSUME CacheInv, NEW i \in Items \ exposed
                 PROVE  \/ Owed(acked[i]) <= stored[i]
                        \/ i \in dirty /\ Owed(acked[i]) <= cached[i]
        BY DEF AckedWriteKept
    <2>1. Safe(i, acked[i])
        BY DEF CacheInv
    <2> QED BY <2>1 DEF Safe
<1> QED BY <1>1, <1>2, <1>3, PTL DEF ExperimentSpec
-----------------------------------------------------------------------------
(* Cache and table.                                                         *)

(* The request that is about to repair an item.                             *)
Repairs(q, i) == q.pc \in {"evict", "store", "sadd"} /\ q.item = i

(* The cache has no other version of the item than the table.               *)
Coherent(i) == cached[i] \in {Absent, stored[i]}

(* Cache and table agree on what a flush is about to call clean, so that an *)
(* item can leave the dirty set.                                            *)
AgreeInv ==
    /\ CacheInv
    /\ CacheAgrees
    /\ \A i \in Doomed \ exposed : Coherent(i)

(* An item on which cache and table need not agree yet is dirty, or being   *)
(* repaired, or exposed.                                                    *)
LEMMA AgreesIs ==
    CacheAgrees <=> \A i \in Items : \/ i \in exposed \/ Coherent(i) \/ i \in dirty
                                     \/ \E b \in Actors : Repairs(req[b], i)
BY DEF CacheAgrees, Incoherent, Coherent, Repairs

(* What a command has to show, however it ends: an item it exposes not is   *)
(* coherent, or dirty, or its own request or another repairs it; and what a *)
(* flush is about to call clean is coherent.  A command whose answer is     *)
(* lost exposes all it leaves unrepaired.                                   *)
LEMMA AgreeStep ==
    ASSUME CacheInv, NEW a \in Actors, NEW r, NEW damage, Continue(a, r, damage),
           \A i \in Items \ damage : \/ Coherent(i)' \/ i \in dirty' \/ Repairs(r, i)
                                     \/ \E b \in Actors \ {a} : Repairs(req[b], i),
           \A i \in Doomed' \ damage : Coherent(i)'
    PROVE  CacheAgrees' /\ \A i \in (Doomed \ exposed)' : Coherent(i)'
<1>1. damage \subseteq exposed'
    BY DEF Continue
<1>2. req \in [Actors -> RequestState]
    BY Known
<1>3. ASSUME NEW i \in Items, i \notin exposed'
      PROVE  Coherent(i)' \/ i \in dirty' \/ \E b \in Actors : Repairs(req'[b], i)
    <2>1. CASE req' = [req EXCEPT ![a] = r]
        <3>1. req'[a] = r /\ \A b \in Actors \ {a} : req'[b] = req[b]
            BY <1>2, <2>1
        <3>2. i \in Items \ damage
            BY <1>1, <1>3
        <3> QED BY <3>1, <3>2
    <2>2. CASE exposed' = damage \cup Incoherent(cached', stored', dirty')
        BY <1>3, <2>2 DEF Incoherent, Coherent
    <2> QED BY <2>1, <2>2 DEF Continue
<1>4. CacheAgrees'
    BY <1>3 DEF CacheAgrees, Incoherent, Coherent, Repairs
<1> QED BY <1>1, <1>4

(* A command that leaves the data alone, and in which the flush calls no    *)
(* more items clean than S, on which cache and table agree.                 *)
LEMMA QuietAgrees ==
    ASSUME AgreeInv, NEW a \in Actors, NEW r, Continue(a, r, exposed),
           UNCHANGED data, req[a].pc \notin {"evict", "store", "sadd"},
           NEW S, \A i \in S : Coherent(i), r.pc \in Flushing => r.done \subseteq Doomed \cup S
    PROVE  CacheAgrees' /\ \A i \in (Doomed \ exposed)' : Coherent(i)'
<1>1. CacheInv /\ CacheAgrees /\ \A i \in Doomed \ exposed : Coherent(i)
    BY DEF AgreeInv
<1>2. UNCHANGED <<cached, stored, dirty>>
    BY DEF data
<1>3. \A i : Coherent(i)' <=> Coherent(i)
    BY <1>2 DEF Coherent
<1>4. ASSUME NEW i \in Items \ exposed
      PROVE  Coherent(i)' \/ i \in dirty' \/ \E b \in Actors \ {a} : Repairs(req[b], i)
    <2>1. ~Repairs(req[a], i)
        BY DEF Repairs
    <2> QED BY <1>1, <1>2, <1>3, <2>1, AgreesIs
<1>5. Doomed' \subseteq Doomed \cup (Doomed \cup S)
    BY <1>1, ContinueDooms
<1>6. \A i \in Doomed' \ exposed : Coherent(i)'
    BY <1>1, <1>3, <1>5
<1> QED BY <1>1, <1>4, <1>6, AgreeStep

(* Nothing is doomed while a write holds the lock, or nobody does; and in a *)
(* strategy without a flush.                                                *)
LEMMA NothingDoomed ==
    ASSUME CacheInv, NEW a \in Actors, \/ req[a].pc \in {"sadd", "scard"} \/ LockIsFree \/ ~WriteBack
    PROVE  Doomed = {}
<1>1. CASE req[a].pc \in {"sadd", "scard"}
    <2>1. \A b \in Actors : req[b].pc \in Locked => b = a
        BY <1>1 DEF CacheInv, CacheTypeOK, Locked
    <2> QED BY <1>1, <2>1 DEF Doomed, Locked, Flushing
<1>2. CASE LockIsFree
    BY <1>2 DEF LockIsFree, Doomed, Locked, Flushing
<1>3. CASE ~WriteBack
    BY <1>3 DEF CacheInv, RequestOK, Doomed
<1> QED BY <1>1, <1>2, <1>3

(* A flush deals with items.                                                *)
LEMMA DoomedItems == CacheInv => Doomed \subseteq Items
<1> SUFFICES ASSUME CacheInv PROVE Doomed \subseteq Items
    OBVIOUS
<1>1. \A b \in Actors : req[b] \in RequestState
    BY Known
<1>2. \A b \in Actors : req[b].done \subseteq Items
    BY <1>1 DEF RequestState
<1> QED BY <1>2 DEF Doomed

(* The commands that read.                                                  *)
LEMMA ReadsAgree ==
    ASSUME AgreeInv, NEW a \in Actors, Get(a) \/ Select(a) \/ SCard(a) \/ SMembers(a)
    PROVE  CacheAgrees' /\ \A i \in (Doomed \ exposed)' : Coherent(i)'
<1>1. PICK q \in RequestState : /\ q = req[a] /\ RequestOK(q, clock)
                                /\ q.pc \in {"get", "select", "scard", "smembers"}
    <2>1. CacheInv
        BY DEF AgreeInv
    <2> QED BY <2>1, Known DEF Get, Select, SCard, SMembers
<1>2. q.pc \notin {"evict", "store", "sadd"} /\ UNCHANGED data
    BY <1>1 DEF Get, Select, SCard, SMembers
<1>3. \E r : Continue(a, r, exposed) /\ (r.pc \in Flushing => r.done = {})
    <2>1. CASE Get(a)
        <3>1. PICK r : /\ Continue(a, r, exposed)
                       /\ \/ r = [q EXCEPT !.pc = "answered", !.version = cached[q.item],
                                           !.need = Excused(q)]
                          \/ r = [q EXCEPT !.pc = "select"]
            BY <1>1, <2>1 DEF Get
        <3>2. r.pc \in {"answered", "select"}
            BY <1>1, <3>1 DEF RequestState
        <3> QED BY <3>1, <3>2 DEF Flushing
    <2>2. CASE Select(a)
        <3>1. PICK row : row = [q EXCEPT !.version = stored[q.item], !.need = Excused(q)]
            OBVIOUS
        <3>2. PICK r : /\ Continue(a, r, exposed)
                       /\ r = [row EXCEPT !.pc = "fill"] \/ r = [row EXCEPT !.pc = "failed"]
            BY <1>1, <2>2, <3>1 DEF Select
        <3>3. r.pc \in {"fill", "failed"}
            BY <1>1, <3>1, <3>2 DEF RequestState
        <3> QED BY <3>2, <3>3 DEF Flushing
    <2>3. CASE SCard(a)
        <3>1. PICK r : Continue(a, r, exposed) /\ r = [q EXCEPT !.pc = "answered"]
            BY <1>1, <2>3 DEF SCard
        <3>2. r.pc = "answered"
            BY <1>1, <3>1 DEF RequestState
        <3> QED BY <3>1, <3>2 DEF Flushing
    <2>4. CASE SMembers(a)
        <3>1. PICK r : /\ Continue(a, r, exposed)
                       /\ r \in {Idle, [q EXCEPT !.pc = "answered", !.ids = {}, !.done = {}],
                                 [q EXCEPT !.pc = "fget", !.ids = Batch(a)]}
            BY <1>1, <2>4 DEF SMembers, Returned
        <3>2. q.done = {}
            BY <1>1, <2>4 DEF SMembers, RequestOK
        <3>3. ASSUME r = Idle PROVE r.done = {}
            BY <3>1, <3>3 DEF Idle
        <3>4. ASSUME r # Idle PROVE r.done = {}
            BY <1>1, <3>1, <3>2, <3>4 DEF RequestState
        <3> QED BY <3>1, <3>3, <3>4
    <2> QED BY <2>1, <2>2, <2>3, <2>4
<1>4. PICK r : Continue(a, r, exposed) /\ (r.pc \in Flushing => r.done = {})
    BY <1>3
<1>5. PICK S : S = {}
    OBVIOUS
<1>6. (\A i \in S : Coherent(i)) /\ (r.pc \in Flushing => r.done \subseteq Doomed \cup S)
    BY <1>4, <1>5
<1>7. req[a].pc \notin {"evict", "store", "sadd"}
    BY <1>1, <1>2
<1> QED BY <1>2, <1>4, <1>6, <1>7, QuietAgrees

(* A row set in the cache: it is the version of the table, or what the      *)
(* cache had already, or the item is exposed.                               *)
LEMMA SetRowAgrees ==
    ASSUME AgreeInv, NEW a \in Actors, req[a].pc \in {"fill", "store"}, SetRow(a)
    PROVE  CacheAgrees' /\ \A i \in (Doomed \ exposed)' : Coherent(i)'
<1>1. CacheInv /\ CacheAgrees /\ \A i \in Doomed \ exposed : Coherent(i)
    BY DEF AgreeInv
<1>2. PICK q \in RequestState : q = req[a] /\ RequestOK(q, clock)
    BY <1>1, Known
<1>3. q.item \in Items /\ (WriteBack => q.pc = "fill")
    BY <1>2 DEF RequestOK, ItemPoints
<1>4. PICK r \in RequestState : r = [q EXCEPT !.pc = "answered"]
    BY <1>2, FieldType DEF ProgramPoints
<1>5. r.pc = "answered"
    BY <1>2, <1>4 DEF RequestState
<1> DEFINE damage == IF q.version # Current(q.item) THEN exposed \cup {q.item}
                     ELSE IF WriteBack THEN exposed
                     ELSE exposed \ {q.item}
<1>6. /\ cached' = [cached EXCEPT ![q.item] = q.version]
      /\ UNCHANGED <<dirty, stored>>
      /\ Continue(a, r, damage)
    BY <1>2, <1>4 DEF SetRow
<1>7. cached \in [Items -> Nat] /\ stored \in [Items -> Nat]
    BY <1>1, Known
<1>8. ASSUME NEW i \in Items, i # q.item PROVE Coherent(i)' <=> Coherent(i)
    BY <1>6, <1>7, <1>8 DEF Coherent
<1>9. ASSUME q.item \notin damage
      PROVE  \/ Coherent(q.item)'
             \/ WriteBack /\ q.item \notin exposed /\ (Coherent(q.item)' <=> Coherent(q.item))
    <2>1. q.version = Current(q.item)
        BY <1>9
    <2>2. cached'[q.item] = q.version /\ stored'[q.item] = stored[q.item]
        BY <1>3, <1>6, <1>7
    <2>3. CASE q.version = stored[q.item]
        BY <2>2, <2>3 DEF Coherent
    <2>4. CASE WriteBack /\ q.version = cached[q.item]
        BY <1>9, <2>2, <2>4 DEF Coherent
    <2> QED BY <2>1, <2>3, <2>4 DEF Current
<1>10. \A i \in Items : i # q.item => (i \in damage <=> i \in exposed)
    OBVIOUS
<1> HIDE DEF damage
<1>11. ASSUME NEW i \in Items \ damage
       PROVE  \/ Coherent(i)' \/ i \in dirty' \/ Repairs(r, i)
              \/ \E b \in Actors \ {a} : Repairs(req[b], i)
    <2>1. CASE i # q.item
        <3>1. ~Repairs(req[a], i)
            BY <1>2, <2>1 DEF Repairs
        <3> QED BY <1>1, <1>6, <1>8, <1>10, <2>1, <3>1, AgreesIs
    <2>2. CASE i = q.item /\ ~Coherent(i)'
        <3>1. q.pc = "fill" /\ i \notin exposed /\ ~Coherent(i)
            BY <1>3, <1>9, <2>2
        <3>2. ~Repairs(req[a], i)
            BY <1>2, <3>1 DEF Repairs
        <3> QED BY <1>1, <1>6, <3>1, <3>2, AgreesIs
    <2> QED BY <2>1, <2>2
<1>12. Doomed' \subseteq Doomed
    <2>1. r.pc \notin Flushing
        BY <1>5 DEF Flushing
    <2> QED BY <1>1, <1>6, <2>1, StaysDoomed
<1>13. Doomed \subseteq Items
    BY <1>1, DoomedItems
<1>14. ASSUME NEW i \in Doomed' \ damage PROVE Coherent(i)'
    <2>1. CASE i # q.item
        BY <1>1, <1>8, <1>10, <1>12, <1>13, <2>1
    <2>2. CASE i = q.item
        BY <1>1, <1>9, <1>12, <2>2
    <2> QED BY <2>1, <2>2
<1> QED BY <1>1, <1>6, <1>11, <1>14, AgreeStep

(* A write of one item of the table or the cache whose request repairs it   *)
(* next.                                                                    *)
LEMMA WriteAgrees ==
    ASSUME AgreeInv, NEW a \in Actors, Upsert(a) \/ Set(a)
    PROVE  CacheAgrees' /\ \A i \in (Doomed \ exposed)' : Coherent(i)'
<1>1. CacheInv /\ CacheAgrees
    BY DEF AgreeInv
<1>2. PICK q \in RequestState : q = req[a] /\ RequestOK(q, clock) /\ q.pc \in {"upsert", "set"}
    BY <1>1, Known DEF Upsert, Set
<1>3. q.item \in Items
    BY <1>2 DEF RequestOK, ItemPoints
<1>4. PICK n : n = clock'
    OBVIOUS
<1>5. PICK pc \in {"evict", "store", "sadd"} : Continue(a, [q EXCEPT !.pc = pc, !.version = n], exposed)
    <2>1. CASE Upsert(a)
        <3>1. Continue(a, [q EXCEPT !.pc = IF strategy = "cache_aside" THEN "evict" ELSE "store",
                                    !.version = n], exposed)
            BY <1>2, <1>4, <2>1 DEF Upsert
        <3>2. (IF strategy = "cache_aside" THEN "evict" ELSE "store") \in {"evict", "store", "sadd"}
            OBVIOUS
        <3> QED BY <3>1, <3>2
    <2>2. CASE Set(a)
        BY <1>2, <1>4, <2>2 DEF Set
    <2> QED BY <2>1, <2>2
<1>6. PICK r : r = [q EXCEPT !.pc = pc, !.version = n]
    OBVIOUS
<1>7. r.pc = pc /\ r.item = q.item
    BY <1>2, <1>6 DEF RequestState
<1>8. /\ cached' \in {cached, [cached EXCEPT ![q.item] = n]}
      /\ stored' \in {stored, [stored EXCEPT ![q.item] = n]}
      /\ dirty' = dirty
    BY <1>2, <1>4 DEF Upsert, Set
<1>9. ASSUME NEW i \in Items \ exposed
      PROVE  \/ Coherent(i)' \/ i \in dirty' \/ Repairs(r, i)
             \/ \E b \in Actors \ {a} : Repairs(req[b], i)
    <2>1. CASE i = q.item
        BY <1>7, <2>1 DEF Repairs
    <2>2. CASE i # q.item
        <3>1. cached'[i] = cached[i] /\ stored'[i] = stored[i]
            BY <1>1, <1>8, <2>2, Known
        <3>2. Coherent(i)' <=> Coherent(i)
            BY <3>1 DEF Coherent
        <3>3. ~Repairs(req[a], i)
            BY <1>2 DEF Repairs
        <3> QED BY <1>1, <1>8, <3>2, <3>3, AgreesIs
    <2> QED BY <2>1, <2>2
<1>10. Doomed' = {}
    <2>1. LockIsFree \/ ~WriteBack
        <3>1. CASE Upsert(a)
            BY <1>2, <3>1 DEF Upsert, RequestOK
        <3>2. CASE Set(a)
            BY <3>2 DEF Set
        <3> QED BY <3>1, <3>2
    <2>2. Doomed = {}
        BY <1>1, <2>1, NothingDoomed
    <2>3. r.pc \notin Flushing /\ Continue(a, r, exposed)
        BY <1>5, <1>6, <1>7 DEF Flushing
    <2> QED BY <1>1, <2>2, <2>3, StaysDoomed
<1>11. Continue(a, r, exposed)
    BY <1>5, <1>6
<1> QED BY <1>1, <1>9, <1>10, <1>11, AgreeStep

(* The repairs: cache-aside evicts the item, write-back calls it dirty.     *)
LEMMA RepairAgrees ==
    ASSUME AgreeInv, NEW a \in Actors, Evict(a) \/ SAdd(a)
    PROVE  CacheAgrees' /\ \A i \in (Doomed \ exposed)' : Coherent(i)'
<1>1. CacheInv /\ CacheAgrees
    BY DEF AgreeInv
<1>2. PICK q \in RequestState : q = req[a] /\ RequestOK(q, clock) /\ q.pc \in {"evict", "sadd"}
    BY <1>1, Known DEF Evict, SAdd
<1>3. q.item \in Items
    BY <1>2 DEF RequestOK, ItemPoints
<1>4. PICK pc \in {"answered", "scard"}, damage \in {exposed, exposed \ {q.item}} :
        Continue(a, [q EXCEPT !.pc = pc], damage)
    <2>1. CASE Evict(a)
        BY <1>2, <2>1 DEF Evict
    <2>2. CASE SAdd(a)
        <3>1. (IF cached[q.item] = q.version THEN exposed \ {q.item} ELSE exposed)
                  \in {exposed, exposed \ {q.item}}
            OBVIOUS
        <3> QED BY <1>2, <2>2, <3>1 DEF SAdd
    <2> QED BY <2>1, <2>2
<1>5. PICK r : r = [q EXCEPT !.pc = pc]
    OBVIOUS
<1>6. r.pc = pc
    BY <1>2, <1>5 DEF RequestState
<1>7. \/ /\ cached' = [cached EXCEPT ![q.item] = Absent]
         /\ UNCHANGED <<stored, dirty>>
      \/ /\ dirty' = dirty \cup {q.item}
         /\ UNCHANGED <<cached, stored>>
    BY <1>2 DEF Evict, SAdd
<1>8. ASSUME NEW i \in Items \ damage
      PROVE  \/ Coherent(i)' \/ i \in dirty' \/ Repairs(r, i)
             \/ \E b \in Actors \ {a} : Repairs(req[b], i)
    <2>1. CASE i = q.item
        <3>1. cached'[i] = Absent \/ i \in dirty'
            BY <1>1, <1>7, <2>1, Known
        <3> QED BY <3>1 DEF Coherent
    <2>2. CASE i # q.item
        <3>1. cached'[i] = cached[i] /\ stored'[i] = stored[i] /\ (i \in dirty' <=> i \in dirty)
            BY <1>1, <1>7, <2>2, Known
        <3>2. Coherent(i)' <=> Coherent(i)
            BY <3>1 DEF Coherent
        <3>3. ~Repairs(req[a], i) /\ i \notin exposed
            BY <1>2, <1>4, <2>2 DEF Repairs
        <3> QED BY <1>1, <3>1, <3>2, <3>3, AgreesIs
    <2> QED BY <2>1, <2>2
<1>9. Doomed' = {}
    <2>1. q.pc = "sadd" \/ ~WriteBack
        BY <1>2 DEF RequestOK
    <2>2. Doomed = {}
        BY <1>1, <1>2, <2>1, NothingDoomed
    <2>3. r.pc \notin Flushing /\ Continue(a, r, damage)
        BY <1>4, <1>5, <1>6 DEF Flushing
    <2> QED BY <1>1, <2>2, <2>3, StaysDoomed
<1>10. Continue(a, r, damage)
    BY <1>4, <1>5
<1> QED BY <1>1, <1>8, <1>9, <1>10, AgreeStep

(* An id is counted as flushed when the table has what the cache has of it, *)
(* or the cache nothing.                                                    *)
LEMMA FlushAgrees ==
    ASSUME AgreeInv, NEW a \in Actors, FGet(a) \/ FUpsert(a)
    PROVE  CacheAgrees' /\ \A i \in (Doomed \ exposed)' : Coherent(i)'
<1>1. CacheInv /\ CacheAgrees /\ \A i \in Doomed \ exposed : Coherent(i)
    BY DEF AgreeInv
<1>2. PICK q \in RequestState : q = req[a] /\ RequestOK(q, clock) /\ q.pc \in {"fget", "fupsert"}
    BY <1>1, Known DEF FGet, FUpsert
<1>3. q.op # "write" /\ q.ids # {} /\ WriteBack
    BY <1>2 DEF RequestOK, WritePoints, Flushing
<1>4. PICK i \in Items : i = Min(q.ids)
    BY <1>2, <1>3, FlushedIs
<1>5. PICK f : f = Flushed(q)
    OBVIOUS
<1>6. f.done = q.done \cup {i}
    BY <1>2, <1>3, <1>4, <1>5, FlushedIs
<1>7. q.done \subseteq Doomed
    BY <1>2 DEF Doomed, Flushing
<1>8. q.pc \notin {"evict", "store", "sadd"}
    BY <1>2
<1>9. CASE FGet(a) /\ cached[i] # Absent
    <2>1. PICK r : r = [q EXCEPT !.pc = "fupsert", !.version = cached[i]]
        OBVIOUS
    <2>2. r.done = q.done
        BY <1>2, <2>1 DEF RequestState
    <2>3. Continue(a, r, exposed) /\ UNCHANGED data
        BY <1>2, <1>4, <1>9, <2>1 DEF FGet
    <2>4. PICK S : S = {}
        OBVIOUS
    <2>5. (\A j \in S : Coherent(j)) /\ (r.pc \in Flushing => r.done \subseteq Doomed \cup S)
        BY <1>7, <2>2, <2>4
    <2>6. req[a].pc \notin {"evict", "store", "sadd"}
        BY <1>2, <1>8
    <2> QED BY <2>3, <2>5, <2>6, QuietAgrees
<1>10. CASE FGet(a) /\ cached[i] = Absent
    <2>1. Continue(a, f, exposed) /\ UNCHANGED data
        BY <1>2, <1>4, <1>5, <1>10 DEF FGet
    <2>2. PICK S : S = {i}
        OBVIOUS
    <2>3. (\A j \in S : Coherent(j)) /\ (f.pc \in Flushing => f.done \subseteq Doomed \cup S)
        BY <1>6, <1>7, <1>10, <2>2 DEF Coherent
    <2>4. req[a].pc \notin {"evict", "store", "sadd"}
        BY <1>2, <1>8
    <2> QED BY <2>1, <2>3, <2>4, QuietAgrees
<1>11. CASE FUpsert(a)
    <2> DEFINE damage == IF cached[i] \in {Absent, q.version} THEN exposed ELSE exposed \cup {i}
    <2>1. /\ stored' = [stored EXCEPT ![i] = q.version]
          /\ UNCHANGED <<cached, dirty>>
          /\ Continue(a, f, damage)
        BY <1>2, <1>4, <1>5, <1>11 DEF FUpsert
    <2>2. stored \in [Items -> Nat]
        BY <1>1, Known
    <2>3. /\ exposed \subseteq damage
          /\ i \in damage \/ cached[i] \in {Absent, q.version}
        OBVIOUS
    <2> HIDE DEF damage
    <2>4. i \notin damage => Coherent(i)'
        BY <1>4, <2>1, <2>2, <2>3 DEF Coherent
    <2>5. ASSUME NEW j \in Items, j # i PROVE Coherent(j)' <=> Coherent(j)
        BY <2>1, <2>2, <2>5 DEF Coherent
    <2>6. ASSUME NEW j \in Items \ damage
          PROVE  Coherent(j)' \/ j \in dirty' \/ \E b \in Actors \ {a} : Repairs(req[b], j)
        <3>1. CASE j = i
            BY <2>4, <3>1
        <3>2. CASE j # i
            <4>1. ~Repairs(req[a], j) /\ j \notin exposed
                BY <1>2, <1>8, <2>3 DEF Repairs
            <4> QED BY <1>1, <2>1, <2>5, <3>2, <4>1, AgreesIs
        <3> QED BY <3>1, <3>2
    <2>7. Doomed' \subseteq Doomed \cup {i}
        <3>1. f.done \subseteq Doomed \cup {i}
            BY <1>6, <1>7
        <3>2. Doomed' \subseteq Doomed \cup (Doomed \cup {i})
            BY <1>1, <2>1, <3>1, ContinueDooms
        <3> QED BY <3>2
    <2>8. ASSUME NEW j \in Doomed' \ damage PROVE Coherent(j)'
        <3>1. CASE j = i
            BY <2>4, <2>8, <3>1
        <3>2. CASE j # i
            <4>1. j \in Doomed /\ j \notin exposed /\ Coherent(j)
                BY <1>1, <2>3, <2>7, <2>8, <3>2
            <4>2. j \in Items
                BY <1>1, <4>1, DoomedItems
            <4> QED BY <2>5, <3>2, <4>1, <4>2
        <3> QED BY <3>1, <3>2
    <2> QED BY <1>1, <2>1, <2>6, <2>8, AgreeStep
<1> QED BY <1>9, <1>10, <1>11

(* What leaves the dirty set is coherent, or exposed.                       *)
LEMMA SRemAgrees ==
    ASSUME AgreeInv, NEW a \in Actors, SRem(a)
    PROVE  CacheAgrees' /\ \A i \in (Doomed \ exposed)' : Coherent(i)'
<1>1. CacheInv /\ CacheAgrees /\ \A i \in Doomed \ exposed : Coherent(i)
    BY DEF AgreeInv
<1>2. PICK q \in RequestState : q = req[a] /\ q.pc = "srem"
    BY <1>1, Known DEF SRem
<1>3. PICK r : r = Returned(a)
    OBVIOUS
<1>4. r.pc \notin Flushing
    <2>1. CASE r = Idle
        BY <2>1, IdleOK
    <2>2. CASE r = [q EXCEPT !.pc = "answered", !.ids = {}, !.done = {}]
        BY <1>2, <2>2 DEF RequestState, Flushing
    <2> QED BY <1>2, <1>3, <2>1, <2>2 DEF Returned
<1>5. /\ dirty' = dirty \ q.done
      /\ UNCHANGED <<cached, stored>>
      /\ Continue(a, r, exposed)
    BY <1>2, <1>3 DEF SRem
<1>6. q.done \subseteq Doomed /\ Doomed' \subseteq Doomed
    <2>1. q.done \subseteq Doomed
        BY <1>2 DEF Doomed, Flushing
    <2> QED BY <1>1, <1>4, <1>5, <2>1, StaysDoomed
<1>7. \A i : Coherent(i)' <=> Coherent(i)
    BY <1>5 DEF Coherent
<1>8. ASSUME NEW i \in Items \ exposed
      PROVE  Coherent(i)' \/ i \in dirty' \/ \E b \in Actors \ {a} : Repairs(req[b], i)
    <2>1. ~Repairs(req[a], i)
        BY <1>2 DEF Repairs
    <2>2. i \in dirty => Coherent(i) \/ i \in dirty'
        BY <1>1, <1>5, <1>6
    <2> QED BY <1>1, <1>7, <2>1, <2>2, AgreesIs
<1>9. \A i \in Doomed' \ exposed : Coherent(i)'
    BY <1>1, <1>6, <1>7
<1> QED BY <1>1, <1>5, <1>8, <1>9, AgreeStep

(* A reset empties the cache.  The TRUNCATE exposes what a running flush    *)
(* has stored and is about to call clean.                                   *)
LEMMA ResetAgrees ==
    ASSUME AgreeInv, NEW a \in Actors, Clear(a) \/ Truncate(a)
    PROVE  CacheAgrees' /\ \A i \in (Doomed \ exposed)' : Coherent(i)'
<1>1. CacheInv
    BY DEF AgreeInv
<1>2. PICK q \in RequestState : q = req[a] /\ q.pc \in {"clear", "truncate"}
    BY <1>1, Known DEF Clear, Truncate
<1>3. PICK pc, damage :
          /\ pc \in {"truncate", "answered"}
          /\ Continue(a, [q EXCEPT !.pc = pc], damage)
          /\ \/ Clear(a)
             \/ /\ Truncate(a)
                /\ damage = exposed \cup
                            Incoherent(cached, stored', dirty \ UNION {req[b].done : b \in Actors})
    <2>1. CASE Clear(a)
        BY <1>2, <2>1 DEF Clear
    <2>2. CASE Truncate(a)
        <3>1. PICK d : d = exposed \cup
                           Incoherent(cached, stored', dirty \ UNION {req[b].done : b \in Actors})
            OBVIOUS
        <3>2. Continue(a, [q EXCEPT !.pc = "answered"], d)
            BY <1>2, <2>2, <3>1 DEF Truncate
        <3> QED BY <2>2, <3>1, <3>2
    <2> QED BY <2>1, <2>2
<1>4. PICK r : r = [q EXCEPT !.pc = pc]
    OBVIOUS
<1>5. r.pc \notin Flushing
    BY <1>2, <1>3, <1>4 DEF RequestState, Flushing
<1>6. Doomed' \subseteq Doomed
    BY <1>1, <1>3, <1>4, <1>5, StaysDoomed
<1>7. Doomed \subseteq Items
    BY <1>1, DoomedItems
<1>8. CASE Clear(a)
    <2>1. \A i \in Items : Coherent(i)'
        BY <1>8 DEF Clear, Coherent
    <2> QED BY <1>1, <1>3, <1>4, <1>6, <1>7, <2>1, AgreeStep
<1>9. CASE Truncate(a) /\ damage = exposed \cup
                          Incoherent(cached, stored', dirty \ UNION {req[b].done : b \in Actors})
    <2>1. UNCHANGED <<cached, dirty>>
        BY <1>9 DEF Truncate
    <2>2. \A i \in Items \ damage : Coherent(i)' \/ i \in dirty \ UNION {req[b].done : b \in Actors}
        BY <1>9, <2>1 DEF Incoherent, Coherent
    <2>3. Doomed \subseteq UNION {req[b].done : b \in Actors}
        BY DEF Doomed
    <2>4. \A i \in Items \ damage : Coherent(i)' \/ i \in dirty'
        BY <2>1, <2>2
    <2>5. \A i \in Doomed' \ damage : Coherent(i)'
        BY <1>6, <1>7, <2>2, <2>3
    <2> QED BY <1>1, <1>3, <1>4, <2>4, <2>5, AgreeStep
<1> QED BY <1>3, <1>8, <1>9

(* A step that exposes whatever is unrepaired leaves agreement: a command   *)
(* that fails without an effect, and a restart.                             *)
LEMMA FaultAgrees ==
    ASSUME AgreeInv, UNCHANGED data, exposed' = exposed \cup Incoherent(cached, stored, dirty),
           Doomed' \subseteq Doomed
    PROVE  CacheAgrees' /\ \A i \in (Doomed \ exposed)' : Coherent(i)'
<1>1. UNCHANGED <<cached, stored, dirty>>
    BY DEF data
<1>2. CacheAgrees'
    BY <1>1 DEF CacheAgrees
<1>3. \A i \in Doomed \ exposed : Coherent(i)
    BY DEF AgreeInv
<1> QED BY <1>1, <1>2, <1>3 DEF Coherent

(* A request that begins or ends, the flush task that wakes.                *)
LEMMA RequestAgrees ==
    ASSUME AgreeInv, NEW a \in Actors, NEW q, req' = [req EXCEPT ![a] = q],
           UNCHANGED <<data, exposed>>,
           req[a].pc \notin {"evict", "store", "sadd"}, q.pc \notin Flushing
    PROVE  CacheAgrees' /\ \A i \in (Doomed \ exposed)' : Coherent(i)'
<1>1. /\ UNCHANGED <<cached, stored, dirty, exposed>>
      /\ CacheInv /\ CacheAgrees /\ \A i \in Doomed \ exposed : Coherent(i)
    BY DEF data, AgreeInv
<1>2. req \in [Actors -> RequestState]
    BY <1>1, Known
<1>3. Doomed' \subseteq Doomed \cup {}
    BY <1>2, DoomedStep
<1>4. ASSUME NEW i \in Items, i \notin exposed, ~Coherent(i), i \notin dirty
      PROVE  \E b \in Actors : Repairs(req'[b], i)
    <2>1. PICK b \in Actors : Repairs(req[b], i)
        BY <1>1, <1>4, AgreesIs
    <2>2. b # a
        BY <2>1 DEF Repairs
    <2> QED BY <1>2, <2>1, <2>2
<1>5. CacheAgrees'
    BY <1>1, <1>4 DEF CacheAgrees, Incoherent, Coherent, Repairs
<1> QED BY <1>1, <1>3, <1>5 DEF Coherent

(* One command.                                                             *)
LEMMA CommandAgrees ==
    ASSUME AgreeInv, NEW a \in Actors, Command(a)
    PROVE  CacheAgrees' /\ \A i \in (Doomed \ exposed)' : Coherent(i)'
<1>1. CASE Fill(a) \/ Store(a)
    <2>1. req[a].pc \in {"fill", "store"} /\ SetRow(a)
        BY <1>1 DEF Fill, Store
    <2> QED BY <2>1, SetRowAgrees
<1>2. CASE Get(a) \/ Select(a) \/ SCard(a) \/ SMembers(a)
    BY <1>2, ReadsAgree
<1>3. CASE Upsert(a) \/ Set(a)
    BY <1>3, WriteAgrees
<1>4. CASE Evict(a) \/ SAdd(a)
    BY <1>4, RepairAgrees
<1>5. CASE FGet(a) \/ FUpsert(a)
    BY <1>5, FlushAgrees
<1>6. CASE SRem(a)
    BY <1>6, SRemAgrees
<1>7. CASE Clear(a) \/ Truncate(a)
    BY <1>7, ResetAgrees
<1> QED BY <1>1, <1>2, <1>3, <1>4, <1>5, <1>6, <1>7 DEF Command

(* Every step of the service and of the generator.                          *)
LEMMA AgreeStepInv ==
    ASSUME AgreeInv, [ExperimentNext]_experimentVars
    PROVE  AgreeInv'
<1>1. CacheInv /\ CacheInv'
    BY ExperimentStepInv DEF AgreeInv
<1> DEFINE Goal == CacheAgrees' /\ \A i \in (Doomed \ exposed)' : Coherent(i)'
<1>2. ASSUME NEW t \in Threads, NEW op \in {"read", "write", "flush", "reset"}, NEW i, Begin(t, op, i)
      PROVE  Goal
    <2>1. PICK q : q = [Idle EXCEPT !.op = op, !.pc = FirstPoint(op), !.item = i,
                                    !.need = IF i = Absent THEN Absent ELSE acked[i]]
        OBVIOUS
    <2>2. q.pc \notin Flushing
        BY <2>1 DEF Idle, FirstPoint, Flushing
    <2>3. /\ req' = [req EXCEPT ![t] = q] /\ UNCHANGED <<data, exposed>>
          /\ req[t].pc \notin {"evict", "store", "sadd"} /\ t \in Actors
        BY <1>2, <2>1 DEF Begin, Actors
    <2> QED BY <2>2, <2>3, RequestAgrees
<1>3. ASSUME NEW t \in Threads, NEW heard, Reply(t, heard) PROVE Goal
    <2>1. PICK q : q = Idle
        OBVIOUS
    <2>2. /\ req' = [req EXCEPT ![t] = q] /\ UNCHANGED <<data, exposed>>
          /\ req[t].pc \notin {"evict", "store", "sadd"} /\ t \in Actors /\ q.pc \notin Flushing
        BY <1>3, <2>1, IdleOK DEF Reply, Actors
    <2> QED BY <2>2, RequestAgrees
<1>4. ASSUME NEW t \in Threads, SendReset(t) \/ SendFlush(t) \/ SendOperation(t) PROVE Goal
    <2>1. PICK op, i : op \in {"read", "write", "flush", "reset"} /\ Begin(t, op, i)
        BY <1>4 DEF SendReset, SendFlush, SendOperation, Operations
    <2> QED BY <1>2, <2>1
<1>5. ASSUME NEW t \in Threads, Answer(t) PROVE Goal
    BY <1>3, <1>5 DEF Answer
<1>6. ASSUME NEW a \in Actors, Serve(a) PROVE Goal
    BY <1>6, CommandAgrees DEF Serve
<1>7. ASSUME NEW a \in Actors, Fail(a) PROVE Goal
    <2>1. UNCHANGED data /\ exposed' = exposed \cup Incoherent(cached, stored, dirty) /\ Abort(a)
        BY <1>7 DEF Fail, Refused
    <2>2. UNCHANGED <<cached, stored, dirty>>
        BY <2>1 DEF data
    <2>3. PICK q : q = Idle
        OBVIOUS
    <2>4. Continue(a, q, exposed) /\ q.pc \notin Flushing
        BY <2>1, <2>2, <2>3, IdleOK DEF Continue
    <2>5. Doomed' \subseteq Doomed
        BY <1>1, <2>4, StaysDoomed
    <2> QED BY <2>1, <2>5, FaultAgrees
<1>8. ASSUME WakeUp PROVE Goal
    <2>1. PICK q : q = [Idle EXCEPT !.op = "flush", !.pc = "smembers"]
        OBVIOUS
    <2>2. q.pc \notin Flushing
        BY <2>1 DEF Idle, Flushing
    <2>3. /\ req' = [req EXCEPT ![FlushTask] = q] /\ UNCHANGED <<data, exposed>>
          /\ req[FlushTask].pc \notin {"evict", "store", "sadd"} /\ FlushTask \in Actors
        BY <1>8, <2>1 DEF WakeUp, Wake, Actors
    <2> QED BY <2>2, <2>3, RequestAgrees
<1>9. ASSUME ServiceRestarts PROVE Goal
    <2>1. /\ UNCHANGED data /\ exposed' = exposed \cup Incoherent(cached, stored, dirty)
          /\ req' = [b \in Actors |-> Idle]
        BY <1>9 DEF ServiceRestarts, RestartService
    <2>2. Doomed' \subseteq Doomed
        BY <2>1, IdleOK DEF Doomed
    <2> QED BY <2>1, <2>2, FaultAgrees
<1>10. ASSUME UNCHANGED <<data, req, exposed>> PROVE Goal
    <2>1. UNCHANGED <<cached, stored, dirty, req, exposed>>
        BY <1>10 DEF data
    <2> QED BY <2>1 DEF AgreeInv, CacheAgrees, Doomed, Coherent
<1>11. ASSUME NEW t \in Threads, GiveUp(t) PROVE Goal
    BY <1>10, <1>11 DEF GiveUp
<1>12. ASSUME BuildRow \/ Rerun \/ UNCHANGED experimentVars PROVE Goal
    BY <1>10, <1>12 DEF BuildRow, Rerun, experimentVars, cacheVars
<1>13. Goal
    BY <1>4, <1>5, <1>6, <1>7, <1>8, <1>9, <1>11, <1>12 DEF ExperimentNext
<1> QED BY <1>1, <1>13 DEF AgreeInv

(* Cache and table disagree on an item only while a write of it is under    *)
(* way, or until a flush, or when it is exposed: for any number of items,   *)
(* threads and faults, under every strategy.                                *)
THEOREM CacheAgreesCorrect == ExperimentSpec => []CacheAgrees
<1>1. ExperimentInit => AgreeInv
    <2> SUFFICES ASSUME ExperimentInit PROVE AgreeInv
        OBVIOUS
    <2>1. CacheInv
        BY CacheInitInv DEF ExperimentInit
    <2>2. \A i \in Items : Coherent(i)
        BY DEF ExperimentInit, CacheInit, Coherent
    <2>3. Doomed = {}
        BY IdleOK DEF ExperimentInit, CacheInit, Doomed
    <2>4. CacheAgrees
        BY <2>2 DEF CacheAgrees, Incoherent, Coherent
    <2> QED BY <2>1, <2>3, <2>4 DEF AgreeInv
<1>2. AgreeInv /\ [ExperimentNext]_experimentVars => AgreeInv'
    BY AgreeStepInv
<1>3. AgreeInv => CacheAgrees
    BY DEF AgreeInv
<1> QED BY <1>1, <1>2, <1>3, PTL DEF ExperimentSpec

-----------------------------------------------------------------------------
(* What a read returns.                                                     *)

(* The version v of an item, or a later one, is in the cache if anything of *)
(* the item is; a cache that writes back holds every version still owed,    *)
(* the other strategies have it in the table.                               *)
Served(i, v) ==
    /\ i \in exposed \/ cached[i] = Absent \/ Owed(v) <= cached[i]
    /\ IF WriteBack THEN Owed(v) = Absent \/ cached[i] # Absent ELSE Owed(v) <= stored[i]

ReadPoints == {"get", "select", "fill", "answered", "failed", "dead"}

ReadOK(q) ==
    /\ q.need <= clock
    /\ q.op = "read" => q.item \in Items /\ q.pc \in ReadPoints
    /\ q.op = "read" /\ q.pc = "get" => Served(q.item, q.need)
    /\ q.op = "read" /\ q.pc = "select" =>
           IF WriteBack THEN Owed(q.need) = Absent ELSE Owed(q.need) <= stored[q.item]
    /\ q.op = "read" /\ q.pc \in {"fill", "answered"} => Owed(q.need) <= q.version
    /\ q.pc = "fill" => q.version # Absent
    /\ q.op = "write" /\ q.pc \in {"evict", "store"} => Owed(q.version) <= stored[q.item]
    /\ q.op = "write" /\ q.pc \in {"sadd", "scard", "answered"} => Served(q.item, q.version)

ReadInv ==
    /\ CacheInv
    /\ \A a \in Actors : ReadOK(req[a])
    /\ \A i \in Items : Served(i, acked[i])

(* A step after which every version is still served that was.               *)
ServedKept ==
    /\ UNCHANGED strategy /\ clock' \in Nat /\ clock <= clock'
    /\ \A v \in 0..clock : Owed(v)' \in {Owed(v), Absent}
    /\ ~WriteBack => \A i \in Items, v \in 0..clock : Owed(v) <= stored[i] => Owed(v)' <= stored'[i]
    /\ \A i \in Items, v \in 0..clock : Served(i, v) => Served(i, v)'

(* A request that moves on, ends or begins while the others go on.          *)
LEMMA ReadStep ==
    ASSUME ReadInv, NEW a \in Actors, NEW q, req' = [req EXCEPT ![a] = q], ReadOK(q)', ServedKept,
           \A i \in Items : acked'[i] \in Nat /\ acked'[i] <= clock /\ Served(i, acked'[i])
    PROVE  (\A b \in Actors : ReadOK(req[b])') /\ \A i \in Items : Served(i, acked[i])'
<1>1. CacheInv /\ \A b \in Actors : ReadOK(req[b])
    BY DEF ReadInv
<1>2. req \in [Actors -> RequestState] /\ clock \in Nat
    BY <1>1, Known
<1>3. ASSUME NEW b \in Actors, b # a PROVE ReadOK(req[b])'
    <2>1. PICK p \in RequestState : p = req[b] /\ ReadOK(p) /\ RequestOK(p, clock)
        BY <1>1, Known
    <2>2. p.need \in 0..clock /\ p.version \in Nat /\ (p.op = "write" => p.version \in 0..clock)
        BY <1>2, <2>1 DEF ReadOK, RequestOK, RequestState
    <2>3. p.need <= clock' /\ WriteBack' = WriteBack
        BY <1>2, <2>2 DEF ServedKept, WriteBack
    <2>4. p.op = "read" => p.item \in Items /\ p.pc \in ReadPoints
        BY <2>1 DEF ReadOK
    <2>5. p.op = "read" /\ p.pc = "get" => Served(p.item, p.need)'
        BY <2>1, <2>2, <2>4 DEF ReadOK, ServedKept
    <2>6. ASSUME p.op = "read", p.pc = "select"
          PROVE  IF WriteBack THEN Owed(p.need)' = Absent ELSE Owed(p.need)' <= stored'[p.item]
        <3>1. IF WriteBack THEN Owed(p.need) = Absent ELSE Owed(p.need) <= stored[p.item]
            BY <2>1, <2>6 DEF ReadOK
        <3> QED BY <2>2, <2>4, <2>6, <3>1 DEF ServedKept
    <2>7. ASSUME p.op = "read", p.pc \in {"fill", "answered"} PROVE Owed(p.need)' <= p.version
        <3>1. Owed(p.need) <= p.version
            BY <2>1, <2>7 DEF ReadOK
        <3> QED BY <2>2, <3>1 DEF ServedKept, Absent
    <2>8. p.pc = "fill" => p.version # Absent
        BY <2>1 DEF ReadOK
    <2>9. ASSUME p.op = "write", p.pc \in {"evict", "store"} PROVE Owed(p.version)' <= stored'[p.item]
        <3>1. Owed(p.version) <= stored[p.item] /\ ~WriteBack /\ p.item \in Items
            BY <2>1, <2>9 DEF ReadOK, RequestOK
        <3> QED BY <2>2, <2>9, <3>1 DEF ServedKept
    <2>10. ASSUME p.op = "write", p.pc \in {"sadd", "scard", "answered"} PROVE Served(p.item, p.version)'
        <3>1. Served(p.item, p.version) /\ p.item \in Items
            BY <2>1, <2>10 DEF ReadOK, RequestOK
        <3> QED BY <2>2, <2>10, <3>1 DEF ServedKept
    <2>11. ReadOK(p)'
        BY <2>3, <2>4, <2>5, <2>6, <2>7, <2>8, <2>9, <2>10 DEF ReadOK
    <2>12. req'[b] = p
        BY <1>2, <1>3, <2>1
    <2> QED BY <2>11, <2>12 DEF ReadOK
<1>4. ReadOK(req[a])'
    <2>1. req'[a] = q
        BY <1>2
    <2> QED BY <2>1 DEF ReadOK
<1>5. ASSUME NEW i \in Items PROVE Served(i, acked[i])'
    <2>1. PICK v \in 0..clock : v = acked'[i] /\ Served(i, v)
        BY <1>2
    <2>2. Served(i, v)'
        BY <2>1 DEF ServedKept
    <2> QED BY <2>1, <2>2 DEF Served
<1> QED BY <1>3, <1>4, <1>5

(* A command that goes on as r, or has taken effect and fails.              *)
LEMMA ReadContinue ==
    ASSUME ReadInv, NEW a \in Actors, NEW r, NEW damage, Continue(a, r, damage),
           ReadOK(r)', ServedKept, UNCHANGED acked
    PROVE  (\A b \in Actors : ReadOK(req[b])') /\ \A i \in Items : Served(i, acked[i])'
<1>1. CacheInv /\ \A i \in Items : acked'[i] \in Nat /\ acked'[i] <= clock /\ Served(i, acked'[i])
    BY DEF ReadInv, CacheInv, CacheTypeOK
<1>2. CASE req' = [req EXCEPT ![a] = r]
    BY <1>1, <1>2, ReadStep
<1>3. CASE Abort(a)
    <2>1. PICK pc \in {"failed", "dead"} : req' = [req EXCEPT ![a].pc = pc]
        BY <1>3 DEF Abort
    <2>2. PICK q \in RequestState : q = req[a] /\ ReadOK(q)
        BY <1>1, Known DEF ReadInv
    <2>3. PICK f : f = [q EXCEPT !.pc = pc]
        OBVIOUS
    <2>4. req' = [req EXCEPT ![a] = f]
        BY <1>1, <2>1, <2>2, <2>3, Known
    <2>5. f.pc = pc /\ f.op = q.op /\ f.item = q.item /\ f.need = q.need /\ q.need \in Nat
        BY <2>2, <2>3 DEF RequestState
    <2>6. f.need <= clock'
        BY <1>1, <2>2, <2>5, Known DEF ReadOK, ServedKept
    <2>7. ReadOK(f)'
        BY <2>2, <2>5, <2>6 DEF ReadOK, ReadPoints
    <2> QED BY <1>1, <2>4, <2>7, ReadStep
<1> QED BY <1>2, <1>3 DEF Continue

(* The data stay, and nothing is exposed less than before.                  *)
LEMMA QuietServes ==
    ASSUME CacheInv, UNCHANGED <<strategy, data, epoch>>, exposed \subseteq exposed'
    PROVE  ServedKept
<1>1. UNCHANGED <<cached, stored, dirty, clock, strategy, epoch>> /\ clock \in Nat
    BY DEF data, CacheInv, CacheTypeOK
<1> QED BY <1>1 DEF ServedKept, Served, Owed, WriteBack

(* What a read may be answered with is what the cache has, and, when the    *)
(* cache has nothing, what the table has.                                   *)
LEMMA GetServes ==
    ASSUME ReadInv, NEW a \in Actors, Get(a)
    PROVE  (\A b \in Actors : ReadOK(req[b])') /\ \A i \in Items : Served(i, acked[i])'
<1>1. CacheInv
    BY DEF ReadInv
<1>2. PICK q \in RequestState : q = req[a] /\ ReadOK(q) /\ RequestOK(q, clock) /\ q.pc = "get"
    BY <1>1, Known DEF Get, ReadInv
<1>3. /\ q.item \in Items /\ q.op # "write" /\ q.need \in Nat /\ q.need <= clock
      /\ q.op = "read" => Served(q.item, q.need)
    BY <1>2 DEF RequestOK, ItemPoints, WritePoints, ReadOK, RequestState
<1>4. /\ cached \in [Items -> Nat] /\ clock \in Nat
      /\ \A v \in Nat : Owed(v) \in Nat /\ Owed(v) <= v
    BY <1>1, Known, OwedIs
<1>5. PICK n \in Nat : n = Excused(q)
    BY <1>3 DEF Excused, Absent
<1>6. n <= clock /\ (n = 0 \/ (n = q.need /\ q.item \notin exposed))
    BY <1>3, <1>4, <1>5 DEF Excused, Absent
<1>7. UNCHANGED <<strategy, data, acked, epoch>>
    BY DEF Get
<1>8. UNCHANGED <<strategy, cached, stored, clock, epoch>>
    BY <1>7 DEF data
<1>9. WriteBack' = WriteBack /\ \A v : Owed(v)' = Owed(v)
    BY <1>8 DEF WriteBack, Owed
<1>10. CASE cached[q.item] # Absent
    <2>1. PICK r : r = [q EXCEPT !.pc = "answered", !.version = cached[q.item], !.need = n]
        OBVIOUS
    <2>2. r.pc = "answered" /\ r.op = q.op /\ r.item = q.item /\ r.need = n /\ r.version = cached[q.item]
        BY <1>2, <2>1 DEF RequestState
    <2>3. Continue(a, r, exposed)
        BY <1>2, <1>5, <1>10, <2>1 DEF Get
    <2>4. ServedKept
        <3>1. exposed \subseteq exposed'
            BY <2>3 DEF Continue
        <3> QED BY <1>1, <1>7, <3>1, QuietServes
    <2>5. q.op = "read" => Owed(n) <= cached[q.item]
        <3>1. CASE n = 0
            <4>1. Owed(0) = 0 /\ cached[q.item] \in Nat
                BY <1>3, <1>4
            <4> QED BY <3>1, <4>1
        <3>2. CASE n = q.need /\ q.item \notin exposed
            BY <1>3, <1>10, <3>2 DEF Served
        <3> QED BY <1>6, <3>1, <3>2
    <2>6. ReadOK(r)'
        BY <1>3, <1>6, <1>8, <1>9, <2>2, <2>5 DEF ReadOK, ReadPoints
    <2> QED BY <1>7, <2>3, <2>4, <2>6, ReadContinue
<1>11. CASE cached[q.item] = Absent
    <2>1. PICK r : r = [q EXCEPT !.pc = "select"]
        OBVIOUS
    <2>2. r.pc = "select" /\ r.op = q.op /\ r.item = q.item /\ r.need = q.need
        BY <1>2, <2>1 DEF RequestState
    <2>3. Continue(a, r, exposed)
        BY <1>2, <1>11, <2>1 DEF Get
    <2>4. ServedKept
        <3>1. exposed \subseteq exposed'
            BY <2>3 DEF Continue
        <3> QED BY <1>1, <1>7, <3>1, QuietServes
    <2>5. q.op = "read" => IF WriteBack THEN Owed(q.need) = Absent ELSE Owed(q.need) <= stored[q.item]
        BY <1>3, <1>11 DEF Served
    <2>6. ReadOK(r)'
        BY <1>3, <1>8, <1>9, <2>2, <2>5 DEF ReadOK, ReadPoints
    <2> QED BY <1>7, <2>3, <2>4, <2>6, ReadContinue
<1> QED BY <1>10, <1>11

(* The row of the table.                                                    *)
LEMMA SelectServes ==
    ASSUME ReadInv, NEW a \in Actors, Select(a)
    PROVE  (\A b \in Actors : ReadOK(req[b])') /\ \A i \in Items : Served(i, acked[i])'
<1>1. CacheInv
    BY DEF ReadInv
<1>2. PICK q \in RequestState : q = req[a] /\ ReadOK(q) /\ RequestOK(q, clock) /\ q.pc = "select"
    BY <1>1, Known DEF Select, ReadInv
<1>3. /\ q.item \in Items /\ q.op # "write" /\ q.need \in Nat /\ q.need <= clock
      /\ q.op = "read" => IF WriteBack THEN Owed(q.need) = Absent ELSE Owed(q.need) <= stored[q.item]
    BY <1>2 DEF RequestOK, ItemPoints, WritePoints, ReadOK, RequestState
<1>4. /\ stored \in [Items -> Nat] /\ clock \in Nat
      /\ \A v \in Nat : Owed(v) \in Nat /\ Owed(v) <= v
    BY <1>1, Known, OwedIs
<1>5. PICK n \in Nat : n = Excused(q)
    BY <1>3 DEF Excused, Absent
<1>6. n <= clock /\ (n = 0 \/ n = q.need)
    BY <1>3, <1>4, <1>5 DEF Excused, Absent
<1>7. PICK row : row = [q EXCEPT !.version = stored[q.item], !.need = n]
    OBVIOUS
<1>8. PICK pc \in {"fill", "failed"} : /\ Continue(a, [row EXCEPT !.pc = pc], exposed)
                                       /\ pc = "fill" => stored[q.item] # Absent
    BY <1>2, <1>5, <1>7 DEF Select
<1>9. PICK r : r = [row EXCEPT !.pc = pc]
    OBVIOUS
<1>10. r.pc = pc /\ r.op = q.op /\ r.item = q.item /\ r.need = n /\ r.version = stored[q.item]
    BY <1>2, <1>7, <1>9 DEF RequestState
<1>11. UNCHANGED <<strategy, data, acked, epoch>>
    BY DEF Select
<1>12. UNCHANGED <<strategy, cached, stored, clock, epoch>>
    BY <1>11 DEF data
<1>13. WriteBack' = WriteBack /\ \A v : Owed(v)' = Owed(v)
    BY <1>12 DEF WriteBack, Owed
<1>14. q.op = "read" => Owed(n) <= stored[q.item]
    <2>1. stored[q.item] \in Nat /\ Owed(0) = 0
        BY <1>3, <1>4
    <2> QED BY <1>3, <1>6, <2>1 DEF Absent
<1>15. ReadOK(r)'
    BY <1>3, <1>6, <1>8, <1>10, <1>12, <1>13, <1>14 DEF ReadOK, ReadPoints
<1>16. Continue(a, r, exposed) /\ exposed \subseteq exposed'
    BY <1>8, <1>9 DEF Continue
<1>17. ServedKept
    BY <1>1, <1>11, <1>16, QuietServes
<1> QED BY <1>11, <1>15, <1>16, <1>17, ReadContinue

(* A row set in the cache that is not what the cache should hold exposes    *)
(* its item.                                                                *)
LEMMA SetRowServes ==
    ASSUME ReadInv, NEW a \in Actors, req[a].pc \in {"fill", "store"}, SetRow(a)
    PROVE  (\A b \in Actors : ReadOK(req[b])') /\ \A i \in Items : Served(i, acked[i])'
<1>1. CacheInv
    BY DEF ReadInv
<1>2. PICK q \in RequestState : /\ q = req[a] /\ ReadOK(q) /\ RequestOK(q, clock)
                                /\ q.pc \in {"fill", "store"}
    BY <1>1, Known DEF ReadInv
<1>3. /\ q.item \in Items /\ q.version \in Nat /\ q.need <= clock
      /\ WriteBack => q.pc = "fill" /\ q.version # Absent
      /\ q.op = "write" => q.pc = "store" /\ ~WriteBack /\ Owed(q.version) <= stored[q.item]
      /\ q.op = "read" => q.pc = "fill" /\ Owed(q.need) <= q.version
    BY <1>2 DEF RequestOK, ItemPoints, WritePoints, ReadOK, ReadPoints, RequestState
<1>4. PICK r : r = [q EXCEPT !.pc = "answered"]
    OBVIOUS
<1>5. /\ r.pc = "answered" /\ r.op = q.op /\ r.item = q.item
      /\ r.version = q.version /\ r.need = q.need
    BY <1>2, <1>4 DEF RequestState
<1> DEFINE damage == IF q.version # Current(q.item) THEN exposed \cup {q.item}
                     ELSE IF WriteBack THEN exposed
                     ELSE exposed \ {q.item}
<1>6. /\ cached' = [cached EXCEPT ![q.item] = q.version]
      /\ UNCHANGED <<strategy, dirty, stored, clock, acked, epoch>>
      /\ Continue(a, r, damage)
    BY <1>2, <1>4 DEF SetRow
<1>7. /\ cached \in [Items -> Nat] /\ stored \in [Items -> Nat] /\ clock \in Nat
      /\ \A v \in Nat : Owed(v) \in Nat /\ Owed(v) <= v
    BY <1>1, Known, OwedIs
<1>8. q.item \in damage \/ q.version = Current(q.item)
    OBVIOUS
<1>9. \A i \in Items : i # q.item /\ i \in exposed => i \in damage
    OBVIOUS
<1> HIDE DEF damage
<1>10. damage \subseteq exposed'
    BY <1>6 DEF Continue
<1>11. WriteBack' = WriteBack /\ \A v : Owed(v)' = Owed(v)
    BY <1>6 DEF WriteBack, Owed
<1>12. cached'[q.item] = q.version /\ \A i \in Items : i # q.item => cached'[i] = cached[i]
    BY <1>3, <1>6, <1>7
<1>13. ASSUME NEW i \in Items, NEW v \in 0..clock, Served(i, v) PROVE Served(i, v)'
    <2>1. CASE i # q.item
        BY <1>6, <1>9, <1>10, <1>11, <1>12, <1>13, <2>1 DEF Served
    <2>2. CASE i = q.item /\ WriteBack
        <3>1. Owed(v) \in Nat /\ (Owed(v) = Absent \/ cached[i] # Absent)
            BY <1>7, <1>13, <2>2 DEF Served
        <3>2. i \in exposed' \/ Owed(v) <= q.version
            <4>1. CASE i \in damage
                BY <1>10, <4>1
            <4>2. CASE Owed(v) = Absent
                BY <1>3, <4>2 DEF Absent
            <4>3. CASE i \notin damage /\ cached[i] # Absent
                <5>1. q.version = cached[i]
                    BY <1>8, <2>2, <4>3 DEF Current
                <5>2. i \notin exposed \/ i \in exposed'
                    BY <1>6, <2>2 DEF Continue, damage
                <5> QED BY <1>13, <4>3, <5>1, <5>2 DEF Served
            <4> QED BY <3>1, <4>1, <4>2, <4>3
        <3>3. cached'[i] = q.version /\ q.version # Absent
            BY <1>3, <1>12, <2>2
        <3> QED BY <1>11, <2>2, <3>2, <3>3 DEF Served
    <2>3. CASE i = q.item /\ ~WriteBack
        <3>1. Owed(v) <= stored[i]
            BY <1>13, <2>3 DEF Served
        <3>2. i \in exposed' \/ Owed(v) <= cached'[i]
            <4>1. CASE q.version = Current(i)
                BY <1>12, <2>3, <3>1, <4>1 DEF Current
            <4>2. CASE q.version # Current(i)
                BY <1>8, <1>10, <2>3, <4>2
            <4> QED BY <4>1, <4>2
        <3> QED BY <1>6, <1>11, <2>3, <3>1, <3>2 DEF Served
    <2> QED BY <2>1, <2>2, <2>3
<1>14. ServedKept
    BY <1>6, <1>7, <1>11, <1>13 DEF ServedKept
<1>15. q.op = "write" => Served(q.item, q.version)'
    <2>1. Owed(q.version) <= q.version
        BY <1>3, <1>7
    <2> QED BY <1>3, <1>6, <1>11, <1>12, <2>1 DEF Served
<1>16. ReadOK(r)'
    BY <1>3, <1>5, <1>6, <1>11, <1>15 DEF ReadOK, ReadPoints
<1> QED BY <1>6, <1>14, <1>16, ReadContinue

(* A write of the table serves every version: its own is the latest.        *)
LEMMA UpsertServes ==
    ASSUME ReadInv, NEW a \in Actors, Upsert(a)
    PROVE  (\A b \in Actors : ReadOK(req[b])') /\ \A i \in Items : Served(i, acked[i])'
<1>1. CacheInv
    BY DEF ReadInv
<1>2. PICK q \in RequestState : q = req[a] /\ ReadOK(q) /\ RequestOK(q, clock) /\ q.pc = "upsert"
    BY <1>1, Known DEF Upsert, ReadInv
<1>3. q.item \in Items /\ q.op = "write" /\ ~WriteBack /\ q.need \in Nat /\ q.need <= clock
    BY <1>2 DEF RequestOK, ItemPoints, WritePoints, ReadOK, RequestState
<1>4. PICK n \in Nat : n = clock + 1 /\ n = clock'
    BY <1>1, OwedIs DEF Upsert
<1>5. PICK pc \in {"evict", "store"} : pc = IF strategy = "cache_aside" THEN "evict" ELSE "store"
    OBVIOUS
<1>6. PICK r : r = [q EXCEPT !.pc = pc, !.version = n]
    OBVIOUS
<1>7. r.pc = pc /\ r.op = "write" /\ r.item = q.item /\ r.version = n /\ r.need = q.need
    BY <1>2, <1>3, <1>6 DEF RequestState
<1>8. /\ stored' = [stored EXCEPT ![q.item] = n]
      /\ UNCHANGED <<strategy, cached, acked, epoch>>
      /\ Continue(a, r, exposed)
    BY <1>2, <1>4, <1>5, <1>6 DEF Upsert
<1>9. /\ stored \in [Items -> Nat] /\ clock \in Nat
      /\ \A v \in Nat : Owed(v) \in Nat /\ Owed(v) <= v
    BY <1>1, Known, OwedIs
<1>10. exposed \subseteq exposed' /\ WriteBack' = WriteBack /\ \A v : Owed(v)' = Owed(v)
    BY <1>8 DEF Continue, WriteBack, Owed
<1>11. ASSUME NEW i \in Items, NEW v \in 0..clock, Owed(v) <= stored[i] PROVE Owed(v)' <= stored'[i]
    <2>1. CASE i = q.item
        <3>1. stored'[i] = n /\ Owed(v) \in Nat /\ Owed(v) <= v
            BY <1>8, <1>9, <2>1
        <3> QED BY <1>4, <1>9, <1>10, <3>1
    <2>2. CASE i # q.item
        BY <1>8, <1>9, <1>10, <1>11, <2>2
    <2> QED BY <2>1, <2>2
<1>12. ASSUME NEW i \in Items, NEW v \in 0..clock, Served(i, v) PROVE Served(i, v)'
    <2>1. Owed(v)' <= stored'[i]
        BY <1>3, <1>11, <1>12 DEF Served
    <2> QED BY <1>3, <1>8, <1>10, <1>12, <2>1 DEF Served
<1>13. clock <= clock' /\ clock' \in Nat /\ q.need <= clock'
    BY <1>3, <1>4, <1>9
<1>14. ServedKept
    BY <1>8, <1>10, <1>11, <1>12, <1>13 DEF ServedKept
<1>15. Owed(n)' <= stored'[q.item]
    BY <1>3, <1>8, <1>9, <1>10
<1>16. ReadOK(r)'
    BY <1>5, <1>7, <1>13, <1>15 DEF ReadOK
<1> QED BY <1>8, <1>14, <1>16, ReadContinue

(* An item that is evicted is read from the table.                          *)
LEMMA EvictServes ==
    ASSUME ReadInv, NEW a \in Actors, Evict(a)
    PROVE  (\A b \in Actors : ReadOK(req[b])') /\ \A i \in Items : Served(i, acked[i])'
<1>1. CacheInv
    BY DEF ReadInv
<1>2. PICK q \in RequestState : q = req[a] /\ ReadOK(q) /\ RequestOK(q, clock) /\ q.pc = "evict"
    BY <1>1, Known DEF Evict, ReadInv
<1>3. /\ q.item \in Items /\ q.op = "write" /\ ~WriteBack /\ q.need <= clock
      /\ Owed(q.version) <= stored[q.item]
    BY <1>2 DEF RequestOK, ItemPoints, WritePoints, ReadOK
<1>4. PICK r : r = [q EXCEPT !.pc = "answered"]
    OBVIOUS
<1>5. /\ r.pc = "answered" /\ r.op = "write" /\ r.item = q.item
      /\ r.version = q.version /\ r.need = q.need
    BY <1>2, <1>3, <1>4 DEF RequestState
<1>6. /\ cached' = [cached EXCEPT ![q.item] = Absent]
      /\ UNCHANGED <<strategy, stored, clock, acked, epoch>>
      /\ Continue(a, r, exposed \ {q.item})
    BY <1>2, <1>4 DEF Evict
<1>7. cached \in [Items -> Nat] /\ clock \in Nat
    BY <1>1, Known
<1>8. /\ exposed \ {q.item} \subseteq exposed'
      /\ WriteBack' = WriteBack /\ \A v : Owed(v)' = Owed(v)
    BY <1>6 DEF Continue, WriteBack, Owed
<1>9. cached'[q.item] = Absent /\ \A i \in Items : i # q.item => cached'[i] = cached[i]
    BY <1>3, <1>6, <1>7
<1>10. ASSUME NEW i \in Items, NEW v \in 0..clock, Served(i, v) PROVE Served(i, v)'
    BY <1>3, <1>6, <1>8, <1>9, <1>10 DEF Served
<1>11. ServedKept
    BY <1>6, <1>7, <1>8, <1>10 DEF ServedKept
<1>12. Served(q.item, q.version)'
    BY <1>3, <1>6, <1>8, <1>9 DEF Served
<1>13. ReadOK(r)'
    BY <1>3, <1>5, <1>6, <1>12 DEF ReadOK
<1> QED BY <1>6, <1>11, <1>13, ReadContinue

(* A write of the cache: its version is the latest.                         *)
LEMMA SetServes ==
    ASSUME ReadInv, NEW a \in Actors, Set(a)
    PROVE  (\A b \in Actors : ReadOK(req[b])') /\ \A i \in Items : Served(i, acked[i])'
<1>1. CacheInv
    BY DEF ReadInv
<1>2. PICK q \in RequestState : q = req[a] /\ ReadOK(q) /\ RequestOK(q, clock) /\ q.pc = "set"
    BY <1>1, Known DEF Set, ReadInv
<1>3. q.item \in Items /\ q.op = "write" /\ WriteBack /\ q.need \in Nat /\ q.need <= clock
    BY <1>2 DEF RequestOK, ItemPoints, WritePoints, ReadOK, RequestState
<1>4. PICK n \in Nat : n = clock + 1 /\ n = clock'
    BY <1>1, OwedIs DEF Set
<1>5. PICK r : r = [q EXCEPT !.pc = "sadd", !.version = n]
    OBVIOUS
<1>6. r.pc = "sadd" /\ r.op = "write" /\ r.item = q.item /\ r.version = n /\ r.need = q.need
    BY <1>2, <1>3, <1>5 DEF RequestState
<1>7. /\ cached' = [cached EXCEPT ![q.item] = n]
      /\ UNCHANGED <<strategy, stored, acked, epoch>>
      /\ Continue(a, r, exposed)
    BY <1>2, <1>4, <1>5 DEF Set
<1>8. /\ cached \in [Items -> Nat] /\ clock \in Nat
      /\ \A v \in Nat : Owed(v) \in Nat /\ Owed(v) <= v
    BY <1>1, Known, OwedIs
<1>9. exposed \subseteq exposed' /\ WriteBack' = WriteBack /\ \A v : Owed(v)' = Owed(v)
    BY <1>7 DEF Continue, WriteBack, Owed
<1>10. cached'[q.item] = n /\ \A i \in Items : i # q.item => cached'[i] = cached[i]
    BY <1>3, <1>7, <1>8
<1>11. ASSUME NEW i \in Items, NEW v \in 0..n, Served(i, v) \/ i = q.item PROVE Served(i, v)'
    <2>1. CASE i = q.item
        <3>1. Owed(v) \in Nat /\ Owed(v) <= v /\ v <= n
            BY <1>4, <1>8
        <3>2. Owed(v) <= n /\ n # Absent
            BY <1>4, <1>8, <3>1 DEF Absent
        <3> QED BY <1>3, <1>9, <1>10, <2>1, <3>2 DEF Served
    <2>2. CASE i # q.item
        BY <1>3, <1>9, <1>10, <1>11, <2>2 DEF Served
    <2> QED BY <2>1, <2>2
<1>12. clock <= clock' /\ clock' \in Nat /\ q.need <= clock' /\ 0..clock \subseteq 0..n
    BY <1>3, <1>4, <1>8
<1>13. ServedKept
    BY <1>3, <1>7, <1>9, <1>11, <1>12 DEF ServedKept
<1>14. Served(q.item, n)'
    <2>1. n \in 0..n
        OBVIOUS
    <2> QED BY <1>3, <1>11, <2>1
<1>15. ReadOK(r)'
    BY <1>6, <1>12, <1>14 DEF ReadOK
<1> QED BY <1>7, <1>13, <1>15, ReadContinue

(* An item that is called dirty is exposed no more only when the cache has  *)
(* the latest version of it.                                                *)
LEMMA SAddServes ==
    ASSUME ReadInv, NEW a \in Actors, SAdd(a) \/ SCard(a)
    PROVE  (\A b \in Actors : ReadOK(req[b])') /\ \A i \in Items : Served(i, acked[i])'
<1>1. CacheInv
    BY DEF ReadInv
<1>2. PICK q \in RequestState : /\ q = req[a] /\ ReadOK(q) /\ RequestOK(q, clock) /\ RequestKept(q)
                                /\ q.pc \in {"sadd", "scard"}
    BY <1>1, Known DEF SAdd, SCard, ReadInv
<1>3. /\ q.op = "write" /\ q.need <= clock /\ q.version \in Nat /\ q.version <= clock /\ q.item \in Items
      /\ Served(q.item, q.version) /\ (q.pc = "sadd" => q.version = clock)
    BY <1>2 DEF RequestOK, WritePoints, ReadOK, RequestKept, RequestState
<1>4. PICK pc, damage :
          /\ pc \in {"scard", "answered"}
          /\ Continue(a, [q EXCEPT !.pc = pc], damage)
          /\ damage \in {exposed, exposed \ {q.item}}
          /\ damage # exposed => cached[q.item] = clock
    <2>1. CASE SAdd(a)
        <3>1. q.version = clock
            BY <1>2, <1>3, <2>1 DEF SAdd
        <3> QED BY <1>2, <2>1, <3>1 DEF SAdd
    <2>2. CASE SCard(a)
        BY <1>2, <2>2 DEF SCard
    <2> QED BY <2>1, <2>2
<1>5. PICK r : r = [q EXCEPT !.pc = pc]
    OBVIOUS
<1>6. /\ r.pc = pc /\ r.op = "write" /\ r.item = q.item
      /\ r.version = q.version /\ r.need = q.need
    BY <1>2, <1>3, <1>5 DEF RequestState
<1>7. UNCHANGED <<strategy, cached, stored, clock, acked, epoch>>
    BY DEF SAdd, SCard, data
<1>8. Continue(a, r, damage) /\ damage \subseteq exposed'
    BY <1>4, <1>5 DEF Continue
<1>9. WriteBack' = WriteBack /\ \A v : Owed(v)' = Owed(v)
    BY <1>7 DEF WriteBack, Owed
<1>10. clock \in Nat /\ \A v \in Nat : Owed(v) \in Nat /\ Owed(v) <= v
    BY <1>1, OwedIs
<1>11. ASSUME NEW i \in Items, NEW v \in 0..clock, Served(i, v) PROVE Served(i, v)'
    <2>1. i \in exposed' \/ cached[i] = Absent \/ Owed(v) <= cached[i]
        <3>1. CASE i \in exposed /\ i \notin damage
            <4>1. cached[i] = clock
                BY <1>4, <3>1
            <4> QED BY <1>10, <4>1
        <3>2. CASE i \notin exposed \/ i \in damage
            BY <1>8, <1>11, <3>2 DEF Served
        <3> QED BY <3>1, <3>2
    <2> QED BY <1>7, <1>9, <1>11, <2>1 DEF Served
<1>12. ServedKept
    BY <1>7, <1>9, <1>10, <1>11 DEF ServedKept
<1>13. ReadOK(r)'
    <2>1. q.version \in 0..clock
        BY <1>3, <1>10
    <2>2. Served(q.item, q.version)'
        BY <1>3, <1>11, <2>1
    <2> QED BY <1>3, <1>4, <1>6, <1>7, <2>2 DEF ReadOK
<1> QED BY <1>7, <1>8, <1>12, <1>13, ReadContinue

(* What a flush takes from the cache stays there.                           *)
LEMMA FlushServes ==
    ASSUME ReadInv, NEW a \in Actors, SMembers(a) \/ FGet(a) \/ FUpsert(a) \/ SRem(a)
    PROVE  (\A b \in Actors : ReadOK(req[b])') /\ \A i \in Items : Served(i, acked[i])'
<1>1. CacheInv
    BY DEF ReadInv
<1>2. PICK q \in RequestState : /\ q = req[a] /\ ReadOK(q) /\ RequestOK(q, clock)
                                /\ q.pc \in {"smembers", "fget", "fupsert", "srem"}
    BY <1>1, Known DEF SMembers, FGet, FUpsert, SRem, ReadInv
<1>3. WriteBack /\ q.op \notin {"read", "write"} /\ q.need <= clock /\ clock \in Nat
    BY <1>1, <1>2, Known DEF RequestOK, WritePoints, Flushing, ReadOK, ReadPoints
<1>4. UNCHANGED <<strategy, cached, clock, acked, epoch>>
    BY DEF SMembers, FGet, FUpsert, SRem, data
<1>5. PICK r, damage :
          /\ Continue(a, r, damage) /\ exposed \subseteq damage
          /\ r \in {Idle, [q EXCEPT !.pc = "answered", !.ids = {}, !.done = {}],
                    [q EXCEPT !.pc = "fget", !.ids = Batch(a)], Flushed(q),
                    [q EXCEPT !.pc = "fupsert", !.version = cached[Min(q.ids)]]}
    <2>1. CASE SMembers(a)
        BY <1>2, <2>1 DEF SMembers, Returned
    <2>2. CASE FGet(a)
        BY <1>2, <2>2 DEF FGet
    <2>3. CASE FUpsert(a)
        <3>1. PICK damage : /\ Continue(a, Flushed(q), damage)
                            /\ damage \in {exposed, exposed \cup {Min(q.ids)}}
            BY <1>2, <2>3 DEF FUpsert
        <3> QED BY <3>1
    <2>4. CASE SRem(a)
        BY <1>2, <2>4 DEF SRem, Returned
    <2> QED BY <2>1, <2>2, <2>3, <2>4
<1>6. r.op \notin {"read", "write"} /\ r.need <= clock /\ r.pc # "fill"
    <2>1. CASE r = Idle
        BY <1>3, <2>1 DEF Idle, Absent
    <2>2. CASE r = [q EXCEPT !.pc = "answered", !.ids = {}, !.done = {}]
        BY <1>2, <1>3, <2>2 DEF RequestState
    <2>3. CASE r = [q EXCEPT !.pc = "fget", !.ids = Batch(a)]
        BY <1>2, <1>3, <2>3 DEF RequestState
    <2>4. CASE r = [q EXCEPT !.pc = "fupsert", !.version = cached[Min(q.ids)]]
        BY <1>2, <1>3, <2>4 DEF RequestState
    <2>5. CASE r = Flushed(q)
        <3>1. PICK i : i = Min(q.ids)
            OBVIOUS
        <3>2. PICK pc \in {"srem", "fget"} : pc = IF q.ids = {i} THEN "srem" ELSE "fget"
            OBVIOUS
        <3>3. r = [q EXCEPT !.ids = @ \ {i}, !.done = @ \cup {i}, !.pc = pc]
            BY <2>5, <3>1, <3>2 DEF Flushed
        <3>4. r.op = q.op /\ r.need = q.need /\ r.pc = pc
            BY <1>2, <3>3 DEF RequestState
        <3> QED BY <1>3, <3>2, <3>4
    <2> QED BY <1>5, <2>1, <2>2, <2>3, <2>4, <2>5
<1>7. WriteBack' = WriteBack /\ (\A v : Owed(v)' = Owed(v)) /\ exposed \subseteq exposed'
    BY <1>4, <1>5 DEF WriteBack, Owed, Continue
<1>8. \A i, v : Served(i, v) => Served(i, v)'
    BY <1>3, <1>4, <1>7 DEF Served
<1>9. ServedKept
    BY <1>3, <1>4, <1>7, <1>8 DEF ServedKept
<1>10. ReadOK(r)'
    BY <1>4, <1>6 DEF ReadOK
<1> QED BY <1>4, <1>5, <1>9, <1>10, ReadContinue

(* Nothing is owed after a reset.                                           *)
LEMMA ResetServes ==
    ASSUME ReadInv, NEW a \in Actors, Clear(a) \/ Truncate(a)
    PROVE  (\A b \in Actors : ReadOK(req[b])') /\ \A i \in Items : Served(i, acked[i])'
<1>1. CacheInv
    BY DEF ReadInv
<1>2. PICK q \in RequestState : /\ q = req[a] /\ ReadOK(q) /\ RequestOK(q, clock)
                                /\ q.pc \in {"clear", "truncate"}
    BY <1>1, Known DEF Clear, Truncate, ReadInv
<1>3. q.op \notin {"read", "write"} /\ q.need <= clock /\ clock \in Nat
    BY <1>1, <1>2, Known DEF RequestOK, WritePoints, ReadOK, ReadPoints
<1>4. PICK pc, damage : pc \in {"truncate", "answered"} /\ Continue(a, [q EXCEPT !.pc = pc], damage)
    BY <1>2 DEF Clear, Truncate
<1>5. PICK r : r = [q EXCEPT !.pc = pc]
    OBVIOUS
<1>6. r.op = q.op /\ r.need = q.need /\ r.pc = pc
    BY <1>2, <1>5 DEF RequestState
<1>7. UNCHANGED <<strategy, clock, acked>> /\ epoch' = clock
    BY DEF Clear, Truncate
<1>8. cached' \in [Items -> Nat] /\ stored' \in [Items -> Nat]
    <2>1. cached' \in {cached, [i \in Items |-> Absent]} /\ stored' \in {stored, [i \in Items |-> Seed]}
        BY DEF Clear, Truncate
    <2> QED BY <1>1, <2>1, Known DEF Absent, Seed
<1>9. \A v \in 0..clock : Owed(v)' = Absent
    BY <1>3, <1>7 DEF Owed
<1>10. ASSUME NEW i \in Items, NEW v \in 0..clock PROVE Owed(v)' <= stored'[i] /\ Served(i, v)'
    <2>1. Owed(v)' = 0 /\ 0 <= stored'[i] /\ 0 <= cached'[i]
        BY <1>8, <1>9 DEF Absent
    <2> QED BY <2>1 DEF Served, Absent
<1>11. ServedKept
    BY <1>3, <1>7, <1>9, <1>10 DEF ServedKept
<1>12. ReadOK(r)'
    BY <1>3, <1>4, <1>6, <1>7 DEF ReadOK
<1> QED BY <1>4, <1>5, <1>7, <1>11, <1>12, ReadContinue

(* One command.                                                             *)
LEMMA CommandServes ==
    ASSUME ReadInv, NEW a \in Actors, Command(a)
    PROVE  (\A b \in Actors : ReadOK(req[b])') /\ \A i \in Items : Served(i, acked[i])'
<1>1. CASE Fill(a) \/ Store(a)
    <2>1. req[a].pc \in {"fill", "store"} /\ SetRow(a)
        BY <1>1 DEF Fill, Store
    <2> QED BY <2>1, SetRowServes
<1>2. CASE Get(a) \/ Select(a)
    BY <1>2, GetServes, SelectServes
<1>3. CASE Upsert(a) \/ Evict(a) \/ Set(a) \/ SAdd(a) \/ SCard(a)
    BY <1>3, UpsertServes, EvictServes, SetServes, SAddServes
<1>4. CASE SMembers(a) \/ FGet(a) \/ FUpsert(a) \/ SRem(a)
    BY <1>4, FlushServes
<1>5. CASE Clear(a) \/ Truncate(a)
    BY <1>5, ResetServes
<1> QED BY <1>1, <1>2, <1>3, <1>4, <1>5 DEF Command

(* An idle request is owed nothing.                                         *)
LEMMA IdleReads == clock' \in Nat => ReadOK(Idle)'
BY DEF ReadOK, Idle, Absent

(* A read begins with what is acknowledged, all of which is served.         *)
LEMMA BeginServes ==
    ASSUME ReadInv, NEW t \in Threads, NEW op \in {"read", "write", "flush", "reset"},
           NEW i \in Items \cup {Absent}, op \in {"read", "write"} => i \in Items,
           Begin(t, op, i)
    PROVE  (\A b \in Actors : ReadOK(req[b])') /\ \A j \in Items : Served(j, acked[j])'
<1>1. CacheInv /\ \A j \in Items : Served(j, acked[j])
    BY DEF ReadInv
<1>2. /\ acked \in [Items -> Nat] /\ clock \in Nat
      /\ \A j \in Items : acked[j] \in Nat /\ acked[j] <= clock
    BY <1>1 DEF CacheInv, CacheTypeOK
<1>3. PICK n : n = IF i = Absent THEN Absent ELSE acked[i]
    OBVIOUS
<1>4. 0 \notin Items
    BY CacheAssumption DEF CacheAssumption
<1>5. n <= clock /\ (i \in Items => n = acked[i])
    <2>1. CASE i = Absent
        <3>1. n = 0 /\ i \notin Items
            BY <1>3, <1>4, <2>1 DEF Absent
        <3> QED BY <1>2, <3>1
    <2>2. CASE i # Absent
        BY <1>2, <1>3, <2>2
    <2> QED BY <2>1, <2>2
<1>6. PICK q : q = [Idle EXCEPT !.op = op, !.pc = FirstPoint(op), !.item = i, !.need = n]
    OBVIOUS
<1>7. /\ q.op = op /\ q.item = i /\ q.need = n
      /\ op = "read" => q.pc = "get"
      /\ op = "write" => q.pc \in {"set", "upsert"}
      /\ q.pc # "fill"
    BY <1>6 DEF Idle, FirstPoint
<1>8. /\ req' = [req EXCEPT ![t] = q] /\ t \in Actors
      /\ UNCHANGED <<strategy, data, acked, epoch, exposed>>
    BY <1>3, <1>6 DEF Begin, Actors
<1>9. UNCHANGED <<strategy, cached, stored, clock, acked, epoch, exposed>>
    BY <1>8 DEF data
<1>10. op = "read" => Served(i, n)'
    BY <1>1, <1>5, <1>9 DEF Served, Owed, WriteBack
<1>11. ReadOK(q)'
    BY <1>5, <1>7, <1>9, <1>10 DEF ReadOK, ReadPoints
<1>12. ServedKept
    BY <1>1, <1>8, QuietServes
<1> QED BY <1>1, <1>2, <1>8, <1>9, <1>11, <1>12, ReadStep

(* A version that is acknowledged is served.                                *)
LEMMA ReplyServes ==
    ASSUME ReadInv, NEW t \in Threads, NEW heard, Reply(t, heard)
    PROVE  (\A b \in Actors : ReadOK(req[b])') /\ \A j \in Items : Served(j, acked[j])'
<1>1. CacheInv /\ (\A j \in Items : Served(j, acked[j])) /\ t \in Actors
    BY DEF ReadInv, Actors
<1>2. /\ acked \in [Items -> Nat] /\ clock \in Nat
      /\ \A j \in Items : acked[j] \in Nat /\ acked[j] <= clock
    BY <1>1 DEF CacheInv, CacheTypeOK
<1>3. PICK q \in RequestState : q = req[t] /\ ReadOK(q) /\ RequestOK(q, clock)
    BY <1>1, Known DEF ReadInv
<1>4. PICK e : e = Idle
    OBVIOUS
<1>5. /\ req' = [req EXCEPT ![t] = e]
      /\ UNCHANGED <<strategy, data, epoch, exposed>>
      /\ \/ acked' = acked
         \/ q.op = "write" /\ q.pc = "answered" /\ acked' = [acked EXCEPT ![q.item] = q.version]
    BY <1>3, <1>4 DEF Reply
<1>6. ASSUME NEW j \in Items
      PROVE  acked'[j] \in Nat /\ acked'[j] <= clock /\ Served(j, acked'[j])
    <2>1. CASE acked' = acked
        BY <1>1, <1>2, <2>1
    <2>2. CASE q.op = "write" /\ q.pc = "answered" /\ acked' = [acked EXCEPT ![q.item] = q.version]
        <3>1. q.item \in Items /\ q.version \in Nat /\ q.version <= clock /\ Served(q.item, q.version)
            BY <1>3, <2>2 DEF RequestOK, ReadOK, RequestState
        <3>2. CASE j = q.item
            <4>1. acked'[j] = q.version
                BY <1>2, <2>2, <3>2
            <4> QED BY <3>1, <3>2, <4>1
        <3>3. CASE j # q.item
            <4>1. acked'[j] = acked[j]
                BY <1>2, <2>2, <3>3
            <4> QED BY <1>1, <1>2, <4>1
        <3> QED BY <3>2, <3>3
    <2> QED BY <1>5, <2>1, <2>2
<1>7. ReadOK(e)'
    BY <1>2, <1>4, <1>5, IdleReads DEF data
<1>8. ServedKept
    BY <1>1, <1>5, QuietServes
<1> QED BY <1>1, <1>5, <1>6, <1>7, <1>8, ReadStep

(* Every step of the service and of the generator.                          *)
LEMMA ReadStepInv ==
    ASSUME ReadInv, [ExperimentNext]_experimentVars
    PROVE  ReadInv'
<1>1. CacheInv /\ CacheInv'
    BY ExperimentStepInv DEF ReadInv
<1>2. clock \in Nat /\ acked \in [Items -> Nat] /\ \A i \in Items : acked[i] <= clock
    BY <1>1 DEF CacheInv, CacheTypeOK
<1> DEFINE Goal == (\A b \in Actors : ReadOK(req[b])') /\ \A i \in Items : Served(i, acked[i])'
<1>3. ASSUME NEW t \in Threads, SendReset(t) \/ SendFlush(t) \/ SendOperation(t) PROVE Goal
    <2>1. PICK op \in {"read", "write", "flush", "reset"}, i \in Items \cup {Absent} :
              Begin(t, op, i) /\ (op \in {"read", "write"} => i \in Items)
        BY <1>3 DEF SendReset, SendFlush, SendOperation, Operations
    <2> QED BY <2>1, BeginServes
<1>4. ASSUME NEW t \in Threads, Answer(t) PROVE Goal
    <2>1. PICK heard : heard = (t \in awaited)
        OBVIOUS
    <2> QED BY <1>4, <2>1, ReplyServes DEF Answer
<1>5. ASSUME NEW a \in Actors, Serve(a) PROVE Goal
    BY <1>5, CommandServes DEF Serve
<1>6. ASSUME NEW a \in Actors, Fail(a) PROVE Goal
    <2>1. /\ UNCHANGED <<strategy, data, acked, epoch>> /\ Abort(a)
          /\ exposed' = exposed \cup Incoherent(cached, stored, dirty)
        BY <1>6 DEF Fail, Refused
    <2>2. UNCHANGED <<cached, stored, dirty, clock>>
        BY <2>1 DEF data
    <2>3. PICK e : e = Idle
        OBVIOUS
    <2>4. Continue(a, e, exposed)
        BY <2>1, <2>2 DEF Continue
    <2>5. ServedKept
        BY <1>1, <2>1, QuietServes
    <2>6. ReadOK(e)'
        BY <1>2, <2>2, <2>3, IdleReads
    <2> QED BY <2>1, <2>4, <2>5, <2>6, ReadContinue
<1>7. ASSUME WakeUp PROVE Goal
    <2>1. PICK q : q = [Idle EXCEPT !.op = "flush", !.pc = "smembers"]
        OBVIOUS
    <2>2. /\ req' = [req EXCEPT ![FlushTask] = q] /\ FlushTask \in Actors
          /\ UNCHANGED <<strategy, data, acked, epoch, exposed>>
        BY <1>7, <2>1 DEF WakeUp, Wake, Actors
    <2>3. ServedKept
        BY <1>1, <2>2, QuietServes
    <2>4. q.op = "flush" /\ q.pc = "smembers" /\ q.need = 0
        BY <2>1 DEF Idle, Absent
    <2>5. clock' = clock /\ acked' = acked
        BY <2>2 DEF data
    <2>6. ReadOK(q)'
        BY <1>2, <2>4, <2>5 DEF ReadOK
    <2>7. \A i \in Items : acked'[i] \in Nat /\ acked'[i] <= clock /\ Served(i, acked'[i])
        BY <1>2, <2>5 DEF ReadInv
    <2> QED BY <2>2, <2>3, <2>6, <2>7, ReadStep
<1>8. ASSUME ServiceRestarts PROVE Goal
    <2>1. /\ UNCHANGED <<strategy, data, acked, epoch>> /\ exposed \subseteq exposed'
          /\ req' = [b \in Actors |-> Idle]
        BY <1>8 DEF ServiceRestarts, RestartService
    <2>2. ServedKept
        BY <1>1, <2>1, QuietServes
    <2>3. clock' = clock /\ acked' = acked
        BY <2>1 DEF data
    <2>4. ASSUME NEW b \in Actors PROVE ReadOK(req[b])'
        <3>1. req'[b] = Idle
            BY <2>1
        <3>2. ReadOK(Idle)'
            BY <1>2, <2>3, IdleReads
        <3> QED BY <3>1, <3>2 DEF ReadOK, Idle
    <2>5. ASSUME NEW i \in Items PROVE Served(i, acked[i])'
        <3>1. PICK v \in 0..clock : v = acked[i] /\ Served(i, v)
            BY <1>2 DEF ReadInv
        <3>2. Served(i, v)'
            BY <2>2, <3>1 DEF ServedKept
        <3> QED BY <2>3, <3>1, <3>2 DEF Served
    <2> QED BY <2>4, <2>5
<1>9. ASSUME UNCHANGED <<strategy, data, req, acked, epoch, exposed>> PROVE Goal
    <2>1. UNCHANGED <<strategy, cached, stored, clock, req, acked, epoch, exposed>>
        BY <1>9 DEF data
    <2> QED BY <2>1 DEF ReadInv, ReadOK, Served, Owed, WriteBack
<1>10. ASSUME NEW t \in Threads, GiveUp(t) PROVE Goal
    BY <1>9, <1>10 DEF GiveUp
<1>11. ASSUME BuildRow \/ Rerun \/ UNCHANGED experimentVars PROVE Goal
    BY <1>9, <1>11 DEF BuildRow, Rerun, experimentVars, cacheVars
<1>12. Goal
    BY <1>3, <1>4, <1>5, <1>6, <1>7, <1>8, <1>10, <1>11 DEF ExperimentNext
<1> QED BY <1>1, <1>12 DEF ReadInv

(* A read that begins after a write was acknowledged returns that write or  *)
(* a later one, under every strategy and whatever other requests, flushes   *)
(* and faults come between, unless a reset cut in or the item is exposed.   *)
THEOREM ReadSeesAckedWriteCorrect == ExperimentSpec => []ReadSeesAckedWrite
<1>1. ExperimentInit => ReadInv
    <2> SUFFICES ASSUME ExperimentInit PROVE ReadInv
        OBVIOUS
    <2>1. CacheInv
        BY CacheInitInv DEF ExperimentInit
    <2>2. ASSUME NEW a \in Actors PROVE ReadOK(req[a])
        <3>1. req[a] = Idle /\ clock = 1
            BY DEF ExperimentInit, CacheInit, Seed
        <3> QED BY <3>1 DEF ReadOK, Idle, Absent
    <2>3. ASSUME NEW i \in Items PROVE Served(i, acked[i])
        BY DEF ExperimentInit, CacheInit, Served, Owed, Absent, Seed
    <2> QED BY <2>1, <2>2, <2>3 DEF ReadInv
<1>2. ReadInv /\ [ExperimentNext]_experimentVars => ReadInv'
    BY ReadStepInv
<1>3. ReadInv => ReadSeesAckedWrite
    BY DEF ReadInv, ReadOK, ReadSeesAckedWrite, Actors
<1> QED BY <1>1, <1>2, <1>3, PTL DEF ExperimentSpec

-----------------------------------------------------------------------------
(* The load generator, as long as no client has given up and the generator  *)
(* was not started again: all requests are those it waits for.              *)

(* What the task of flush_forever does.                                     *)
FlushPoints == {"idle", "smembers", "dead"} \cup Flushing

(* Nothing is dirty and the flush task has taken no batch.                  *)
AllFlushed == dirty = {} /\ req[FlushTask].pc \notin Flushing

Clean == \A i \in Items : stored[i] = Seed /\ cached[i] = Absent

(* The reset and the flush, by what they have done so far.                  *)
ResetOK(q) ==
    /\ q.op = "reset" /\ q.pc \in {"clear", "truncate", "answered", "failed"}
    /\ q.pc \in {"truncate", "answered"} => \A i \in Items : cached[i] = Absent
    /\ q.pc = "answered" => Clean

FlushOK(q) ==
    /\ q.op = "flush" /\ q.pc \in {"smembers", "answered", "failed"} \cup Flushing
    /\ q.pc \in Flushing => dirty \subseteq q.ids \cup q.done
    /\ q.pc = "srem" => dirty \subseteq q.done
    /\ q.pc = "answered" => AllFlushed

(* What each phase can rely on.  Before its first operation a workload is   *)
(* clean; after the reset there is nothing to flush, and after the flush    *)
(* neither.                                                                 *)
Undisturbed ==
    /\ \A t \in Threads : req[t].pc # "idle" => t \in awaited
    /\ phase \in {"reset", "after", "done", "raised"} => awaited = {}
    /\ phase = "resetting" => \E t \in Threads : awaited = {t} /\ ResetOK(req[t])
    /\ phase = "flushing" => \E t \in Threads : awaited = {t} /\ FlushOK(req[t])
    /\ phase \in {"reset", "resetting", "after"} => AllFlushed
    /\ phase = "load" =>
           /\ left <= Planned
           /\ left = Planned => awaited = {} /\ Clean /\ AllFlushed

ExperimentInv ==
    /\ CacheInv
    /\ LoadTypeOK
    /\ phase # "done" => workloads < Workloads
    /\ req[FlushTask].pc \in FlushPoints
    /\ ~disturbed => Undisturbed

(* The bounds of the workloads.                                             *)
LEMMA PlannedIs ==
    ASSUME CacheInv, LoadTypeOK
    PROVE  /\ Planned \in Nat /\ Planned <= Requests[strategy]
           /\ Requests[strategy] \in Nat /\ left \in Nat
<1>1. strategy \in Strategies
    BY DEF CacheInv, CacheTypeOK
<1>2. Requests[strategy] \in Nat /\ {Later, Further} \subseteq 0..Requests[strategy]
    BY <1>1, LoadAssumption DEF LoadAssumption
<1>3. Planned \in 0..Requests[strategy]
    BY <1>2 DEF Planned
<1>4. left \in 0..Requests[strategy]
    BY DEF LoadTypeOK
<1> QED BY <1>2, <1>3, <1>4

(* A command moves its own request alone.                                   *)
LEMMA Moves ==
    ASSUME CacheInv, NEW a \in Actors, Command(a) \/ Refused(a)
    PROVE  /\ req[a].pc \notin {"idle", "answered", "failed", "dead"}
           /\ UNCHANGED strategy
           /\ \A b \in Actors \ {a} : req'[b] = req[b]
<1>1. req \in [Actors -> RequestState]
    BY Known
<1>2. CASE Refused(a)
    BY <1>1, <1>2 DEF Refused, Abort
<1>3. CASE Get(a) \/ Select(a)
    BY <1>1, <1>3 DEF Get, Select, Continue, Abort
<1>4. CASE Fill(a) \/ Store(a)
    <2>1. /\ req[a].pc \in {"fill", "store"} /\ UNCHANGED strategy
          /\ \E r, damage : Continue(a, r, damage)
        BY <1>4 DEF Fill, Store, SetRow
    <2> QED BY <1>1, <2>1 DEF Continue, Abort
<1>5. CASE Upsert(a) \/ Evict(a)
    BY <1>1, <1>5 DEF Upsert, Evict, Continue, Abort
<1>6. CASE Set(a) \/ SAdd(a) \/ SCard(a)
    <2>1. /\ req[a].pc \in {"set", "sadd", "scard"} /\ UNCHANGED strategy
          /\ \E r, damage : Continue(a, r, damage)
        BY <1>6 DEF Set, SAdd, SCard
    <2> QED BY <1>1, <2>1 DEF Continue, Abort
<1>7. CASE SMembers(a) \/ FGet(a) \/ FUpsert(a) \/ SRem(a)
    <2>1. /\ req[a].pc \in {"smembers", "fget", "fupsert", "srem"} /\ UNCHANGED strategy
          /\ \E r, damage : Continue(a, r, damage)
        BY <1>7 DEF SMembers, FGet, FUpsert, SRem
    <2> QED BY <1>1, <2>1 DEF Continue, Abort
<1>8. CASE Clear(a) \/ Truncate(a)
    <2>1. /\ req[a].pc \in {"clear", "truncate"} /\ UNCHANGED strategy
          /\ \E r, damage : Continue(a, r, damage)
        BY <1>8 DEF Clear, Truncate
    <2> QED BY <1>1, <2>1 DEF Continue, Abort
<1> QED BY <1>2, <1>3, <1>4, <1>5, <1>6, <1>7, <1>8 DEF Command

(* A failure ends a request of a client, and the flush task.                *)
LEMMA Aborted ==
    ASSUME CacheInv, NEW a \in Actors, Abort(a)
    PROVE  /\ req'[a].op = req[a].op
           /\ req'[a].pc = IF a = FlushTask THEN "dead" ELSE "failed"
<1>1. req \in [Actors -> RequestState] /\ req[a] \in RequestState
    BY Known
<1>2. PICK q \in RequestState : q = req[a]
    BY <1>1
<1>3. PICK pc : pc = IF a = FlushTask THEN "dead" ELSE "failed"
    OBVIOUS
<1>4. PICK f : f = [q EXCEPT !.pc = pc]
    OBVIOUS
<1>5. f.op = q.op /\ f.pc = pc
    BY <1>4 DEF RequestState
<1>6. req'[a] = f
    BY <1>1, <1>2, <1>3, <1>4 DEF Abort
<1> QED BY <1>2, <1>3, <1>5, <1>6

(* The request after a command.                                             *)
LEMMA Continued ==
    ASSUME CacheInv, NEW a \in Actors, NEW r, NEW damage, Continue(a, r, damage)
    PROVE  req'[a] = r \/ Abort(a)
BY Known DEF Continue

(* What the reset does, step by step; nothing becomes dirty.                *)
LEMMA ThreadResets ==
    ASSUME CacheInv, NEW t \in Threads, ResetOK(req[t]), dirty = {}, Command(t) \/ Refused(t)
    PROVE  ResetOK(req[t])' /\ dirty' = {}
<1>1. PICK q \in RequestState : q = req[t] /\ ResetOK(q)
    BY Known DEF Actors
<1>2. t \in Actors /\ t # FlushTask /\ q.pc \notin {"answered", "failed"}
    BY <1>1, CacheAssumption, Moves DEF CacheAssumption, Actors
<1>3. q.op = "reset" /\ q.pc \in {"clear", "truncate"}
    BY <1>1, <1>2 DEF ResetOK
<1>4. ASSUME Abort(t) PROVE ResetOK(req[t])'
    <2>1. req'[t].op = "reset" /\ req'[t].pc = "failed"
        BY <1>1, <1>2, <1>3, <1>4, Aborted
    <2> QED BY <2>1 DEF ResetOK
<1>5. CASE Refused(t)
    BY <1>4, <1>5 DEF Refused, data
<1>6. CASE Clear(t)
    <2>1. PICK r : r = [q EXCEPT !.pc = "truncate"]
        OBVIOUS
    <2>2. r.op = "reset" /\ r.pc = "truncate"
        BY <1>3, <2>1 DEF RequestState
    <2>3. Continue(t, r, {}) /\ dirty' = {} /\ \A i \in Items : cached'[i] = Absent
        BY <1>1, <1>6, <2>1 DEF Clear
    <2>4. req'[t] = r \/ Abort(t)
        BY <1>2, <2>3, Continued
    <2>5. ResetOK(r)'
        BY <2>2, <2>3 DEF ResetOK
    <2> QED BY <1>4, <2>3, <2>4, <2>5 DEF ResetOK
<1>7. CASE Truncate(t)
    <2>1. PICK r : r = [q EXCEPT !.pc = "answered"]
        OBVIOUS
    <2>2. r.op = "reset" /\ r.pc = "answered"
        BY <1>3, <2>1 DEF RequestState
    <2>3. /\ dirty' = {}
          /\ \A i \in Items : cached'[i] = Absent /\ stored'[i] = Seed
          /\ \E damage : Continue(t, r, damage)
        BY <1>1, <1>7, <2>1 DEF Truncate, ResetOK
    <2>4. req'[t] = r \/ Abort(t)
        BY <1>2, <2>3, Continued
    <2>5. ResetOK(r)'
        BY <2>2, <2>3 DEF ResetOK, Clean
    <2> QED BY <1>4, <2>3, <2>4, <2>5 DEF ResetOK, Clean
<1>8. Clear(t) \/ Truncate(t) \/ Refused(t)
    BY <1>1, <1>3 DEF Command, Get, Select, Fill, Upsert, Evict, Store, Set, SAdd, SCard,
                      SMembers, FGet, FUpsert, SRem
<1> QED BY <1>5, <1>6, <1>7, <1>8

(* Counting an id as flushed loses none of the batch.                       *)
LEMMA FlushesOn ==
    ASSUME NEW q \in RequestState, FlushOK(q), q.pc \in {"fget", "fupsert"}, q.ids # {},
           WriteBack, dirty' = dirty
    PROVE  FlushOK(Flushed(q))'
<1>1. q.op = "flush" /\ dirty \subseteq q.ids \cup q.done
    BY DEF FlushOK, Flushing
<1>2. PICK i : i = Min(q.ids)
    OBVIOUS
<1>3. PICK pc \in {"srem", "fget"} : pc = IF q.ids = {i} THEN "srem" ELSE "fget"
    OBVIOUS
<1>4. PICK f : f = [q EXCEPT !.ids = @ \ {i}, !.done = @ \cup {i}, !.pc = pc]
    OBVIOUS
<1>5. f.op = "flush" /\ f.ids = q.ids \ {i} /\ f.done = q.done \cup {i} /\ f.pc = pc
    BY <1>1, <1>4 DEF RequestState
<1>6. dirty' \subseteq f.ids \cup f.done /\ (f.pc = "srem" => dirty' \subseteq f.done)
    BY <1>1, <1>3, <1>5
<1>7. FlushOK(f)'
    BY <1>3, <1>5, <1>6 DEF FlushOK, Flushing
<1>8. f = Flushed(q)
    BY <1>2, <1>3, <1>4 DEF Flushed
<1> QED BY <1>7, <1>8 DEF FlushOK

(* The administrator's flush takes the whole dirty set, under the lock.     *)
LEMMA ThreadFlushes ==
    ASSUME CacheInv, NEW t \in Threads, FlushOK(req[t]), Command(t) \/ Refused(t)
    PROVE  FlushOK(req[t])'
<1>1. PICK q \in RequestState : q = req[t] /\ FlushOK(q) /\ RequestOK(q, clock)
    BY Known DEF Actors
<1>2. /\ t \in Actors /\ FlushTask \in Actors /\ t # FlushTask /\ q.pc \notin {"answered", "failed"}
      /\ req'[FlushTask] = req[FlushTask]
    BY <1>1, CacheAssumption, Moves DEF CacheAssumption, Actors
<1>3. q.op = "flush" /\ q.pc \in {"smembers", "fget", "fupsert", "srem"} /\ WriteBack
    BY <1>1, <1>2 DEF FlushOK, Flushing, RequestOK
<1>4. ASSUME Abort(t) PROVE FlushOK(req[t])'
    <2>1. req'[t].op = "flush" /\ req'[t].pc = "failed"
        BY <1>1, <1>2, <1>3, <1>4, Aborted
    <2> QED BY <2>1 DEF FlushOK, Flushing
<1>5. q.pc \in Locked => req[FlushTask].pc \notin Locked
    BY <1>1, <1>2 DEF CacheInv, CacheTypeOK
<1>6. ASSUME NEW r, r.op = "flush", r.pc = "answered", dirty' = {}, req[FlushTask].pc \notin Flushing
      PROVE  FlushOK(r)'
    BY <1>2, <1>6 DEF FlushOK, Flushing, AllFlushed
<1>7. PICK e : e = [q EXCEPT !.pc = "answered", !.ids = {}, !.done = {}]
    OBVIOUS
<1>8. e.op = "flush" /\ e.pc = "answered"
    BY <1>3, <1>7 DEF RequestState
<1>9. CASE Refused(t)
    BY <1>4, <1>9 DEF Refused
<1>10. CASE SMembers(t)
    <2>1. Batch(t) = dirty /\ dirty' = dirty /\ req[FlushTask].pc \notin Flushing
        BY <1>2, <1>10 DEF Batch, SMembers, data, LockIsFree, Locked, Flushing
    <2>2. CASE dirty = {}
        <3>1. Continue(t, e, exposed)
            BY <1>1, <1>2, <1>7, <1>10, <2>1, <2>2 DEF SMembers, Returned
        <3>2. FlushOK(e)'
            BY <1>6, <1>8, <2>1, <2>2
        <3>3. req'[t] = e \/ Abort(t)
            BY <1>2, <3>1, Continued
        <3> QED BY <1>4, <3>2, <3>3 DEF FlushOK
    <2>3. CASE dirty # {}
        <3>1. PICK r : r = [q EXCEPT !.pc = "fget", !.ids = dirty]
            OBVIOUS
        <3>2. r.op = "flush" /\ r.pc = "fget" /\ r.ids = dirty
            BY <1>3, <3>1 DEF RequestState
        <3>3. Continue(t, r, exposed)
            BY <1>1, <1>10, <2>1, <2>3, <3>1 DEF SMembers
        <3>4. FlushOK(r)'
            BY <2>1, <3>2 DEF FlushOK, Flushing
        <3>5. req'[t] = r \/ Abort(t)
            BY <1>2, <3>3, Continued
        <3> QED BY <1>4, <3>4, <3>5 DEF FlushOK
    <2> QED BY <2>2, <2>3
<1>11. CASE FGet(t) \/ FUpsert(t)
    <2>1. dirty' = dirty /\ q.pc \in {"fget", "fupsert"} /\ q.ids # {}
        BY <1>1, <1>11 DEF FGet, FUpsert, data, RequestOK
    <2>2. PICK f : f = Flushed(q)
        OBVIOUS
    <2>3. PICK r : r = [q EXCEPT !.pc = "fupsert", !.version = cached[Min(q.ids)]]
        OBVIOUS
    <2>4. r.op = q.op /\ r.pc = "fupsert" /\ r.ids = q.ids /\ r.done = q.done
        BY <2>3 DEF RequestState
    <2>5. FlushOK(f)'
        BY <1>1, <1>3, <2>1, <2>2, FlushesOn DEF FlushOK
    <2>6. FlushOK(r)'
        BY <1>1, <1>3, <2>1, <2>4 DEF FlushOK, Flushing
    <2>7. \E damage : Continue(t, f, damage) \/ Continue(t, r, damage)
        <3>1. CASE FGet(t)
            BY <1>1, <2>2, <2>3, <3>1 DEF FGet
        <3>2. CASE FUpsert(t)
            BY <1>1, <2>2, <3>2 DEF FUpsert
        <3> QED BY <1>11, <3>1, <3>2
    <2>8. req'[t] = f \/ req'[t] = r \/ Abort(t)
        BY <1>2, <2>7, Continued
    <2> QED BY <1>4, <2>5, <2>6, <2>8 DEF FlushOK
<1>12. CASE SRem(t)
    <2>1. q.pc = "srem" /\ dirty' = dirty \ q.done /\ dirty \subseteq q.done
        BY <1>1, <1>12 DEF SRem, FlushOK
    <2>2. dirty' = {} /\ req[FlushTask].pc \notin Flushing
        BY <1>5, <2>1 DEF Locked, Flushing
    <2>3. Continue(t, e, exposed)
        BY <1>1, <1>2, <1>7, <1>12 DEF SRem, Returned
    <2>4. FlushOK(e)'
        BY <1>6, <1>8, <2>2
    <2>5. req'[t] = e \/ Abort(t)
        BY <1>2, <2>3, Continued
    <2> QED BY <1>4, <2>4, <2>5 DEF FlushOK
<1>13. SMembers(t) \/ FGet(t) \/ FUpsert(t) \/ SRem(t) \/ Refused(t)
    BY <1>1, <1>3 DEF Command, Get, Select, Fill, Upsert, Evict, Store, Set, SAdd, SCard,
                      Clear, Truncate
<1> QED BY <1>9, <1>10, <1>11, <1>12, <1>13

(* The flush task: with nothing dirty it touches nothing, and it waits for  *)
(* the lock while the administrator's flush holds it.                       *)
LEMMA FlushTaskKeeps ==
    ASSUME CacheInv, req[FlushTask].pc \in FlushPoints, Command(FlushTask) \/ Refused(FlushTask)
    PROVE  /\ req'[FlushTask].pc \in FlushPoints
           /\ AllFlushed => AllFlushed' /\ UNCHANGED <<cached, stored>>
           /\ \A t \in Threads : FlushOK(req[t]) => FlushOK(req[t])'
<1>1. FlushTask \in Actors /\ FlushTask \notin Threads /\ Threads \subseteq Actors
    BY CacheAssumption DEF CacheAssumption, Actors
<1>2. PICK q \in RequestState : q = req[FlushTask] /\ RequestOK(q, clock) /\ q.pc \in FlushPoints
    BY <1>1, Known
<1>3. q.pc \in {"smembers", "fget", "fupsert", "srem"}
    BY <1>1, <1>2, Moves DEF FlushPoints, Flushing
<1>4. \A t \in Threads : req'[t] = req[t]
    BY <1>1, Moves
<1>5. Abort(FlushTask) => req'[FlushTask].pc = "dead"
    BY <1>1, Aborted
<1>6. PICK e : e = Idle
    OBVIOUS
<1>7. e.pc = "idle"
    BY <1>6 DEF Idle
<1>8. \/ Refused(FlushTask) \/ SMembers(FlushTask)
      \/ FGet(FlushTask) \/ FUpsert(FlushTask) \/ SRem(FlushTask)
    BY <1>2, <1>3 DEF Command, Get, Select, Fill, Upsert, Evict, Store, Set, SAdd, SCard,
                      Clear, Truncate
<1>9. req'[FlushTask].pc \in {"idle", "dead"} \cup Flushing
    <2>1. CASE Refused(FlushTask)
        BY <1>5, <2>1 DEF Refused
    <2>2. CASE SMembers(FlushTask)
        <3>1. PICK r : r = [q EXCEPT !.pc = "fget", !.ids = Batch(FlushTask)]
            OBVIOUS
        <3>2. r.pc = "fget"
            BY <3>1 DEF RequestState
        <3>3. Continue(FlushTask, e, exposed) \/ Continue(FlushTask, r, exposed)
            BY <1>2, <1>6, <2>2, <3>1 DEF SMembers, Returned
        <3>4. req'[FlushTask] = e \/ req'[FlushTask] = r \/ Abort(FlushTask)
            BY <1>1, <3>3, Continued
        <3> QED BY <1>5, <1>7, <3>2, <3>4 DEF Flushing
    <2>3. CASE FGet(FlushTask) \/ FUpsert(FlushTask)
        <3>1. PICK f : f = Flushed(q)
            OBVIOUS
        <3>2. PICK r : r = [q EXCEPT !.pc = "fupsert", !.version = cached[Min(q.ids)]]
            OBVIOUS
        <3>3. q.ids # {} /\ q.op # "write" /\ WriteBack /\ q.pc \in {"fget", "fupsert"}
            BY <1>2, <2>3 DEF FGet, FUpsert, RequestOK, WritePoints, Flushing
        <3>4. f.pc \in {"fget", "srem"} /\ r.pc = "fupsert"
            BY <3>1, <3>2, <3>3, FlushedIs DEF RequestState
        <3>5. \E damage : Continue(FlushTask, f, damage) \/ Continue(FlushTask, r, damage)
            <4>1. CASE FGet(FlushTask)
                BY <1>2, <3>1, <3>2, <4>1 DEF FGet
            <4>2. CASE FUpsert(FlushTask)
                BY <1>2, <3>1, <4>2 DEF FUpsert
            <4> QED BY <2>3, <4>1, <4>2
        <3>6. req'[FlushTask] = f \/ req'[FlushTask] = r \/ Abort(FlushTask)
            BY <1>1, <3>5, Continued
        <3> QED BY <1>5, <3>4, <3>6 DEF Flushing
    <2>4. CASE SRem(FlushTask)
        <3>1. Continue(FlushTask, e, exposed)
            BY <1>6, <2>4 DEF SRem, Returned
        <3>2. req'[FlushTask] = e \/ Abort(FlushTask)
            BY <1>1, <3>1, Continued
        <3> QED BY <1>5, <1>7, <3>2
    <2> QED BY <1>8, <2>1, <2>2, <2>3, <2>4
<1>10. ASSUME AllFlushed PROVE AllFlushed' /\ UNCHANGED <<cached, stored>>
    <2>1. q.pc = "smembers" /\ dirty = {}
        BY <1>2, <1>3, <1>10 DEF AllFlushed, Flushing
    <2>2. Refused(FlushTask) \/ SMembers(FlushTask)
        BY <1>2, <1>8, <2>1 DEF FGet, FUpsert, SRem
    <2>3. UNCHANGED <<cached, stored, dirty>>
        BY <2>2 DEF Refused, SMembers, data
    <2>4. req'[FlushTask].pc \in {"idle", "dead"}
        <3>1. CASE Refused(FlushTask)
            BY <1>5, <3>1 DEF Refused
        <3>2. CASE SMembers(FlushTask)
            <4>1. Batch(FlushTask) = {}
                BY <2>1 DEF Batch
            <4>2. Continue(FlushTask, e, exposed)
                BY <1>6, <3>2, <4>1 DEF SMembers, Returned
            <4>3. req'[FlushTask] = e \/ Abort(FlushTask)
                BY <1>1, <4>2, Continued
            <4> QED BY <1>5, <1>7, <4>3
        <3> QED BY <2>2, <3>1, <3>2
    <2> QED BY <2>1, <2>3, <2>4 DEF AllFlushed, Flushing
<1>11. ASSUME NEW t \in Threads, FlushOK(req[t]) PROVE FlushOK(req[t])'
    <2>1. PICK p : p = req[t] /\ p = req'[t] /\ FlushOK(p)
        BY <1>4, <1>11
    <2>2. CASE p.pc \in Flushing
        <3>1. q.pc \notin Locked
            BY <1>1, <1>2, <2>1, <2>2 DEF CacheInv, CacheTypeOK, Locked, Flushing
        <3>2. ~LockIsFree
            BY <1>1, <2>1, <2>2 DEF LockIsFree, Locked, Flushing
        <3>3. Refused(FlushTask)
            BY <1>2, <1>8, <3>1, <3>2 DEF SMembers, FGet, FUpsert, SRem, Locked
        <3>4. dirty' = dirty
            BY <3>3 DEF Refused, data
        <3>5. p.pc # "answered"
            BY <2>2 DEF Flushing
        <3>6. FlushOK(p)'
            BY <2>1, <3>4, <3>5 DEF FlushOK
        <3> QED BY <2>1, <3>6 DEF FlushOK
    <2>3. CASE p.pc \notin Flushing
        <3>1. FlushOK(p)'
            BY <1>10, <2>1, <2>3 DEF FlushOK, Flushing
        <3> QED BY <2>1, <3>1 DEF FlushOK
    <2> QED BY <2>2, <2>3
<1> QED BY <1>9, <1>10, <1>11 DEF FlushPoints

(* A command of the service, while the generator waits.                     *)
LEMMA ServeKeeps ==
    ASSUME ExperimentInv, NEW a \in Actors, Command(a) \/ Refused(a), UNCHANGED driver
    PROVE  req'[FlushTask].pc \in FlushPoints /\ (~disturbed => Undisturbed')
<1>1. /\ CacheInv /\ LoadTypeOK /\ req[FlushTask].pc \in FlushPoints
      /\ ~disturbed => Undisturbed
    BY DEF ExperimentInv
<1>2. /\ FlushTask \in Actors /\ FlushTask \notin Threads
      /\ Threads \subseteq Actors /\ Actors = Threads \cup {FlushTask}
    BY CacheAssumption DEF CacheAssumption, Actors
<1>3. /\ req[a].pc \notin {"idle", "answered", "failed", "dead"}
      /\ \A b \in Actors \ {a} : req'[b] = req[b]
      /\ UNCHANGED strategy
    BY <1>1, Moves
<1>4. UNCHANGED <<phase, left, awaited, workloads, disturbed>>
    BY DEF driver
<1>5. Planned' = Planned
    BY <1>3, <1>4 DEF Planned
<1>6. req'[FlushTask].pc \in FlushPoints
    <2>1. CASE a = FlushTask
        BY <1>1, <2>1, FlushTaskKeeps
    <2>2. CASE a # FlushTask
        BY <1>1, <1>2, <1>3, <2>2
    <2> QED BY <2>1, <2>2
<1>7. ASSUME ~disturbed PROVE Undisturbed'
    <2>1. Undisturbed
        BY <1>1, <1>7
    <2>2. \A t \in Threads : req'[t].pc # "idle" => t \in awaited
        BY <1>2, <1>3, <2>1 DEF Undisturbed
    <2>3. a = FlushTask \/ a \in awaited
        BY <1>2, <1>3, <2>1 DEF Undisturbed
    <2>4. phase = "resetting" => \E t \in Threads : awaited = {t} /\ ResetOK(req[t])' /\ AllFlushed'
        <3> SUFFICES ASSUME phase = "resetting"
                     PROVE  \E t \in Threads : awaited = {t} /\ ResetOK(req[t])' /\ AllFlushed'
            OBVIOUS
        <3>1. PICK t \in Threads : awaited = {t} /\ ResetOK(req[t])
            BY <2>1 DEF Undisturbed
        <3>2. AllFlushed
            BY <2>1 DEF Undisturbed
        <3>3. CASE a = FlushTask
            <4>1. AllFlushed' /\ UNCHANGED <<cached, stored>>
                BY <1>1, <3>2, <3>3, FlushTaskKeeps
            <4>2. req'[t] = req[t]
                BY <1>2, <1>3, <3>3
            <4>3. ResetOK(req[t])'
                BY <3>1, <4>1, <4>2 DEF ResetOK, Clean
            <4> QED BY <3>1, <4>1, <4>3
        <3>4. CASE a = t
            <4>1. ResetOK(req[t])' /\ dirty' = {}
                BY <1>1, <3>1, <3>2, <3>4, ThreadResets DEF AllFlushed
            <4>2. AllFlushed'
                BY <1>2, <1>3, <3>2, <3>4, <4>1 DEF AllFlushed
            <4> QED BY <3>1, <4>1, <4>2
        <3> QED BY <2>3, <3>1, <3>3, <3>4
    <2>5. phase = "flushing" => \E t \in Threads : awaited = {t} /\ FlushOK(req[t])'
        <3> SUFFICES ASSUME phase = "flushing"
                     PROVE  \E t \in Threads : awaited = {t} /\ FlushOK(req[t])'
            OBVIOUS
        <3>1. PICK t \in Threads : awaited = {t} /\ FlushOK(req[t])
            BY <2>1 DEF Undisturbed
        <3>2. CASE a = FlushTask
            BY <1>1, <3>1, <3>2, FlushTaskKeeps
        <3>3. CASE a = t
            BY <1>1, <3>1, <3>3, ThreadFlushes
        <3> QED BY <2>3, <3>1, <3>2, <3>3
    <2>6. ASSUME AllFlushed, awaited = {} PROVE AllFlushed' /\ UNCHANGED <<cached, stored>>
        BY <1>1, <2>3, <2>6, FlushTaskKeeps
    <2>7. phase \in {"reset", "after"} => AllFlushed'
        BY <2>1, <2>6 DEF Undisturbed
    <2>8. phase = "load" /\ left = Planned => awaited = {} /\ Clean' /\ AllFlushed'
        BY <2>1, <2>6 DEF Undisturbed, Clean
    <2> QED BY <1>4, <1>5, <2>1, <2>2, <2>4, <2>5, <2>7, <2>8 DEF Undisturbed
<1> QED BY <1>6, <1>7

(* What a request that begins is, and what it leaves alone.                 *)
LEMMA BeginIs ==
    ASSUME CacheInv, NEW t \in Threads, NEW op \in {"read", "write", "flush", "reset"}, NEW i,
           Begin(t, op, i)
    PROVE  /\ t \in Actors /\ t # FlushTask
           /\ req'[t].op = op
           /\ op = "reset" => req'[t].pc = "clear"
           /\ op = "flush" => req'[t].pc = IF WriteBack THEN "smembers" ELSE "answered"
           /\ \A b \in Actors \ {t} : req'[b] = req[b]
           /\ UNCHANGED <<strategy, cached, stored, dirty>>
<1>1. PICK q : q = [Idle EXCEPT !.op = op, !.pc = FirstPoint(op), !.item = i,
                                !.need = IF i = Absent THEN Absent ELSE acked[i]]
    OBVIOUS
<1>2. q.op = op /\ q.pc = FirstPoint(op)
    BY <1>1 DEF Idle
<1>3. /\ req' = [req EXCEPT ![t] = q] /\ req \in [Actors -> RequestState]
      /\ t \in Actors /\ t # FlushTask
      /\ UNCHANGED <<strategy, cached, stored, dirty>>
    BY <1>1, Known, CacheAssumption DEF Begin, data, Actors, CacheAssumption
<1> QED BY <1>2, <1>3 DEF FirstPoint

(* A request is sent: in its phase it is the only one, or one of a workload *)
(* that has begun.                                                          *)
LEMMA SendKeeps ==
    ASSUME ExperimentInv, NEW t \in Threads, SendReset(t) \/ SendOperation(t) \/ SendFlush(t)
    PROVE  ExperimentInv'
<1>1. /\ CacheInv /\ LoadTypeOK /\ req[FlushTask].pc \in FlushPoints
      /\ phase # "done" /\ workloads < Workloads
      /\ ~disturbed => Undisturbed
    BY DEF ExperimentInv, SendReset, SendOperation, SendFlush
<1>2. CacheInv'
    BY <1>1, ExperimentStepInv DEF ExperimentNext
<1>3. PICK op, i : Begin(t, op, i) /\ op \in {"read", "write", "flush", "reset"}
                   /\ (SendReset(t) => op = "reset") /\ (SendFlush(t) => op = "flush")
    BY DEF SendReset, SendOperation, SendFlush, Operations
<1>4. /\ t \in Actors /\ t # FlushTask
      /\ req'[t].op = op
      /\ op = "reset" => req'[t].pc = "clear"
      /\ op = "flush" => req'[t].pc = IF WriteBack THEN "smembers" ELSE "answered"
      /\ \A b \in Actors \ {t} : req'[b] = req[b]
      /\ UNCHANGED <<strategy, cached, stored, dirty>>
    BY <1>1, <1>3, BeginIs
<1>5. FlushTask \in Actors /\ Threads \subseteq Actors
    BY DEF Actors
<1>6. req'[FlushTask] = req[FlushTask]
    BY <1>4, <1>5
<1>7. UNCHANGED <<workloads, disturbed>> /\ Planned' = Planned
    BY <1>4 DEF SendReset, SendOperation, SendFlush, Planned
<1>8. Planned \in Nat /\ Planned <= Requests[strategy] /\ Requests[strategy] \in Nat /\ left \in Nat
    BY <1>1, PlannedIs
<1>9. LoadTypeOK'
    <2>1. left' \in 0..Requests[strategy]
        BY <1>1, <1>8 DEF SendReset, SendOperation, SendFlush, LoadTypeOK
    <2>2. phase' \in Phases /\ awaited' \subseteq Threads
        BY <1>1 DEF SendReset, SendOperation, SendFlush, LoadTypeOK, Phases
    <2> QED BY <1>1, <1>4, <1>7, <2>1, <2>2 DEF LoadTypeOK
<1>10. AllFlushed => AllFlushed'
    BY <1>4, <1>6 DEF AllFlushed
<1>11. ASSUME ~disturbed PROVE Undisturbed'
    <2>1. Undisturbed
        BY <1>1, <1>11
    <2>2. CASE SendReset(t)
        <3>1. phase = "reset" /\ phase' = "resetting" /\ awaited = {} /\ awaited' = {t} /\ AllFlushed
            BY <2>1, <2>2 DEF SendReset, Undisturbed
        <3>2. ResetOK(req[t])'
            BY <1>3, <1>4, <2>2 DEF ResetOK
        <3>3. \A b \in Threads : req'[b].pc # "idle" => b \in awaited'
            BY <1>4, <1>5, <2>1, <3>1 DEF Undisturbed
        <3> QED BY <1>10, <3>1, <3>2, <3>3 DEF Undisturbed
    <2>3. CASE SendFlush(t)
        <3>1. phase' = "flushing" /\ awaited = {} /\ awaited' = {t}
            BY <2>3 DEF SendFlush
        <3>2. op = "flush"
            BY <1>3, <2>3
        <3>3. ~WriteBack => AllFlushed
            BY <1>1, <1>5 DEF CacheInv, RequestOK, AllFlushed
        <3>4. FlushOK(req[t])'
            <4>1. PICK q : q = req'[t]
                OBVIOUS
            <4>2. q.op = "flush" /\ q.pc = IF WriteBack THEN "smembers" ELSE "answered"
                BY <1>4, <3>2, <4>1
            <4>3. FlushOK(q)'
                BY <1>10, <3>3, <4>2 DEF FlushOK, Flushing
            <4> QED BY <4>1, <4>3 DEF FlushOK
        <3>5. \A b \in Threads : req'[b].pc # "idle" => b \in awaited'
            BY <1>4, <1>5, <2>1, <3>1 DEF Undisturbed
        <3> QED BY <3>1, <3>4, <3>5 DEF Undisturbed
    <2>4. CASE SendOperation(t)
        <3>1. /\ phase = "load" /\ phase' = "load" /\ left > 0 /\ left' = left - 1
              /\ awaited' = awaited \cup {t}
            BY <2>4 DEF SendOperation
        <3>2. left' < Planned'
            BY <1>7, <1>8, <2>1, <3>1 DEF Undisturbed
        <3>3. left' <= Planned' /\ left' # Planned'
            BY <1>7, <1>8, <3>1, <3>2
        <3>4. \A b \in Threads : req'[b].pc # "idle" => b \in awaited'
            BY <1>4, <1>5, <2>1, <3>1 DEF Undisturbed
        <3> QED BY <3>1, <3>3, <3>4 DEF Undisturbed
    <2> QED BY <2>2, <2>3, <2>4
<1> QED BY <1>1, <1>2, <1>6, <1>7, <1>9, <1>11 DEF ExperimentInv

(* An answer ends the reset, whose workload begins clean, or the flush,     *)
(* which has left nothing, or one operation.                                *)
LEMMA AnswerKeeps ==
    ASSUME ExperimentInv, NEW t \in Threads, Answer(t)
    PROVE  ExperimentInv'
<1>1. /\ CacheInv /\ LoadTypeOK /\ req[FlushTask].pc \in FlushPoints
      /\ phase # "done" => workloads < Workloads
      /\ ~disturbed => Undisturbed
    BY DEF ExperimentInv
<1>2. CacheInv'
    BY <1>1, ExperimentStepInv DEF ExperimentNext
<1>3. /\ t \in Actors /\ FlushTask \in Actors /\ t # FlushTask /\ Threads \subseteq Actors
    BY CacheAssumption DEF CacheAssumption, Actors
<1>4. /\ req[t].pc \in {"answered", "failed"}
      /\ req' = [req EXCEPT ![t] = Idle]
      /\ UNCHANGED <<strategy, cached, stored, dirty>>
    BY DEF Answer, Reply, data
<1>5. req'[t].pc = "idle" /\ \A b \in Actors \ {t} : req'[b] = req[b]
    BY <1>1, <1>3, <1>4, Known DEF Idle
<1>6. req'[FlushTask] = req[FlushTask]
    BY <1>3, <1>5
<1>7. UNCHANGED <<workloads, disturbed>> /\ Planned' = Planned /\ awaited' = awaited \ {t}
    BY <1>4 DEF Answer, Planned
<1>8. Planned \in Nat /\ Planned <= Requests[strategy] /\ Requests[strategy] \in Nat /\ left \in Nat
    BY <1>1, PlannedIs
<1>9. /\ \/ phase' = phase
         \/ phase = "resetting" /\ phase' = "load" /\ t \in awaited /\ req[t].pc = "answered"
         \/ phase = "flushing" /\ phase' = "after" /\ t \in awaited /\ req[t].pc = "answered"
         \/ phase \in {"resetting", "flushing"} /\ phase' = "raised" /\ t \in awaited
      /\ left' = IF phase' = "load" /\ phase = "resetting" THEN Planned ELSE left
      /\ t \in awaited /\ phase \in {"resetting", "flushing"} => phase' # phase
    BY <1>4 DEF Answer
<1>10. LoadTypeOK'
    <2>1. left' \in 0..Requests[strategy]
        BY <1>1, <1>8, <1>9 DEF LoadTypeOK
    <2>2. phase' \in Phases
        BY <1>1, <1>9 DEF LoadTypeOK, Phases
    <2> QED BY <1>1, <1>4, <1>7, <2>1, <2>2 DEF LoadTypeOK
<1>11. phase' # "done" => workloads' < Workloads
    BY <1>1, <1>7, <1>9
<1>12. (AllFlushed => AllFlushed') /\ (Clean => Clean')
    BY <1>4, <1>6 DEF AllFlushed, Clean
<1>13. ASSUME ~disturbed PROVE Undisturbed'
    <2>1. Undisturbed /\ t \in awaited
        BY <1>1, <1>4, <1>13 DEF Undisturbed
    <2>2. \A b \in Threads : req'[b].pc # "idle" => b \in awaited'
        BY <1>3, <1>5, <1>7, <2>1 DEF Undisturbed
    <2>3. phase \notin {"reset", "after", "done", "raised"}
        BY <2>1 DEF Undisturbed
    <2>4. CASE phase = "load"
        <3>1. phase' = "load" /\ left' = left /\ left <= Planned /\ left # Planned
            BY <1>9, <2>1, <2>4 DEF Undisturbed
        <3> QED BY <1>7, <2>2, <3>1 DEF Undisturbed
    <2>5. CASE phase = "resetting"
        <3>1. awaited' = {} /\ ResetOK(req[t]) /\ AllFlushed
            BY <1>7, <2>1, <2>5 DEF Undisturbed
        <3>2. \/ phase' = "raised"
              \/ phase' = "load" /\ left' = Planned /\ req[t].pc = "answered"
            BY <1>9, <2>1, <2>5
        <3>3. phase' = "load" => Clean'
            BY <1>12, <3>1, <3>2 DEF ResetOK
        <3>4. phase' = "load" => left' <= Planned'
            BY <1>7, <1>8, <3>2
        <3> QED BY <1>12, <2>2, <3>1, <3>2, <3>3, <3>4 DEF Undisturbed
    <2>6. CASE phase = "flushing"
        <3>1. awaited' = {} /\ FlushOK(req[t])
            BY <1>7, <2>1, <2>6 DEF Undisturbed
        <3>2. phase' = "raised" \/ (phase' = "after" /\ req[t].pc = "answered")
            BY <1>9, <2>1, <2>6
        <3>3. phase' = "after" => AllFlushed'
            BY <1>12, <3>1, <3>2 DEF FlushOK
        <3> QED BY <2>2, <3>1, <3>2, <3>3 DEF Undisturbed
    <2> QED BY <1>1, <2>3, <2>4, <2>5, <2>6 DEF LoadTypeOK, Phases
<1> QED BY <1>1, <1>2, <1>6, <1>7, <1>10, <1>11, <1>13 DEF ExperimentInv

(* The steps of the generator alone, and those that end requests.           *)
LEMMA DriverKeeps ==
    ASSUME ExperimentInv, BuildRow \/ Rerun \/ ServiceRestarts \/ WakeUp \/ \E t \in Threads : GiveUp(t)
    PROVE  ExperimentInv'
<1>1. /\ CacheInv /\ LoadTypeOK /\ req[FlushTask].pc \in FlushPoints
      /\ phase # "done" => workloads < Workloads
      /\ ~disturbed => Undisturbed
    BY DEF ExperimentInv
<1>2. CacheInv'
    BY <1>1, ExperimentStepInv DEF ExperimentNext
<1>3. /\ Planned \in Nat /\ Planned <= Requests[strategy] /\ Requests[strategy] \in Nat
      /\ left \in Nat /\ workloads \in Nat /\ Workloads \in Nat \ {0} /\ workloads <= Workloads
      /\ left \in 0..Requests[strategy]
    BY <1>1, PlannedIs, LoadAssumption DEF LoadTypeOK, LoadAssumption
<1>4. FlushTask \in Actors /\ FlushTask \notin Threads /\ Threads \subseteq Actors
    BY CacheAssumption DEF CacheAssumption, Actors
<1>5. CASE BuildRow
    <2>1. /\ phase = "after" /\ workloads' = workloads + 1
          /\ phase' = IF workloads' = Workloads THEN "done" ELSE "reset"
          /\ UNCHANGED <<strategy, cached, stored, dirty, req, left, awaited, disturbed>>
        BY <1>5 DEF BuildRow, cacheVars, data
    <2>2. workloads < Workloads
        BY <1>1, <2>1
    <2>3. workloads' \in 0..Workloads /\ (phase' # "done" => workloads' < Workloads)
        BY <1>3, <2>1, <2>2
    <2>4. LoadTypeOK'
        BY <1>1, <2>1, <2>3 DEF LoadTypeOK, Phases
    <2>5. ASSUME ~disturbed PROVE Undisturbed'
        <3>1. /\ \A t \in Threads : req[t].pc # "idle" => t \in awaited
              /\ awaited = {} /\ AllFlushed
            BY <1>1, <2>1, <2>5 DEF Undisturbed
        <3>2. phase' \in {"done", "reset"}
            BY <2>1
        <3> QED BY <2>1, <3>1, <3>2 DEF Undisturbed, AllFlushed
    <2> QED BY <1>1, <1>2, <2>1, <2>3, <2>4, <2>5 DEF ExperimentInv
<1>6. CASE Rerun
    <2>1. /\ phase' = "reset" /\ left' = 0 /\ awaited' = {} /\ workloads' = 0 /\ disturbed' = TRUE
          /\ UNCHANGED <<strategy, req>>
        BY <1>6 DEF Rerun
    <2>2. workloads' \in 0..Workloads /\ workloads' < Workloads /\ left' \in 0..Requests[strategy]
        BY <1>3, <2>1
    <2>3. LoadTypeOK'
        BY <2>1, <2>2 DEF LoadTypeOK, Phases
    <2> QED BY <1>1, <1>2, <2>1, <2>2, <2>3 DEF ExperimentInv
<1>7. CASE \E t \in Threads : GiveUp(t)
    <2>1. /\ awaited' \subseteq awaited /\ disturbed' = TRUE
          /\ phase' \in {phase, "raised"} /\ (phase = "done" => phase' = "done")
          /\ UNCHANGED <<strategy, req, left, workloads>>
        BY <1>7 DEF GiveUp
    <2>2. phase' # "done" => workloads' < Workloads
        BY <1>1, <2>1
    <2>3. LoadTypeOK'
        BY <1>1, <2>1 DEF LoadTypeOK, Phases
    <2> QED BY <1>1, <1>2, <2>1, <2>2, <2>3 DEF ExperimentInv
<1>8. CASE ServiceRestarts
    <2>1. /\ req' = [b \in Actors |-> Idle] /\ awaited' = {}
          /\ phase' = IF phase \in {"resetting", "flushing"} THEN "raised" ELSE phase
          /\ UNCHANGED <<strategy, cached, stored, dirty, left, workloads, disturbed>>
        BY <1>8 DEF ServiceRestarts, RestartService, data
    <2>2. \A b \in Actors : req'[b].pc = "idle"
        BY <2>1 DEF Idle
    <2>3. phase' # "done" => workloads' < Workloads
        BY <1>1, <2>1
    <2>4. LoadTypeOK'
        BY <1>1, <2>1 DEF LoadTypeOK, Phases
    <2>5. req'[FlushTask].pc \in FlushPoints
        BY <1>4, <2>2 DEF FlushPoints
    <2>6. (AllFlushed => AllFlushed') /\ (Clean => Clean') /\ Planned' = Planned
        BY <1>4, <2>1, <2>2 DEF AllFlushed, Clean, Planned, Flushing
    <2>7. ASSUME ~disturbed PROVE Undisturbed'
        <3>1. Undisturbed
            BY <1>1, <2>7
        <3>2. phase' \notin {"resetting", "flushing"}
            BY <2>1
        <3>3. \A t \in Threads : req'[t].pc = "idle"
            BY <1>4, <2>2
        <3>4. phase' \in {"reset", "after"} => AllFlushed'
            BY <2>1, <2>6, <3>1 DEF Undisturbed
        <3>5. phase' = "load" => left' <= Planned' /\ (left' = Planned' => Clean' /\ AllFlushed')
            BY <2>1, <2>6, <3>1 DEF Undisturbed
        <3> QED BY <2>1, <3>2, <3>3, <3>4, <3>5 DEF Undisturbed
    <2> QED BY <1>2, <2>1, <2>3, <2>4, <2>5, <2>7 DEF ExperimentInv
<1>9. CASE WakeUp
    <2>1. PICK q : q = [Idle EXCEPT !.op = "flush", !.pc = "smembers"]
        OBVIOUS
    <2>2. q.pc = "smembers"
        BY <2>1 DEF Idle
    <2>3. /\ req' = [req EXCEPT ![FlushTask] = q] /\ req[FlushTask].pc = "idle"
          /\ UNCHANGED <<strategy, cached, stored, dirty>>
          /\ UNCHANGED <<phase, left, awaited, workloads, disturbed>>
        BY <1>9, <2>1 DEF WakeUp, Wake, data, driver
    <2>4. req'[FlushTask].pc = "smembers" /\ \A t \in Threads : req'[t] = req[t]
        BY <1>1, <1>4, <2>2, <2>3, Known
    <2>5. LoadTypeOK' /\ Planned' = Planned
        BY <1>1, <2>3 DEF LoadTypeOK, Planned
    <2>6. (AllFlushed => AllFlushed') /\ (Clean => Clean')
        BY <2>3, <2>4 DEF AllFlushed, Clean, Flushing
    <2>7. ASSUME NEW t \in Threads PROVE /\ ResetOK(req[t]) => ResetOK(req[t])'
                                         /\ FlushOK(req[t]) => FlushOK(req[t])'
        <3>1. req'[t] = req[t]
            BY <2>4
        <3>2. ResetOK(req[t]) => ResetOK(req[t])'
            BY <2>3, <2>6, <3>1 DEF ResetOK
        <3>3. FlushOK(req[t]) => FlushOK(req[t])'
            BY <2>3, <2>6, <3>1 DEF FlushOK
        <3> QED BY <3>2, <3>3
    <2>8. ASSUME ~disturbed PROVE Undisturbed'
        <3>1. Undisturbed
            BY <1>1, <2>8
        <3>2. phase = "resetting" => \E t \in Threads : awaited = {t} /\ ResetOK(req[t])'
            BY <2>7, <3>1 DEF Undisturbed
        <3>3. phase = "flushing" => \E t \in Threads : awaited = {t} /\ FlushOK(req[t])'
            BY <2>7, <3>1 DEF Undisturbed
        <3> QED BY <2>3, <2>4, <2>5, <2>6, <3>1, <3>2, <3>3 DEF Undisturbed
    <2> QED BY <1>1, <1>2, <2>3, <2>4, <2>5, <2>8 DEF ExperimentInv, FlushPoints
<1> QED BY <1>5, <1>6, <1>7, <1>8, <1>9

(* Every step of the service and of the generator.                          *)
LEMMA ExperimentKeeps ==
    ASSUME ExperimentInv, [ExperimentNext]_experimentVars
    PROVE  ExperimentInv'
<1>1. ASSUME NEW t \in Threads, SendReset(t) \/ SendOperation(t) \/ SendFlush(t) PROVE ExperimentInv'
    BY <1>1, SendKeeps
<1>2. ASSUME NEW t \in Threads, Answer(t) PROVE ExperimentInv'
    BY <1>2, AnswerKeeps
<1>3. CASE BuildRow \/ Rerun \/ ServiceRestarts \/ WakeUp \/ \E t \in Threads : GiveUp(t)
    BY <1>3, DriverKeeps
<1>4. ASSUME NEW a \in Actors, Serve(a) \/ Fail(a) PROVE ExperimentInv'
    <2>1. (Command(a) \/ Refused(a)) /\ UNCHANGED driver
        BY <1>4 DEF Serve, Fail
    <2>2. req'[FlushTask].pc \in FlushPoints /\ (~disturbed => Undisturbed')
        BY <2>1, ServeKeeps
    <2>3. UNCHANGED <<strategy, phase, left, awaited, workloads, disturbed>>
        BY <2>1, Moves DEF ExperimentInv, driver
    <2>4. CacheInv'
        BY ExperimentStepInv DEF ExperimentInv
    <2> QED BY <2>2, <2>3, <2>4 DEF ExperimentInv, LoadTypeOK
<1>5. CASE UNCHANGED experimentVars
    <2>1. CacheInv'
        BY ExperimentStepInv DEF ExperimentInv
    <2>2. UNCHANGED <<strategy, cached, stored, dirty, req, phase, left, awaited, workloads, disturbed>>
        BY <1>5 DEF experimentVars, cacheVars, data, driver
    <2> QED BY <2>1, <2>2 DEF ExperimentInv, LoadTypeOK, Undisturbed, ResetOK, FlushOK, AllFlushed,
                              Clean, Planned
<1> QED BY <1>1, <1>2, <1>3, <1>4, <1>5 DEF ExperimentNext

(* The experiment begins with nothing loaded.                               *)
LEMMA ExperimentInitInv == ExperimentInit => ExperimentInv
<1> SUFFICES ASSUME ExperimentInit PROVE ExperimentInv
    OBVIOUS
<1>1. CacheInv
    BY CacheInitInv DEF ExperimentInit
<1>2. /\ phase = "reset" /\ left = 0 /\ awaited = {} /\ workloads = 0 /\ disturbed = FALSE
      /\ dirty = {} /\ req = [a \in Actors |-> Idle] /\ strategy \in Strategies
    BY DEF ExperimentInit, CacheInit
<1>3. Workloads \in Nat \ {0} /\ Requests[strategy] \in Nat
    BY <1>2, LoadAssumption DEF LoadAssumption
<1>4. LoadTypeOK
    <2>1. left \in 0..Requests[strategy] /\ workloads \in 0..Workloads
        BY <1>2, <1>3
    <2> QED BY <1>2, <2>1 DEF LoadTypeOK, Phases
<1>5. workloads < Workloads
    BY <1>2, <1>3
<1>6. \A a \in Actors : req[a].pc = "idle"
    BY <1>2 DEF Idle
<1>7. FlushTask \in Actors /\ Threads \subseteq Actors
    BY DEF Actors
<1>8. Undisturbed
    BY <1>2, <1>6, <1>7 DEF Undisturbed, AllFlushed, Flushing
<1> QED BY <1>1, <1>4, <1>5, <1>6, <1>7, <1>8 DEF ExperimentInv, FlushPoints

(* The generator's state has its type whatever the service does: workloads  *)
(* are counted up to the end, and never more requests are left than were    *)
(* planned at most.                                                         *)
THEOREM LoadTypeCorrect == ExperimentSpec => []LoadTypeOK
<1>1. ExperimentInit => ExperimentInv
    BY ExperimentInitInv
<1>2. ExperimentInv /\ [ExperimentNext]_experimentVars => ExperimentInv'
    BY ExperimentKeeps
<1>3. ExperimentInv => LoadTypeOK
    BY DEF ExperimentInv
<1> QED BY <1>1, <1>2, <1>3, PTL DEF ExperimentSpec

(* Every workload starts from the seed, an empty cache and nothing dirty,   *)
(* though the reset takes no lock and the flush task goes on: unless a      *)
(* client has given up or the generator was started again.                  *)
THEOREM WorkloadStartsCleanCorrect == ExperimentSpec => []WorkloadStartsClean
<1>1. ExperimentInit => ExperimentInv
    BY ExperimentInitInv
<1>2. ExperimentInv /\ [ExperimentNext]_experimentVars => ExperimentInv'
    BY ExperimentKeeps
<1>3. ExperimentInv => WorkloadStartsClean
    BY DEF ExperimentInv, Undisturbed, Clean, AllFlushed, WorkloadStartsClean
<1> QED BY <1>1, <1>2, <1>3, PTL DEF ExperimentSpec

(* The flush at the end of a workload leaves every acknowledged write in    *)
(* the table, under every strategy and with commands that fail.             *)
THEOREM FlushStoresAllCorrect == ExperimentSpec => []FlushStoresAll
<1>1. ExperimentInit => ExperimentInv
    BY ExperimentInitInv
<1>2. ExperimentInv /\ [ExperimentNext]_experimentVars => ExperimentInv'
    BY ExperimentKeeps
<1>3. ExperimentInv => FlushStoresAll
    <2> SUFFICES ASSUME ExperimentInv, phase = "after", ~disturbed, NEW i \in Items \ exposed
                 PROVE  Owed(acked[i]) <= stored[i]
        BY DEF FlushStoresAll
    <2>1. dirty = {}
        BY DEF ExperimentInv, Undisturbed, AllFlushed
    <2>2. Safe(i, acked[i])
        BY DEF ExperimentInv, CacheInv
    <2> QED BY <2>1, <2>2 DEF Safe
<1> QED BY <1>1, <1>2, <1>3, PTL DEF ExperimentSpec
=============================================================================
