---------------------------- MODULE RatingProofs ----------------------------
(***************************************************************************)
(* Proofs about ProfileRating: the types, CombinedMatches and              *)
(* RatingSettles, for any people, coroutines and bounds.                   *)
(*                                                                         *)
(* TableInv says what every coroutine knows of the rows it works on: a     *)
(* recomputation that is still clean holds the row as it is in the table.  *)
(* RatingInv adds who will make a stale row good: a coroutine of the bot   *)
(* that has yet to count the likes, or has counted them since they last    *)
(* changed, and that is not the one about to save an older count.          *)
(***************************************************************************)
EXTENDS ProfileRating, FiniteSetTheorems, TLAPS

(* The program points of a recomputation.                                   *)
Recomputing == {"load", "count", "save"}

(* Who has a rating: people with a profile and people who had one.          *)
Rated(u) == rating[u].exists

(* What the program point of a coroutine says of it.  A clean recomputation *)
(* has the row as it is in the table.                                       *)
JobOK(q) ==
    /\ q \in JobState
    /\ q.pc # "idle" => q.from \in People
    /\ q.pc \in {"write_like", "publish"} \cup Recomputing =>
           q.to \in People /\ q.from # q.to /\ Rated(q.from) /\ Rated(q.to)
    /\ q.pc = "write_like" => q.action \in {"like", "skip"}
    /\ q.pc \in Recomputing => q.of \in {q.from, q.to}
    /\ q.pc \in {"count", "save"} /\ q.clean => q.row = rating[q.of]

(* The consumer only recomputes.                                            *)
JobsOK ==
    /\ \A j \in Jobs : JobOK(job[j])
    /\ \A c \in Consumers : job[c].pc \in {"idle"} \cup Recomputing

EventOK(e) == e[1] # e[2] /\ Rated(e[1]) /\ Rated(e[2])

TableInv ==
    /\ RatingTypeOK
    /\ CombinedMatches
    /\ JobsOK
    /\ \A n \in DOMAIN events : EventOK(events[n])
    /\ \A u \in People : ~Rated(u) => rating[u] = NoRow

(* A coroutine q of the bot will yet compute u's row from the likes as they *)
(* are.                                                                     *)
Due(q, u) ==
    \/ q.pc \in {"load", "count"} /\ q.of = u
    \/ q.pc \in Recomputing /\ q.of = q.from /\ q.to = u
    \/ q.pc = "save" /\ q.of = u /\ q.count = LikesTo(u)

Awaits(u, js) == \E b \in BotTasks \cap js : Due(job[b], u)

(* u's row counts the likes, or will.                                       *)
Covered(u) == rating[u].behavioral = LikesTo(u) \/ Awaits(u, Jobs)

(* Who is about to save an old count undisturbed is followed by another.    *)
Followed(j) ==
    \A u \in People :
        job[j].pc = "save" /\ job[j].clean /\ job[j].of = u =>
            job[j].count = LikesTo(u) \/ Awaits(u, Jobs \ {j})

(* Every row that is not left behind counts the likes, or will.             *)
Settling ==
    /\ \A u \in People \ behind : Covered(u)
    /\ \A j \in Jobs : Followed(j)

RatingInv == TableInv /\ Settling

Points == {"idle", "get_data", "clear", "insert", "insert_photo", "delete", "write_like",
           "load", "count", "save", "publish"}

-----------------------------------------------------------------------------
(* The records of the coroutines.                                           *)

(* A coroutine that waits, and one whose program point moves.               *)
LEMMA IdleJob ==
    /\ NoJob \in JobState /\ NoJob.pc = "idle" /\ NoRow \in RatingRow
    /\ ~NoRow.exists /\ NoRow.combined = <<NoRow.primary, NoRow.behavioral>>
<1>1. Cardinality(People) \in Nat
    BY RatingAssumption, FS_CardinalityType DEF RatingAssumption
<1>2. NoRow \in RatingRow
    BY <1>1 DEF NoRow, RatingRow
<1> QED BY <1>2, <1>1 DEF NoJob, JobState, Filled, NoRow

(* Its program point moves.                                                 *)
LEMMA MovedJob ==
    ASSUME NEW q \in JobState, NEW pc \in Points, NEW g, g = [q EXCEPT !.pc = pc]
    PROVE  /\ g \in JobState /\ g.pc = pc /\ g.from = q.from /\ g.to = q.to
           /\ g.action = q.action /\ g.of = q.of /\ g.row = q.row /\ g.primary = q.primary
           /\ g.count = q.count /\ g.clean = q.clean /\ g.fill = q.fill
BY DEF JobState, Points

(* It has read the form.                                                    *)
LEMMA FilledJob ==
    ASSUME NEW q \in JobState, NEW f \in Filled, NEW g, g = [q EXCEPT !.fill = f]
    PROVE  /\ g \in JobState /\ g.pc = q.pc /\ g.from = q.from /\ g.to = q.to
           /\ g.clean = q.clean /\ g.fill = f
BY DEF JobState

(* It has been overtaken.                                                   *)
LEMMA UncleanJob ==
    ASSUME NEW q \in JobState, NEW g, g = [q EXCEPT !.clean = FALSE]
    PROVE  /\ g \in JobState /\ g.pc = q.pc /\ g.from = q.from /\ g.to = q.to
           /\ g.action = q.action /\ g.of = q.of /\ g.row = q.row /\ g.primary = q.primary
           /\ g.count = q.count /\ ~g.clean /\ g.fill = q.fill
BY DEF JobState

(* New tasks.                                                               *)
LEMMA NewRecompute ==
    ASSUME NEW u \in People, NEW v \in People, NEW w \in People, NEW g, g = Recompute(u, v, w)
    PROVE  /\ g \in JobState /\ g.pc = "load" /\ g.from = u /\ g.to = v /\ g.of = w
BY IdleJob DEF Recompute, NoJob, JobState

(* A form is confirmed.                                                     *)
LEMMA NewConfirm ==
    ASSUME NEW u \in People, NEW g, g = [NoJob EXCEPT !.pc = "get_data", !.from = u]
    PROVE  g \in JobState /\ g.pc = "get_data" /\ g.from = u
BY IdleJob DEF NoJob, JobState

-----------------------------------------------------------------------------
(* Steps of one coroutine.                                                  *)

(* A coroutine that waits, fills in a form, or deletes a profile.           *)
LEMMA FormJobOK ==
    ASSUME NEW q \in JobState, q.from \in People,
           q.pc \in {"get_data", "clear", "insert", "insert_photo", "delete"}
    PROVE  JobOK(q)
BY DEF JobOK, Recomputing

(* Nothing is claimed of who is idle.                                       *)
LEMMA IdleJobOK == JobOK(NoJob)
BY IdleJob DEF JobOK, Recomputing

(* The others are as they were while the table of ratings stands.           *)
LEMMA OneJob ==
    ASSUME TableInv, NEW j \in Jobs, NEW q, JobOK(q), job' = [job EXCEPT ![j] = q],
           j \in Consumers => q.pc \in {"idle"} \cup Recomputing, UNCHANGED rating
    PROVE  JobsOK' /\ (job \in [Jobs -> JobState])' /\ job'[j] = q
<1>1. job \in [Jobs -> JobState] /\ q \in JobState
    BY DEF TableInv, RatingTypeOK, JobOK
<1>2. /\ job' \in [Jobs -> JobState] /\ job'[j] = q
      /\ \A k \in Jobs : k # j => job'[k] = job[k]
    BY <1>1
<1>3. ASSUME NEW k \in Jobs PROVE JobOK(job[k])'
    <2>1. JobOK(job'[k])
        BY <1>2 DEF TableInv, JobsOK
    <2> QED BY <2>1 DEF JobOK, Rated
<1>4. ASSUME NEW c \in Consumers PROVE job'[c].pc \in {"idle"} \cup Recomputing
    <2>1. c \in Jobs
        BY DEF Jobs
    <2> QED BY <2>1, <1>2 DEF TableInv, JobsOK
<1> QED BY <1>2, <1>3, <1>4 DEF JobsOK

(* The tables stand; the queue has events of rated people.                  *)
LEMMA TablesStand ==
    ASSUME TableInv, JobsOK', (job \in [Jobs -> JobState])',
           UNCHANGED <<profile, rating, swipes, behind>>,
           events' \in Seq(People \X People), \A n \in DOMAIN events' : EventOK(events'[n]),
           form' \in [People -> Filled \cup {"filling"}], denied' \subseteq People,
           updates' \in 0..MaxUpdates, ratingFaults' \in 0..RatingFaults
    PROVE  TableInv'
<1>1. RatingTypeOK'
    BY DEF TableInv, RatingTypeOK
<1>2. CombinedMatches'
    BY DEF TableInv, CombinedMatches
<1>3. (\A n \in DOMAIN events : EventOK(events[n]))'
    BY DEF EventOK, Rated
<1>4. (\A w \in People : ~Rated(w) => rating[w] = NoRow)'
    BY DEF TableInv, Rated
<1> QED BY <1>1, <1>2, <1>3, <1>4 DEF TableInv

(* A step of a coroutine that touches no table and not the queue.           *)
LEMMA QuietStep ==
    ASSUME TableInv, NEW j \in Jobs, NEW q, JobOK(q), job' = [job EXCEPT ![j] = q],
           j \in Consumers => q.pc \in {"idle"} \cup Recomputing,
           UNCHANGED <<profile, rating, swipes, behind, events, ratingFaults>>,
           form' \in [People -> Filled \cup {"filling"}], denied' \subseteq People,
           updates' \in 0..MaxUpdates
    PROVE  TableInv'
<1>1. JobsOK' /\ (job \in [Jobs -> JobState])'
    BY OneJob
<1>2. /\ events' \in Seq(People \X People) /\ \A n \in DOMAIN events' : EventOK(events'[n])
      /\ ratingFaults' \in 0..RatingFaults
    BY DEF TableInv, RatingTypeOK
<1> QED BY <1>1, <1>2, TablesStand

(* What is known of a coroutine that is at work.                            *)
LEMMA AtWork ==
    ASSUME TableInv, NEW j \in Jobs
    PROVE  /\ job[j] \in JobState /\ JobOK(job[j]) /\ job \in [Jobs -> JobState]
           /\ form \in [People -> Filled \cup {"filling"}] /\ denied \subseteq People
           /\ updates \in 0..MaxUpdates
           /\ j \in Consumers => job[j].pc \in {"idle"} \cup Recomputing
           /\ j \in BotTasks => j \notin Consumers
BY RatingAssumption DEF TableInv, RatingTypeOK, JobsOK, RatingAssumption

(* Both programs have coroutines.                                           *)
LEMMA BotIsJob == BotTasks \subseteq Jobs /\ Consumers \subseteq Jobs
BY DEF Jobs

(* The form.                                                                *)
LEMMA FormStep ==
    ASSUME TableInv, NEW u \in Applicants, ShowProfile(u) \/ StartForm(u) \/ FillForm(u)
    PROVE  TableInv'
<1>1. u \in People
    BY RatingAssumption DEF RatingAssumption
<1>2. \E f \in Filled \cup {"filling"} : form' = [form EXCEPT ![u] = f]
    BY DEF ShowProfile, StartForm, FillForm, Filled
<1>3. form' \in [People -> Filled \cup {"filling"}]
    BY <1>1, <1>2 DEF TableInv, RatingTypeOK
<1>4. UNCHANGED <<profile, denied, rating, swipes, events, job, updates, behind, ratingFaults>>
    BY DEF ShowProfile, StartForm, FillForm
<1>5. JobsOK'
    BY <1>4 DEF TableInv, JobsOK, JobOK, Rated
<1>6. /\ job' \in [Jobs -> JobState]
      /\ events' \in Seq(People \X People) /\ \A n \in DOMAIN events' : EventOK(events'[n])
      /\ denied' \subseteq People
      /\ updates' \in 0..MaxUpdates /\ ratingFaults' \in 0..RatingFaults
    BY <1>4 DEF TableInv, RatingTypeOK
<1> QED BY <1>3, <1>4, <1>5, <1>6, TablesStand

(* An update is taken by an idle coroutine of the bot, within the bound.    *)
LEMMA NextUpdate ==
    ASSUME TableInv, NEW b \in BotTasks, NEW q, Update(b, q)
    PROVE  /\ job' = [job EXCEPT ![b] = q] /\ updates' \in 0..MaxUpdates
           /\ job[b].pc = "idle" /\ b \in Jobs /\ b \notin Consumers
<1>1. updates \in 0..MaxUpdates /\ MaxUpdates \in Nat
    BY RatingAssumption DEF TableInv, RatingTypeOK, RatingAssumption
<1>2. updates < MaxUpdates /\ updates' = updates + 1
    BY DEF Update
<1>3. updates' \in 0..MaxUpdates
    BY <1>1, <1>2
<1>4. job' = [job EXCEPT ![b] = q] /\ job[b].pc = "idle"
    BY DEF Update
<1> QED BY <1>3, <1>4, BotIsJob, AtWork

(* The form is confirmed, or the profile is to be deleted.                  *)
LEMMA ConfirmStep ==
    ASSUME TableInv, NEW b \in BotTasks, NEW u \in Applicants, Confirm(b, u) \/ PressDelete(b, u)
    PROVE  TableInv'
<1>1. u \in People
    BY RatingAssumption DEF RatingAssumption
<1>2. PICK q : q \in JobState /\ q.from = u /\ q.pc \in {"get_data", "delete"} /\ Update(b, q)
    <2>1. CASE Confirm(b, u)
        <3>1. PICK q : q = [NoJob EXCEPT !.pc = "get_data", !.from = u] /\ Update(b, q)
            BY <2>1 DEF Confirm
        <3>2. q \in JobState /\ q.pc = "get_data" /\ q.from = u
            BY <1>1, <3>1, NewConfirm
        <3> QED BY <3>1, <3>2
    <2>2. CASE PressDelete(b, u)
        <3>1. PICK f \in Filled : f = profile[u]
            BY <1>1 DEF TableInv, RatingTypeOK
        <3>2. PICK q : q = [NoJob EXCEPT !.pc = "delete", !.from = u, !.fill = f] /\ Update(b, q)
            BY <2>2, <3>1 DEF PressDelete
        <3>3. q \in JobState /\ q.pc = "delete" /\ q.from = u
            BY <1>1, <3>2, IdleJob DEF NoJob, JobState
        <3> QED BY <3>2, <3>3
    <2> QED BY <2>1, <2>2
<1>3. JobOK(q)
    BY <1>1, <1>2, FormJobOK
<1>4. UNCHANGED <<profile, form, denied, rating, swipes, events, behind, ratingFaults>>
    BY DEF Confirm, PressDelete, chatVars
<1>5. /\ job' = [job EXCEPT ![b] = q] /\ updates' \in 0..MaxUpdates
      /\ b \in Jobs /\ b \notin Consumers
    BY <1>2, NextUpdate
<1>6. form' \in [People -> Filled \cup {"filling"}] /\ denied' \subseteq People
    BY <1>4 DEF TableInv, RatingTypeOK
<1> QED BY <1>3, <1>4, <1>5, <1>6, QuietStep

(* The form is read, or found cleared.                                      *)
LEMMA GetDataStep == ASSUME TableInv, NEW b \in BotTasks, GetData(b) PROVE TableInv'
<1> DEFINE u == job[b].from
<1>1. b \in Jobs /\ job[b] \in JobState /\ JobOK(job[b])
    BY BotIsJob, AtWork
<1>2. u \in People
    BY <1>1 DEF GetData, JobOK
<1>3. PICK q : q \in JobState /\ q.from = u /\ q.pc = "clear" /\ job' = [job EXCEPT ![b] = q]
    <2>1. PICK moved : moved = [job[b] EXCEPT !.pc = "clear"]
        OBVIOUS
    <2>2. moved \in JobState /\ moved.pc = "clear" /\ moved.from = u
        BY <1>1, <2>1, MovedJob DEF Points
    <2>3. CASE form[u] \in {"plain", "photo"}
        <3>1. PICK f \in Filled : f = form[u]
            BY <2>3 DEF Filled
        <3>2. PICK g : g = [moved EXCEPT !.fill = f]
            OBVIOUS
        <3>3. g \in JobState /\ g.pc = "clear" /\ g.from = u
            BY <2>2, <3>2, FilledJob
        <3>4. job' = [job EXCEPT ![b].pc = "clear", ![b].fill = form[u]]
            BY <2>3 DEF GetData
        <3>5. job \in [Jobs -> JobState]
            BY <1>1, AtWork
        <3>6. job' = [job EXCEPT ![b] = g]
            BY <1>1, <2>1, <3>1, <3>2, <3>4, <3>5
        <3> QED BY <3>3, <3>6
    <2>4. CASE form[u] \notin {"plain", "photo"}
        <3>1. job' = [job EXCEPT ![b] = moved]
            BY <2>1, <2>4 DEF GetData, Step
        <3> QED BY <2>2, <3>1
    <2> QED BY <2>3, <2>4
<1>4. JobOK(q)
    BY <1>2, <1>3, FormJobOK
<1>5. UNCHANGED <<profile, form, denied, rating, swipes, events, updates, behind, ratingFaults>>
    BY DEF GetData, chatVars
<1>6. /\ form' \in [People -> Filled \cup {"filling"}] /\ denied' \subseteq People
      /\ updates' \in 0..MaxUpdates /\ b \notin Consumers
    BY <1>1, <1>5, AtWork
<1> QED BY <1>1, <1>3, <1>4, <1>5, <1>6, QuietStep

(* The conversation ends, and with it a handler that found nothing in it.   *)
LEMMA ClearStep == ASSUME TableInv, NEW b \in BotTasks, ClearForm(b) PROVE TableInv'
<1> DEFINE u == job[b].from
<1>1. b \in Jobs /\ job[b] \in JobState /\ JobOK(job[b])
    BY BotIsJob, AtWork
<1>2. u \in People
    BY <1>1 DEF ClearForm, JobOK
<1>3. PICK q : JobOK(q) /\ job' = [job EXCEPT ![b] = q]
    <2>1. CASE job[b].fill = "none"
        BY <2>1, IdleJobOK DEF ClearForm, End
    <2>2. CASE job[b].fill # "none"
        <3>1. PICK moved : moved = [job[b] EXCEPT !.pc = "insert"]
            OBVIOUS
        <3>2. moved \in JobState /\ moved.pc = "insert" /\ moved.from = u
            BY <1>1, <3>1, MovedJob DEF Points
        <3>3. JobOK(moved)
            BY <1>2, <3>2, FormJobOK
        <3>4. job' = [job EXCEPT ![b] = moved]
            BY <2>2, <3>1 DEF ClearForm, Step
        <3> QED BY <3>3, <3>4
    <2> QED BY <2>1, <2>2
<1>4. UNCHANGED <<profile, denied, rating, swipes, events, updates, behind, ratingFaults>>
    BY DEF ClearForm
<1>5. /\ denied' \subseteq People /\ form \in [People -> Filled \cup {"filling"}]
      /\ updates' \in 0..MaxUpdates /\ b \notin Consumers
    BY <1>1, <1>4, AtWork
<1>6. form' \in [People -> Filled \cup {"filling"}]
    BY <1>2, <1>5 DEF ClearForm, Filled
<1> QED BY <1>1, <1>3, <1>4, <1>5, <1>6, QuietStep

(* The handler ends with an IntegrityError.                                 *)
LEMMA InsertRefusedStep == ASSUME TableInv, NEW b \in BotTasks, InsertRefused(b) PROVE TableInv'
<1>1. b \in Jobs /\ JobOK(job[b]) /\ b \notin Consumers
    BY BotIsJob, AtWork
<1>2. job[b].from \in People
    BY <1>1 DEF InsertRefused, JobOK
<1>3. job' = [job EXCEPT ![b] = NoJob]
    BY DEF InsertRefused, End
<1>4. UNCHANGED <<profile, form, rating, swipes, events, updates, behind, ratingFaults>>
    BY DEF InsertRefused
<1>5. denied' \subseteq People
    BY <1>1, <1>2, AtWork DEF InsertRefused
<1>6. form' \in [People -> Filled \cup {"filling"}] /\ updates' \in 0..MaxUpdates
    BY <1>1, <1>4, AtWork
<1> QED BY <1>1, <1>3, <1>4, <1>5, <1>6, IdleJobOK, QuietStep

(* The row in profiles changes: u has a rating when a profile is left.      *)
LEMMA ProfileStep ==
    ASSUME TableInv, NEW b \in BotTasks, InsertPhoto(b) \/ DeleteProfile(b)
    PROVE  TableInv'
<1> DEFINE u == job[b].from
<1>1. b \in Jobs /\ JobOK(job[b]) /\ b \notin Consumers
    BY BotIsJob, AtWork
<1>2. u \in People
    BY <1>1 DEF InsertPhoto, DeleteProfile, JobOK
<1>3. job' = [job EXCEPT ![b] = NoJob]
    BY DEF InsertPhoto, DeleteProfile, End
<1>4. UNCHANGED <<form, denied, rating, swipes, events, updates, behind, ratingFaults>>
    BY DEF InsertPhoto, DeleteProfile
<1>5. JobsOK' /\ (job \in [Jobs -> JobState])'
    BY <1>1, <1>3, <1>4, IdleJob, IdleJobOK, OneJob
<1>6. /\ profile' \in [People -> Filled]
      /\ \A w \in People : profile'[w] # "none" => profile[w] # "none"
    <2>1. profile \in [People -> Filled]
        BY DEF TableInv, RatingTypeOK
    <2>2. CASE InsertPhoto(b)
        BY <1>2, <2>1, <2>2 DEF InsertPhoto, Filled
    <2>3. CASE DeleteProfile(b)
        BY <1>2, <2>1, <2>3 DEF DeleteProfile, Filled
    <2> QED BY <2>2, <2>3
<1>7. RatingTypeOK'
    BY <1>4, <1>5, <1>6 DEF TableInv, RatingTypeOK
<1>8. CombinedMatches'
    BY <1>4 DEF TableInv, CombinedMatches
<1>9. (\A n \in DOMAIN events : EventOK(events[n]))'
    BY <1>4 DEF TableInv, EventOK, Rated
<1>10. (\A w \in People : ~Rated(w) => rating[w] = NoRow)'
    BY <1>4 DEF TableInv, Rated
<1> QED BY <1>5, <1>7, <1>8, <1>9, <1>10 DEF TableInv

(* A tap names two rated people.                                            *)
LEMMA SwipeStep ==
    ASSUME TableInv, NEW b \in BotTasks, NEW u \in People, NEW v \in People, Swipe(b, u, v)
    PROVE  TableInv'
<1>1. PICK action \in {"like", "skip"} :
          Update(b, [NoJob EXCEPT !.pc = "write_like", !.from = u, !.to = v, !.action = action])
    BY DEF Swipe
<1>2. PICK q : /\ q = [NoJob EXCEPT !.pc = "write_like", !.from = u, !.to = v, !.action = action]
               /\ Update(b, q)
    BY <1>1
<1>3. /\ q \in JobState /\ q.pc = "write_like" /\ q.from = u /\ q.to = v
      /\ q.action \in {"like", "skip"}
    BY <1>2, IdleJob DEF NoJob, JobState
<1>4. u # v /\ Rated(u) /\ Rated(v)
    BY DEF Swipe, Rated
<1>5. JobOK(q)
    BY <1>3, <1>4 DEF JobOK, Recomputing
<1>6. UNCHANGED <<profile, form, denied, rating, swipes, events, behind, ratingFaults>>
    BY DEF Swipe, chatVars
<1>7. /\ job' = [job EXCEPT ![b] = q] /\ updates' \in 0..MaxUpdates
      /\ b \in Jobs /\ b \notin Consumers
    BY <1>2, NextUpdate
<1>8. form' \in [People -> Filled \cup {"filling"}] /\ denied' \subseteq People
    BY <1>6 DEF TableInv, RatingTypeOK
<1> QED BY <1>5, <1>6, <1>7, <1>8, QuietStep

(* A task that is to compute the row of one of the two.                     *)
LEMMA RecomputeOK ==
    ASSUME NEW u \in People, NEW v \in People, NEW w \in {u, v}, u # v, Rated(u), Rated(v)
    PROVE  JobOK(Recompute(u, v, w)) /\ Recompute(u, v, w).pc = "load"
<1>1. PICK g : g = Recompute(u, v, w)
    OBVIOUS
<1>2. g \in JobState /\ g.pc = "load" /\ g.from = u /\ g.to = v /\ g.of = w
    BY <1>1, NewRecompute
<1>3. JobOK(g)
    BY <1>2 DEF JobOK, Recomputing
<1> QED BY <1>1, <1>2, <1>3

(* A new row is the user's first: no recomputation holds an older one.      *)
LEMMA InsertStep == ASSUME TableInv, NEW b \in BotTasks, InsertProfile(b) PROVE TableInv'
<1> DEFINE u == job[b].from
<1>1. b \in Jobs /\ job[b] \in JobState /\ JobOK(job[b]) /\ b \notin Consumers
    BY BotIsJob, AtWork
<1>2. u \in People /\ ~Rated(u)
    BY <1>1 DEF InsertProfile, JobOK, Rated
<1>3. PICK q : JobOK(q) /\ q.pc \in {"idle", "insert_photo"} /\ job' = [job EXCEPT ![b] = q]
    <2>1. CASE job[b].fill = "photo"
        <3>1. PICK moved : moved = [job[b] EXCEPT !.pc = "insert_photo"]
            OBVIOUS
        <3>2. moved \in JobState /\ moved.pc = "insert_photo" /\ moved.from = u
            BY <1>1, <3>1, MovedJob DEF Points
        <3>3. JobOK(moved)
            BY <1>2, <3>2, FormJobOK
        <3>4. job' = [job EXCEPT ![b] = moved]
            BY <2>1, <3>1 DEF InsertProfile, Step
        <3> QED BY <3>2, <3>3, <3>4
    <2>2. CASE job[b].fill # "photo"
        BY <2>2, IdleJob, IdleJobOK DEF InsertProfile, End
    <2> QED BY <2>1, <2>2
<1>4. PICK fresh \in RatingRow :
          /\ fresh.exists /\ fresh.combined = <<fresh.primary, fresh.behavioral>>
          /\ rating' = [rating EXCEPT ![u] = fresh]
    <2>1. /\ FreshRow \in RatingRow /\ FreshRow.exists
          /\ FreshRow.combined = <<FreshRow.primary, FreshRow.behavioral>>
        BY IdleJob DEF FreshRow, NoRow, RatingRow
    <2> QED BY <2>1 DEF InsertProfile
<1>5. UNCHANGED <<form, denied, swipes, events, updates, behind, ratingFaults>>
    BY DEF InsertProfile
<1>6. rating \in [People -> RatingRow] /\ job \in [Jobs -> JobState]
    BY DEF TableInv, RatingTypeOK
<1>7. /\ rating' \in [People -> RatingRow] /\ rating'[u] = fresh
      /\ \A w \in People : w # u => rating'[w] = rating[w]
    BY <1>2, <1>4, <1>6
<1>8. \A w \in People : Rated(w) => rating'[w] = rating[w] /\ rating'[w].exists
    BY <1>2, <1>7 DEF Rated
<1>9. ASSUME NEW p, JobOK(p) PROVE JobOK(p)'
    <2>1. p.pc \in {"write_like", "publish"} \cup Recomputing =>
              /\ p.to \in People /\ p.from \in People /\ p.from # p.to
              /\ rating'[p.from] = rating[p.from] /\ rating'[p.to] = rating[p.to]
              /\ rating'[p.from].exists /\ rating'[p.to].exists
        BY <1>8, <1>9 DEF JobOK, Recomputing
    <2> QED BY <1>9, <2>1 DEF JobOK, Recomputing, Rated
<1>10. /\ job' \in [Jobs -> JobState] /\ job'[b] = q
       /\ \A k \in Jobs : k # b => job'[k] = job[k]
    BY <1>1, <1>3, <1>6 DEF JobOK
<1>11. JobsOK'
    <2>1. ASSUME NEW k \in Jobs PROVE JobOK(job'[k])
        BY <1>3, <1>10 DEF TableInv, JobsOK
    <2>2. ASSUME NEW k \in Jobs PROVE JobOK(job[k])'
        <3>1. PICK p : p = job'[k]
            OBVIOUS
        <3>2. JobOK(p)'
            BY <2>1, <3>1, <1>9
        <3> QED BY <3>1, <3>2 DEF JobOK, Rated
    <2>3. ASSUME NEW c \in Consumers PROVE job'[c].pc \in {"idle"} \cup Recomputing
        BY <1>1, <1>10, BotIsJob DEF TableInv, JobsOK
    <2> QED BY <2>2, <2>3 DEF JobsOK
<1>12. RatingTypeOK'
    <2>1. profile' = [profile EXCEPT ![u] = "plain"] /\ profile \in [People -> Filled]
        BY DEF TableInv, RatingTypeOK, InsertProfile
    <2>2. profile' \in [People -> Filled] /\ \A w \in People : w # u => profile'[w] = profile[w]
        BY <2>1, <1>2 DEF Filled
    <2>3. \A w \in People : profile'[w] # "none" => rating'[w].exists
        BY <2>2, <1>4, <1>7 DEF TableInv, RatingTypeOK
    <2> QED BY <2>2, <2>3, <1>5, <1>7, <1>10 DEF TableInv, RatingTypeOK
<1>13. CombinedMatches'
    BY <1>4, <1>5, <1>7 DEF TableInv, CombinedMatches
<1>14. (\A n \in DOMAIN events : EventOK(events[n]))'
    <2>1. ASSUME NEW n \in DOMAIN events PROVE EventOK(events[n])'
        <3>1. EventOK(events[n]) /\ events[n] \in People \X People
            BY DEF TableInv, RatingTypeOK
        <3>2. events[n][1] \in People /\ events[n][2] \in People
            BY <3>1
        <3> QED BY <3>1, <3>2, <1>5, <1>8 DEF EventOK, Rated
    <2> QED BY <2>1, <1>5
<1>15. (\A w \in People : ~Rated(w) => rating[w] = NoRow)'
    BY <1>4, <1>7 DEF TableInv, Rated
<1> QED BY <1>11, <1>12, <1>13, <1>14, <1>15 DEF TableInv

(* A like is written; the ratings of both are to be computed.               *)
LEMMA WriteStep == ASSUME TableInv, NEW b \in BotTasks, WriteSwipe(b) PROVE TableInv'
<1>1. b \in Jobs /\ job[b] \in JobState /\ JobOK(job[b]) /\ b \notin Consumers
    BY BotIsJob, AtWork
<1>2. PICK u \in People, v \in People, action \in {"like", "skip"} :
          u = job[b].from /\ v = job[b].to /\ action = job[b].action
    BY <1>1 DEF WriteSwipe, JobOK
<1>3. u # v /\ Rated(u) /\ Rated(v)
    BY <1>1, <1>2 DEF WriteSwipe, JobOK
<1>4. UNCHANGED <<profile, form, denied, rating, events, updates, behind, ratingFaults>>
    BY DEF WriteSwipe, chatVars
<1>5. PICK q : JobOK(q) /\ job' = [job EXCEPT ![b] = q]
    <2>1. CASE swipes[<<u, v>>] = action
        BY <1>2, <2>1, IdleJobOK DEF WriteSwipe, End
    <2>2. CASE swipes[<<u, v>>] # action
        <3>1. job' = [job EXCEPT ![b] = Recompute(u, v, u)]
            BY <1>2, <2>2 DEF WriteSwipe
        <3>2. JobOK(Recompute(u, v, u))
            BY <1>2, <1>3, RecomputeOK
        <3> QED BY <3>1, <3>2
    <2> QED BY <2>1, <2>2
<1>6. JobsOK' /\ (job \in [Jobs -> JobState])'
    BY <1>1, <1>4, <1>5, OneJob
<1>7. swipes' = [swipes EXCEPT ![<<u, v>>] = action]
    BY <1>2 DEF WriteSwipe
<1>8. swipes \in [People \X People -> {"none", "like", "skip"}]
    BY DEF TableInv, RatingTypeOK
<1>9. RatingTypeOK'
    <2>1. swipes' \in [People \X People -> {"none", "like", "skip"}]
        BY <1>2, <1>7, <1>8
    <2> QED BY <2>1, <1>4, <1>6 DEF TableInv, RatingTypeOK
<1>10. CombinedMatches'
    BY <1>4 DEF TableInv, CombinedMatches
<1>11. (\A n \in DOMAIN events : EventOK(events[n]))'
    BY <1>4 DEF TableInv, EventOK, Rated
<1>12. (\A w \in People : ~Rated(w) => rating[w] = NoRow)'
    BY <1>4 DEF TableInv, Rated
<1> QED BY <1>6, <1>9, <1>10, <1>11, <1>12 DEF TableInv

(* The event is about the two of the tap.                                   *)
LEMMA PublishStep == ASSUME TableInv, NEW b \in BotTasks, PublishSwipe(b) PROVE TableInv'
<1>1. b \in Jobs /\ job[b] \in JobState /\ JobOK(job[b]) /\ b \notin Consumers
    BY BotIsJob, AtWork
<1>2. PICK e \in People \X People : e = <<job[b].from, job[b].to>> /\ EventOK(e)
    <2>1. PICK u \in People, v \in People :
              u = job[b].from /\ v = job[b].to /\ u # v /\ Rated(u) /\ Rated(v)
        BY <1>1 DEF PublishSwipe, JobOK
    <2>2. PICK e : e = <<u, v>>
        OBVIOUS
    <2>3. e \in People \X People /\ e[1] = u /\ e[2] = v
        BY <2>2
    <2> QED BY <2>1, <2>2, <2>3 DEF EventOK
<1>3. UNCHANGED <<profile, form, denied, rating, swipes, updates, behind, ratingFaults>>
    BY DEF PublishSwipe, chatVars
<1>4. job' = [job EXCEPT ![b] = NoJob]
    BY DEF PublishSwipe, End
<1>5. JobsOK' /\ (job \in [Jobs -> JobState])'
    BY <1>1, <1>3, <1>4, IdleJobOK, OneJob
<1>6. events \in Seq(People \X People) /\ \A n \in DOMAIN events : EventOK(events[n])
    BY DEF TableInv, RatingTypeOK
<1>7. events' = events \/ events' = Append(events, e)
    BY <1>2 DEF PublishSwipe
<1>8. events' \in Seq(People \X People) /\ \A n \in DOMAIN events' : EventOK(events'[n])
    <2>1. CASE events' = events
        BY <2>1, <1>6
    <2>2. CASE events' = Append(events, e)
        <3>1. events' \in Seq(People \X People)
            BY <2>2, <1>2, <1>6
        <3>2. ASSUME NEW n \in DOMAIN events' PROVE EventOK(events'[n])
            <4>1. n \in DOMAIN events \/ n = Len(events) + 1
                BY <3>2, <2>2, <1>6
            <4>2. CASE n \in DOMAIN events
                <5>1. events'[n] = events[n]
                    BY <4>2, <2>2, <1>6
                <5> QED BY <5>1, <4>2, <1>6
            <4>3. CASE n = Len(events) + 1
                <5>1. events'[n] = e
                    BY <4>3, <2>2, <1>6
                <5> QED BY <5>1, <1>2
            <4> QED BY <4>1, <4>2, <4>3
        <3> QED BY <3>1, <3>2
    <2> QED BY <1>7, <2>1, <2>2
<1>9. /\ form' \in [People -> Filled \cup {"filling"}] /\ denied' \subseteq People
      /\ updates' \in 0..MaxUpdates /\ ratingFaults' \in 0..RatingFaults
    BY <1>3 DEF TableInv, RatingTypeOK
<1> QED BY <1>3, <1>5, <1>8, <1>9, TablesStand

(* The consumer takes the first event.                                      *)
LEMMA TakeStep == ASSUME TableInv, NEW c \in Consumers, TakeEvent(c) PROVE TableInv'
<1>1. c \in Jobs
    BY BotIsJob
<1>2. events \in Seq(People \X People) /\ events # <<>>
    BY DEF TableInv, RatingTypeOK, TakeEvent
<1>3. /\ Head(events) = events[1] /\ 1 \in DOMAIN events /\ events[1] \in People \X People
      /\ events' = Tail(events) /\ events' \in Seq(People \X People)
    BY <1>2 DEF TakeEvent
<1>4. PICK u \in People, v \in People : u = events[1][1] /\ v = events[1][2]
    BY <1>3
<1>5. EventOK(events[1])
    BY <1>3 DEF TableInv
<1>6. job' = [job EXCEPT ![c] = Recompute(u, v, u)]
    BY <1>3, <1>4 DEF TakeEvent
<1>7. u # v /\ Rated(u) /\ Rated(v)
    BY <1>4, <1>5 DEF EventOK
<1>8. JobOK(Recompute(u, v, u)) /\ Recompute(u, v, u).pc = "load"
    BY <1>7, RecomputeOK
<1>9. UNCHANGED <<profile, form, denied, rating, swipes, updates, behind, ratingFaults>>
    BY DEF TakeEvent, chatVars
<1>10. JobsOK' /\ (job \in [Jobs -> JobState])'
    BY <1>1, <1>6, <1>8, <1>9, OneJob DEF Recomputing
<1>11. ASSUME NEW n \in DOMAIN events' PROVE EventOK(events'[n])
    <2>1. n + 1 \in DOMAIN events /\ events'[n] = events[n + 1]
        BY <1>2, <1>3, <1>11
    <2> QED BY <2>1 DEF TableInv
<1>12. /\ form' \in [People -> Filled \cup {"filling"}] /\ denied' \subseteq People
       /\ updates' \in 0..MaxUpdates /\ ratingFaults' \in 0..RatingFaults
    BY <1>9 DEF TableInv, RatingTypeOK
<1> QED BY <1>3, <1>9, <1>10, <1>11, <1>12, TablesStand

(* A recomputation.                                                         *)
LEMMA AtRecompute ==
    ASSUME TableInv, NEW j \in Jobs, job[j].pc \in Recomputing
    PROVE  /\ job[j].from \in People /\ job[j].to \in People /\ job[j].from # job[j].to
           /\ Rated(job[j].from) /\ Rated(job[j].to)
           /\ job[j].of \in {job[j].from, job[j].to} /\ job[j].of \in People /\ Rated(job[j].of)
<1>1. JobOK(job[j])
    BY AtWork
<1> QED BY <1>1 DEF JobOK, Recomputing

(* A recomputation goes on for the same two people.                         *)
LEMMA SamePlace ==
    ASSUME TableInv, NEW j \in Jobs, job[j].pc \in Recomputing, NEW q \in JobState,
           q.pc \in Recomputing, q.from = job[j].from, q.to = job[j].to, q.of = job[j].of,
           q.pc \in {"count", "save"} /\ q.clean => q.row = rating[q.of]
    PROVE  JobOK(q)
BY AtRecompute DEF JobOK, Recomputing

(* At most everyone likes u.                                                *)
LEMMA LikesBounded ==
    ASSUME NEW u PROVE LikesTo(u) \in 0..Cardinality(People)
<1> DEFINE fans == {v \in People : swipes[<<v, u>>] = "like"}
<1>1. IsFiniteSet(People) /\ fans \subseteq People
    BY RatingAssumption DEF RatingAssumption
<1>2. IsFiniteSet(fans) /\ Cardinality(fans) <= Cardinality(People)
    BY <1>1, FS_Subset
<1>3. Cardinality(fans) \in Nat /\ Cardinality(People) \in Nat
    BY <1>1, <1>2, FS_CardinalityType
<1> QED BY <1>2, <1>3 DEF LikesTo

(* The row is loaded: from here on it is clean.                             *)
LEMMA LoadStep == ASSUME TableInv, NEW j \in Jobs, LoadRow(j) PROVE TableInv'
<1>1. job[j] \in JobState /\ job[j].pc \in Recomputing
    BY AtWork DEF LoadRow, Recomputing
<1>2. PICK u \in People : u = job[j].of
    BY <1>1, AtRecompute
<1>3. PICK row \in RatingRow, p \in 0..2 : row = rating[u] /\ p = PrimaryOf(profile[u])
    <2>1. rating[u] \in RatingRow /\ profile[u] \in Filled
        BY <1>2 DEF TableInv, RatingTypeOK
    <2>2. PrimaryOf(profile[u]) \in 0..2
        BY <2>1 DEF PrimaryOf, Filled
    <2> QED BY <2>1, <2>2
<1>4. PICK q : q = [job[j] EXCEPT !.pc = "count", !.row = row, !.clean = TRUE, !.primary = p]
    OBVIOUS
<1>5. /\ q \in JobState /\ q.pc = "count" /\ q.from = job[j].from /\ q.to = job[j].to
      /\ q.of = job[j].of /\ q.row = row
    BY <1>1, <1>4 DEF JobState
<1>6. JobOK(q)
    BY <1>1, <1>2, <1>3, <1>5, SamePlace DEF Recomputing
<1>7. job' = [job EXCEPT ![j] = q]
    BY <1>2, <1>3, <1>4 DEF LoadRow
<1>8. UNCHANGED <<profile, form, denied, rating, swipes, events, updates, behind, ratingFaults>>
    BY DEF LoadRow, chatVars
<1>9. /\ form' \in [People -> Filled \cup {"filling"}] /\ denied' \subseteq People
      /\ updates' \in 0..MaxUpdates
    BY <1>8 DEF TableInv, RatingTypeOK
<1> QED BY <1>5, <1>6, <1>7, <1>8, <1>9, QuietStep DEF Recomputing

(* The likes are counted.                                                   *)
LEMMA CountStep == ASSUME TableInv, NEW j \in Jobs, CountLikes(j) PROVE TableInv'
<1>1. job[j] \in JobState /\ job[j].pc \in Recomputing /\ job[j].pc = "count" /\ JobOK(job[j])
    BY AtWork DEF CountLikes, Recomputing
<1>2. PICK n \in 0..Cardinality(People) : n = LikesTo(job[j].of)
    BY LikesBounded
<1>3. PICK q : q = [job[j] EXCEPT !.pc = "save", !.count = n]
    OBVIOUS
<1>4. /\ q \in JobState /\ q.pc = "save" /\ q.from = job[j].from /\ q.to = job[j].to
      /\ q.of = job[j].of /\ q.row = job[j].row /\ q.clean = job[j].clean
    BY <1>1, <1>3 DEF JobState
<1>5. q.clean => q.row = rating[q.of]
    BY <1>1, <1>4 DEF JobOK
<1>6. JobOK(q)
    BY <1>1, <1>4, <1>5, SamePlace DEF Recomputing
<1>7. job' = [job EXCEPT ![j] = q]
    BY <1>2, <1>3 DEF CountLikes
<1>8. UNCHANGED <<profile, form, denied, rating, swipes, events, updates, behind, ratingFaults>>
    BY DEF CountLikes, chatVars
<1>9. /\ form' \in [People -> Filled \cup {"filling"}] /\ denied' \subseteq People
      /\ updates' \in 0..MaxUpdates
    BY <1>8 DEF TableInv, RatingTypeOK
<1> QED BY <1>4, <1>6, <1>7, <1>8, <1>9, QuietStep DEF Recomputing

(* What a save writes: undisturbed, the pair of what it computed.           *)
LEMMA SavedRow ==
    ASSUME TableInv, NEW j \in Jobs, SaveRow(j)
    PROVE  /\ rating' \in [People -> RatingRow]
           /\ rating'[job[j].of].exists
           /\ job[j].clean =>
                  /\ rating'[job[j].of].behavioral = job[j].count
                  /\ rating'[job[j].of].combined =
                         <<rating'[job[j].of].primary, rating'[job[j].of].behavioral>>
           /\ \A w \in People : w # job[j].of => rating'[w] = rating[w]
<1>1. job[j] \in JobState /\ job[j].pc = "save" /\ job[j].pc \in Recomputing /\ JobOK(job[j])
    BY AtWork DEF SaveRow, Recomputing
<1>2. PICK u \in People : u = job[j].of
    BY <1>1, AtRecompute
<1>3. PICK p \in 0..2, n \in 0..Cardinality(People), row \in RatingRow, old \in RatingRow :
          p = job[j].primary /\ n = job[j].count /\ row = job[j].row /\ old = rating[u]
    BY <1>1 DEF JobState, TableInv, RatingTypeOK
<1>4. PICK new : /\ new = [exists |-> TRUE,
                           primary |-> IF p # row.primary THEN p ELSE old.primary,
                           behavioral |-> IF n # row.behavioral THEN n ELSE old.behavioral,
                           combined |-> IF <<p, n>> # row.combined THEN <<p, n>>
                                        ELSE old.combined]
                 /\ rating' = [rating EXCEPT ![u] = new]
    BY <1>2, <1>3 DEF SaveRow, Computed
<1>5. new \in RatingRow /\ new.exists
    BY <1>4, <1>3 DEF RatingRow
<1>6. row = old => new.behavioral = n /\ new.combined = <<new.primary, new.behavioral>>
    BY <1>4, <1>3 DEF RatingRow
<1>7. job[j].clean => row = old
    BY <1>1, <1>2, <1>3 DEF JobOK
<1>8. rating \in [People -> RatingRow]
    BY DEF TableInv, RatingTypeOK
<1>9. /\ rating' \in [People -> RatingRow] /\ rating'[u] = new
      /\ \A w \in People : w # u => rating'[w] = rating[w]
    BY <1>4, <1>5, <1>8
<1> QED BY <1>2, <1>3, <1>5, <1>6, <1>7, <1>9

(* What the others are after it.                                            *)
LEMMA AfterOvertaken ==
    ASSUME TableInv, NEW j \in Jobs, SaveRow(j), NEW k \in Jobs
    PROVE  /\ k = j => job'[k] = AfterSave(j)
           /\ k # j /\ job[k].of = job[j].of /\ job[k].pc \in {"count", "save"} =>
                  job'[k] = [job[k] EXCEPT !.clean = FALSE]
           /\ k # j /\ ~(job[k].of = job[j].of /\ job[k].pc \in {"count", "save"}) =>
                  job'[k] = job[k]
<1> DEFINE u == job[j].of
           next == AfterSave(j)
           jobs == [job EXCEPT ![j] = next]
<1>1. next.pc \notin {"count", "save"}
    BY DEF AfterSave, Recompute, NoJob
<1>2. job' = Overtaken(jobs, u)
    BY DEF SaveRow
<1>3. job \in [Jobs -> JobState]
    BY AtWork
<1> HIDE DEF next, u
<1>4. jobs[j] = next /\ \A i \in Jobs : i # j => jobs[i] = job[i]
    BY <1>3
<1> HIDE DEF jobs
<1>5. job'[k] = IF jobs[k].of = u /\ jobs[k].pc \in {"count", "save"}
                THEN [jobs[k] EXCEPT !.clean = FALSE] ELSE jobs[k]
    BY <1>2 DEF Overtaken
<1>6. CASE k = j
    <2>1. job'[k] = next
        BY <1>1, <1>4, <1>5, <1>6
    <2> QED BY <2>1, <1>6 DEF next
<1>7. CASE k # j
    BY <1>4, <1>5, <1>7 DEF u
<1> QED BY <1>6, <1>7

(* A step of everyone keeps the type when it does for each.                 *)
LEMMA JobDomain ==
    ASSUME NEW f, f = [k \in Jobs |-> f[k]], \A k \in Jobs : f[k] \in JobState
    PROVE  f \in [Jobs -> JobState]
OBVIOUS

(* On to the other user, the event, or the end.                             *)
LEMMA AfterSaveOK ==
    ASSUME TableInv, NEW j \in Jobs, job[j].pc \in Recomputing
    PROVE  /\ JobOK(AfterSave(j)) /\ AfterSave(j).pc \in {"load", "publish", "idle"}
           /\ j \in Consumers => AfterSave(j).pc # "publish"
<1>1. PICK u \in People, v \in People :
          u = job[j].from /\ v = job[j].to /\ u # v /\ Rated(u) /\ Rated(v)
    BY AtRecompute
<1>2. j \in BotTasks => j \notin Consumers
    BY AtWork
<1>3. CASE job[j].of = u
    BY <1>1, <1>3, RecomputeOK DEF AfterSave
<1>4. CASE job[j].of # u /\ j \in BotTasks
    <2>1. PICK q : q = [NoJob EXCEPT !.pc = "publish", !.from = u, !.to = v]
        OBVIOUS
    <2>2. q \in JobState /\ q.pc = "publish" /\ q.from = u /\ q.to = v
        BY <1>1, <2>1, IdleJob DEF NoJob, JobState
    <2>3. JobOK(q)
        BY <1>1, <2>2 DEF JobOK, Recomputing
    <2>4. AfterSave(j) = q
        BY <1>1, <1>4, <2>1 DEF AfterSave
    <2> QED BY <2>2, <2>3, <2>4, <1>2, <1>4
<1>5. CASE job[j].of # u /\ j \notin BotTasks
    BY <1>1, <1>5, IdleJob, IdleJobOK DEF AfterSave
<1> QED BY <1>3, <1>4, <1>5

(* The row is saved: a clean save writes a pair, others are overtaken.      *)
LEMMA SaveStep == ASSUME TableInv, NEW j \in Jobs, SaveRow(j) PROVE TableInv'
<1>1. job[j] \in JobState /\ job[j].pc = "save" /\ job[j].pc \in Recomputing /\ JobOK(job[j])
    BY AtWork DEF SaveRow, Recomputing
<1>2. PICK u \in People : u = job[j].of /\ Rated(u)
    BY <1>1, AtRecompute
<1>3. /\ rating' \in [People -> RatingRow] /\ rating'[u].exists
      /\ job[j].clean => rating'[u].combined = <<rating'[u].primary, rating'[u].behavioral>>
      /\ \A w \in People : w # u => rating'[w] = rating[w]
    BY <1>2, SavedRow
<1>4. UNCHANGED <<profile, form, denied, swipes, events, updates, ratingFaults>>
    BY DEF SaveRow, chatVars
<1>5. \A w \in People : Rated(w) => rating'[w].exists
    BY <1>2, <1>3 DEF Rated
<1>6. ASSUME NEW p, JobOK(p), p.pc \in {"count", "save"} /\ p.clean => p.of # u
      PROVE  JobOK(p)'
    <2>1. p.pc \in {"write_like", "publish"} \cup Recomputing =>
              /\ p.to \in People /\ p.from \in People /\ p.from # p.to
              /\ rating'[p.from].exists /\ rating'[p.to].exists
        BY <1>5, <1>6 DEF JobOK, Recomputing
    <2>2. p.pc \in {"count", "save"} /\ p.clean => p.row = rating'[p.of]
        <3>1. SUFFICES ASSUME p.pc \in {"count", "save"}, p.clean PROVE p.row = rating'[p.of]
            OBVIOUS
        <3>2. p.of \in People /\ p.of # u /\ p.row = rating[p.of]
            BY <1>6, <3>1 DEF JobOK, Recomputing
        <3> QED BY <3>2, <1>3
    <2> QED BY <1>6, <2>1, <2>2 DEF JobOK, Recomputing, Rated
<1>7. ASSUME NEW k \in Jobs
      PROVE  /\ JobOK(job'[k])
             /\ job'[k].pc \in {"count", "save"} /\ job'[k].clean => job'[k].of # u
             /\ k \in Consumers => job'[k].pc \in {"idle"} \cup Recomputing
    <2>1. JobOK(job[k]) /\ job[k] \in JobState
          /\ (k \in Consumers => job[k].pc \in {"idle"} \cup Recomputing)
        BY AtWork
    <2>2. CASE k = j
        <3>1. job'[k] = AfterSave(j)
            BY <2>2, AfterOvertaken
        <3> QED BY <2>2, <3>1, <1>1, AfterSaveOK DEF Recomputing
    <2>3. CASE k # j /\ job[k].of = u /\ job[k].pc \in {"count", "save"}
        <3>1. PICK q : q = [job[k] EXCEPT !.clean = FALSE]
            OBVIOUS
        <3>2. job'[k] = q
            BY <2>3, <3>1, <1>2, AfterOvertaken
        <3>3. /\ q \in JobState /\ q.pc = job[k].pc /\ q.from = job[k].from
              /\ q.to = job[k].to /\ q.action = job[k].action /\ q.of = job[k].of /\ ~q.clean
            BY <2>1, <3>1, UncleanJob
        <3>4. JobOK(q)
            BY <2>1, <3>3 DEF JobOK
        <3> QED BY <2>1, <3>2, <3>3, <3>4
    <2>4. CASE k # j /\ ~(job[k].of = u /\ job[k].pc \in {"count", "save"})
        <3>1. job'[k] = job[k]
            BY <2>4, <1>2, AfterOvertaken
        <3> QED BY <2>1, <2>4, <3>1
    <2> QED BY <2>2, <2>3, <2>4
<1>8. JobsOK'
    <2>1. ASSUME NEW k \in Jobs PROVE JobOK(job[k])'
        <3>1. PICK p : p = job'[k]
            OBVIOUS
        <3>2. JobOK(p)'
            BY <3>1, <1>6, <1>7
        <3> QED BY <3>1, <3>2 DEF JobOK, Rated
    <2> QED BY <2>1, <1>7, BotIsJob DEF JobsOK
<1>9. job' \in [Jobs -> JobState]
    <2>1. \A k \in Jobs : job'[k] \in JobState
        BY <1>7 DEF JobOK
    <2>2. job' = [k \in Jobs |-> job'[k]]
        BY DEF SaveRow, Overtaken
    <2> QED BY <2>1, <2>2, JobDomain
<1>10. behind' = IF job[j].clean THEN behind \ {u} ELSE behind \cup {u}
    BY <1>2 DEF SaveRow
<1>11. RatingTypeOK'
    <2>1. \A w \in People : profile'[w] # "none" => rating'[w].exists
        BY <1>4, <1>5 DEF TableInv, RatingTypeOK, Rated
    <2>2. behind' \subseteq People
        BY <1>10 DEF TableInv, RatingTypeOK
    <2> QED BY <2>1, <2>2, <1>3, <1>4, <1>9 DEF TableInv, RatingTypeOK
<1>12. CombinedMatches'
    <2>1. ASSUME NEW w \in People \ behind'
          PROVE  rating'[w].combined = <<rating'[w].primary, rating'[w].behavioral>>
        <3>1. CASE w = u
            BY <2>1, <3>1, <1>3, <1>10
        <3>2. CASE w # u
            BY <2>1, <3>2, <1>3, <1>10 DEF TableInv, CombinedMatches
        <3> QED BY <3>1, <3>2
    <2> QED BY <2>1 DEF CombinedMatches
<1>13. (\A n \in DOMAIN events : EventOK(events[n]))'
    <2>1. ASSUME NEW n \in DOMAIN events PROVE EventOK(events[n])'
        <3>1. EventOK(events[n]) /\ events[n] \in People \X People
            BY DEF TableInv, RatingTypeOK
        <3>2. events[n][1] \in People /\ events[n][2] \in People
            BY <3>1
        <3> QED BY <3>1, <3>2, <1>4, <1>5 DEF EventOK, Rated
    <2> QED BY <2>1, <1>4
<1>14. (\A w \in People : ~Rated(w) => rating[w] = NoRow)'
    BY <1>3 DEF TableInv, Rated
<1> QED BY <1>8, <1>11, <1>12, <1>13, <1>14 DEF TableInv

-----------------------------------------------------------------------------
(* Failures.                                                                *)

(* Who stops is idle; who computes a row of theirs has been overtaken.      *)
LEMMA AfterDrop ==
    ASSUME TableInv, NEW js, Drop(js), NEW k \in Jobs
    PROVE  /\ k \in js => job'[k] = NoJob
           /\ k \notin js => \/ job'[k] = job[k]
                             \/ /\ job[k].of \in UNION {Owes(j) : j \in js \cap BotTasks}
                                /\ job'[k] = [job[k] EXCEPT !.clean = FALSE]
           /\ k \notin js /\ job[k].of \in UNION {Owes(j) : j \in js \cap BotTasks} =>
                  job'[k] = [job[k] EXCEPT !.clean = FALSE]
<1> DEFINE lost == UNION {Owes(j) : j \in js \cap BotTasks}
<1>1. job' = [i \in Jobs |-> CASE i \in js -> NoJob
                               [] i \notin js /\ job[i].of \in lost -> [job[i] EXCEPT !.clean = FALSE]
                               [] OTHER -> job[i]]
    BY DEF Drop
<1> HIDE DEF lost
<1>2. /\ k \in js => job'[k] = NoJob
      /\ k \notin js /\ job[k].of \in lost => job'[k] = [job[k] EXCEPT !.clean = FALSE]
      /\ k \notin js /\ job[k].of \notin lost => job'[k] = job[k]
    BY <1>1
<1>3. k \notin js => \/ job'[k] = job[k]
                     \/ job[k].of \in lost /\ job'[k] = [job[k] EXCEPT !.clean = FALSE]
    BY <1>2
<1> QED BY <1>2, <1>3 DEF lost

(* What is left after a failure is idle, as it was, or overtaken.           *)
LEMMA DropJobs ==
    ASSUME TableInv, NEW js, Drop(js), UNCHANGED rating
    PROVE  JobsOK' /\ (job \in [Jobs -> JobState])'
<1>1. ASSUME NEW k \in Jobs
      PROVE  /\ JobOK(job'[k])
             /\ k \in Consumers => job'[k].pc \in {"idle"} \cup Recomputing
    <2>1. JobOK(job[k]) /\ job[k] \in JobState
          /\ (k \in Consumers => job[k].pc \in {"idle"} \cup Recomputing)
        BY AtWork
    <2>2. CASE job'[k] = NoJob
        BY <2>2, IdleJob, IdleJobOK
    <2>3. CASE job'[k] = job[k]
        BY <2>1, <2>3
    <2>4. CASE job'[k] = [job[k] EXCEPT !.clean = FALSE]
        <3>1. PICK q : q = [job[k] EXCEPT !.clean = FALSE]
            OBVIOUS
        <3>2. /\ q \in JobState /\ q.pc = job[k].pc /\ q.from = job[k].from
              /\ q.to = job[k].to /\ q.action = job[k].action /\ q.of = job[k].of /\ ~q.clean
            BY <2>1, <3>1, UncleanJob
        <3>3. JobOK(q)
            BY <2>1, <3>2 DEF JobOK
        <3> QED BY <2>1, <2>4, <3>1, <3>2, <3>3
    <2> QED BY <2>2, <2>3, <2>4, AfterDrop
<1>2. ASSUME NEW k \in Jobs PROVE JobOK(job[k])'
    BY <1>1 DEF JobOK, Rated
<1>3. \A k \in Jobs : job'[k] \in JobState
    BY <1>1 DEF JobOK
<1>4. job' = [k \in Jobs |-> job'[k]]
    BY DEF Drop
<1> QED BY <1>1, <1>2, <1>3, <1>4, JobDomain, BotIsJob DEF JobsOK

(* Nobody owes a row of a stranger.                                         *)
LEMMA OwesPeople == ASSUME TableInv, NEW j \in Jobs PROVE Owes(j) \subseteq People
<1>1. CASE job[j].pc \in Recomputing
    BY <1>1, AtRecompute DEF Owes, Recomputing
<1>2. CASE job[j].pc \notin Recomputing
    BY <1>2 DEF Owes, Recomputing
<1> QED BY <1>1, <1>2

(* A failure; who is owed a row is behind.                                  *)
LEMMA DropStep ==
    ASSUME TableInv, NEW js, Drop(js), UNCHANGED <<profile, form, denied, rating, swipes, updates>>,
           ratingFaults < RatingFaults, ratingFaults' = ratingFaults + 1,
           behind' = behind \cup UNION {Owes(j) : j \in js \cap BotTasks},
           events' \in Seq(People \X People), \A n \in DOMAIN events' : EventOK(events'[n])
    PROVE  TableInv'
<1>1. JobsOK' /\ (job \in [Jobs -> JobState])'
    BY DropJobs
<1>2. behind' \subseteq People /\ behind \subseteq behind'
    BY OwesPeople, BotIsJob DEF TableInv, RatingTypeOK
<1>3. ratingFaults' \in 0..RatingFaults
    BY RatingAssumption DEF TableInv, RatingTypeOK, RatingAssumption
<1>4. RatingTypeOK'
    BY <1>1, <1>2, <1>3 DEF TableInv, RatingTypeOK
<1>5. CombinedMatches'
    BY <1>2 DEF TableInv, CombinedMatches
<1>6. (\A n \in DOMAIN events : EventOK(events[n]))'
    BY DEF EventOK, Rated
<1>7. (\A w \in People : ~Rated(w) => rating[w] = NoRow)'
    BY DEF TableInv, Rated
<1> QED BY <1>1, <1>4, <1>5, <1>6, <1>7 DEF TableInv

(* One handler raises.                                                      *)
LEMMA RaisesStep == ASSUME TableInv, NEW j \in Jobs, HandlerRaises(j) PROVE TableInv'
<1>1. behind' = behind \cup UNION {Owes(i) : i \in {j} \cap BotTasks}
    BY DEF HandlerRaises
<1>2. UNCHANGED <<profile, form, denied, rating, swipes, events, updates>>
    BY DEF HandlerRaises, chatVars
<1>3. events' \in Seq(People \X People) /\ \A n \in DOMAIN events' : EventOK(events'[n])
    BY <1>2 DEF TableInv, RatingTypeOK
<1>4. Drop({j}) /\ ratingFaults < RatingFaults /\ ratingFaults' = ratingFaults + 1
    BY DEF HandlerRaises
<1> QED BY <1>1, <1>2, <1>3, <1>4, DropStep

(* The bot restarts.                                                        *)
LEMMA BotStep == ASSUME TableInv, BotRestarts PROVE TableInv'
<1>1. behind' = behind \cup UNION {Owes(i) : i \in BotTasks \cap BotTasks}
    BY DEF BotRestarts
<1>2. UNCHANGED <<profile, form, denied, rating, swipes, events, updates>>
    BY DEF BotRestarts, chatVars
<1>3. events' \in Seq(People \X People) /\ \A n \in DOMAIN events' : EventOK(events'[n])
    BY <1>2 DEF TableInv, RatingTypeOK
<1>4. Drop(BotTasks) /\ ratingFaults < RatingFaults /\ ratingFaults' = ratingFaults + 1
    BY DEF BotRestarts
<1> QED BY <1>1, <1>2, <1>3, <1>4, DropStep

(* A finite set put into some order.                                        *)
LEMMA OrderedSet ==
    ASSUME NEW S, IsFiniteSet(S)
    PROVE  SetToSeq(S) \in Seq(S)
<1>1. PICK n \in Nat : ExistsBijection(1..n, S) /\ n = Cardinality(S)
    BY FS_CardinalityType
<1>2. PICK f \in Bijection(1..n, S) : TRUE
    BY <1>1 DEF ExistsBijection
<1>3. f \in [1..Cardinality(S) -> S] /\ IsInjective(f)
    BY <1>1, <1>2 DEF Bijection, Injection
<1>4. SetToSeq(S) \in [1..Cardinality(S) -> S]
    BY <1>3 DEF SetToSeq
<1> QED BY <1>1, <1>4

(* What the consumer had in hand is about rated people.                     *)
LEMMA ConsumerStep == ASSUME TableInv, ConsumerRestarts PROVE TableInv'
<1> DEFINE busy == {c \in Consumers : job[c].pc # "idle"}
           back == SetToSeq(busy)
           again == [n \in DOMAIN back |-> <<job[back[n]].from, job[back[n]].to>>]
<1>1. behind' = behind \cup UNION {Owes(i) : i \in Consumers \cap BotTasks}
    BY RatingAssumption DEF ConsumerRestarts, RatingAssumption
<1>2. UNCHANGED <<profile, form, denied, rating, swipes, updates>>
    BY DEF ConsumerRestarts, chatVars
<1>3. Drop(Consumers) /\ ratingFaults < RatingFaults /\ ratingFaults' = ratingFaults + 1
    BY DEF ConsumerRestarts
<1>4. events' = again \o events
    BY DEF ConsumerRestarts
<1>5. IsFiniteSet(busy)
    BY RatingAssumption, FS_Subset DEF RatingAssumption
<1>6. back \in Seq(busy)
    BY <1>5, OrderedSet
<1>7. ASSUME NEW c \in busy
      PROVE  LET e == <<job[c].from, job[c].to>> IN e \in People \X People /\ EventOK(e)
    <2>1. c \in Jobs /\ job[c].pc \in Recomputing
        BY BotIsJob, AtWork
    <2>2. PICK u \in People, v \in People :
              u = job[c].from /\ v = job[c].to /\ u # v /\ Rated(u) /\ Rated(v)
        BY <2>1, AtRecompute
    <2>3. PICK e : e = <<u, v>>
        OBVIOUS
    <2>4. e \in People \X People /\ e[1] = u /\ e[2] = v
        BY <2>3
    <2>5. e \in People \X People /\ EventOK(e)
        BY <2>2, <2>4 DEF EventOK
    <2> QED BY <2>2, <2>3, <2>5
<1> HIDE DEF busy
<1>8. \A n \in DOMAIN back : back[n] \in busy
    BY <1>6
<1>9. \A n \in DOMAIN back : again[n] \in People \X People /\ EventOK(again[n])
    BY <1>7, <1>8
<1>10. DOMAIN back = 1..Len(back) /\ Len(back) \in Nat
    BY <1>6
<1>11. again \in Seq(People \X People)
    BY <1>9, <1>10
<1>12. /\ events \in Seq(People \X People)
       /\ \A n \in DOMAIN events : EventOK(events[n])
    BY DEF TableInv, RatingTypeOK
<1>13. \A n \in DOMAIN again : EventOK(again[n])
    BY <1>9
<1> HIDE DEF again
<1>14. events' \in Seq(People \X People) /\ \A n \in DOMAIN events' : EventOK(events'[n])
    <2>1. events' \in Seq(People \X People)
        BY <1>4, <1>11, <1>12
    <2>2. ASSUME NEW n \in DOMAIN events' PROVE EventOK(events'[n])
        <3>1. CASE n \in DOMAIN again
            <4>1. events'[n] = again[n]
                BY <3>1, <1>4, <1>11, <1>12
            <4> QED BY <3>1, <4>1, <1>13
        <3>2. CASE n \notin DOMAIN again
            <4>1. /\ events'[n] = events[n - Len(again)]
                  /\ n - Len(again) \in DOMAIN events
                BY <2>2, <3>2, <1>4, <1>11, <1>12
            <4> QED BY <4>1, <1>12
        <3> QED BY <3>1, <3>2
    <2> QED BY <2>1, <2>2
<1> QED BY <1>1, <1>2, <1>3, <1>14, DropStep

-----------------------------------------------------------------------------
(* The tables the seed script leaves.                                       *)
LEMMA TableInit == RatingInit => TableInv
<1> SUFFICES ASSUME RatingInit PROVE TableInv
    OBVIOUS
<1>1. Cardinality(People) \in Nat
    BY RatingAssumption, FS_CardinalityType DEF RatingAssumption
<1>2. PICK plain \in RatingRow :
          /\ plain.exists /\ plain.combined = <<plain.primary, plain.behavioral>>
          /\ rating = [u \in People |-> IF u \in Seeded THEN plain ELSE NoRow]
    <2>1. PICK plain : plain = [exists |-> TRUE, primary |-> 1, behavioral |-> 0,
                                combined |-> <<1, 0>>]
        OBVIOUS
    <2>2. plain \in RatingRow /\ plain.exists
          /\ plain.combined = <<plain.primary, plain.behavioral>>
        BY <1>1, <2>1 DEF RatingRow
    <2>3. PrimaryOf("plain") = 1
        BY DEF PrimaryOf
    <2> QED BY <2>1, <2>2, <2>3 DEF RatingInit
<1>3. /\ rating \in [People -> RatingRow]
      /\ \A u \in People : rating[u].combined = <<rating[u].primary, rating[u].behavioral>>
      /\ \A u \in Seeded : u \in People => rating[u].exists
    BY <1>2, IdleJob
<1>4. RatingTypeOK
    <2>1. /\ profile \in [People -> Filled]
          /\ \A u \in People : profile[u] # "none" => rating[u].exists
        BY <1>3 DEF RatingInit, Filled
    <2>2. job \in [Jobs -> JobState]
        BY IdleJob DEF RatingInit
    <2>3. /\ swipes \in [People \X People -> {"none", "like", "skip"}]
          /\ form \in [People -> Filled \cup {"filling"}]
        BY DEF RatingInit, Filled
    <2>4. events \in Seq(People \X People)
        BY DEF RatingInit
    <2>5. /\ updates \in 0..MaxUpdates /\ ratingFaults \in 0..RatingFaults
          /\ behind \subseteq People /\ denied \subseteq People
        BY RatingAssumption DEF RatingInit, RatingAssumption
    <2> QED BY <1>3, <2>1, <2>2, <2>3, <2>4, <2>5 DEF RatingTypeOK
<1>5. CombinedMatches
    BY <1>3 DEF CombinedMatches
<1>6. JobsOK
    BY IdleJob, IdleJobOK, BotIsJob DEF JobsOK, RatingInit
<1>7. \A n \in DOMAIN events : EventOK(events[n])
    BY DEF RatingInit
<1>8. \A u \in People : ~Rated(u) => rating[u] = NoRow
    BY <1>2, IdleJob DEF Rated
<1> QED BY <1>4, <1>5, <1>6, <1>7, <1>8 DEF TableInv

(* A stuttering step.                                                       *)
LEMMA TableStands == ASSUME TableInv, UNCHANGED ratingVars PROVE TableInv'
BY DEF TableInv, RatingTypeOK, CombinedMatches, JobsOK, JobOK, EventOK, Rated, ratingVars, chatVars

(* Every step keeps TableInv.                                               *)
LEMMA TableStep == TableInv /\ [RatingNext]_ratingVars => TableInv'
<1> SUFFICES ASSUME TableInv, [RatingNext]_ratingVars PROVE TableInv'
    OBVIOUS
<1>1. ASSUME NEW u \in Applicants, ShowProfile(u) \/ StartForm(u) \/ FillForm(u)
      PROVE  TableInv'
    BY <1>1, FormStep
<1>2. ASSUME NEW u \in Applicants, NEW b \in BotTasks, Confirm(b, u) \/ PressDelete(b, u)
      PROVE  TableInv'
    BY <1>2, ConfirmStep
<1>3. ASSUME NEW b \in BotTasks, NEW u \in People, NEW v \in People, Swipe(b, u, v)
      PROVE  TableInv'
    BY <1>3, SwipeStep
<1>4. ASSUME NEW b \in BotTasks,
             \/ GetData(b) \/ ClearForm(b) \/ InsertProfile(b) \/ InsertRefused(b)
             \/ InsertPhoto(b) \/ DeleteProfile(b) \/ WriteSwipe(b) \/ PublishSwipe(b)
      PROVE  TableInv'
    BY <1>4, GetDataStep, ClearStep, InsertStep, InsertRefusedStep, ProfileStep, WriteStep,
       PublishStep
<1>5. ASSUME NEW c \in Consumers, TakeEvent(c) PROVE TableInv'
    BY <1>5, TakeStep
<1>6. ASSUME NEW j \in Jobs, LoadRow(j) \/ CountLikes(j) \/ SaveRow(j) \/ HandlerRaises(j)
      PROVE  TableInv'
    BY <1>6, LoadStep, CountStep, SaveStep, RaisesStep
<1>7. CASE UNCHANGED ratingVars
    BY <1>7, TableStands
<1> QED BY <1>1, <1>2, <1>3, <1>4, <1>5, <1>6, <1>7, BotStep, ConsumerStep DEF RatingNext

(* TableInv holds in every state.                                           *)
LEMMA TableInvariant == RatingSpec => []TableInv
<1>1. RatingInit => TableInv
    BY TableInit
<1>2. TableInv /\ [RatingNext]_ratingVars => TableInv'
    BY TableStep
<1> QED BY <1>1, <1>2, PTL DEF RatingSpec

(* The type invariant.                                                      *)
THEOREM RatingTypeCorrect == RatingSpec => []RatingTypeOK
<1>1. TableInv => RatingTypeOK
    BY DEF TableInv
<1> QED BY <1>1, TableInvariant, PTL

(* CombinedMatches.                                                         *)
THEOREM CombinedCorrect == RatingSpec => []CombinedMatches
<1>1. TableInv => CombinedMatches
    BY DEF TableInv
<1> QED BY <1>1, TableInvariant, PTL

-----------------------------------------------------------------------------
(* RatingSettles.                                                           *)

(* Nothing is due from who is not recomputing.                              *)
LEMMA NotDue ==
    ASSUME NEW q, q.pc \notin Recomputing
    PROVE  \A u : ~Due(q, u)
BY DEF Due, Recomputing

(* The likes are counted from the table of swipes.                          *)
LEMMA SameLikes == ASSUME UNCHANGED swipes, NEW u PROVE LikesTo(u)' = LikesTo(u)
BY DEF LikesTo

(* A row that is awaited still is when everyone due stays due.              *)
LEMMA StillAwaits ==
    ASSUME UNCHANGED swipes, NEW u, NEW js, Awaits(u, js),
           \A b \in BotTasks \cap js : Due(job[b], u) => Due(job'[b], u)
    PROVE  Awaits(u, js)'
<1>1. PICK b \in BotTasks \cap js : Due(job[b], u)
    BY DEF Awaits
<1>2. Due(job'[b], u)
    BY <1>1
<1>3. PICK q : q = job'[b]
    OBVIOUS
<1>4. Due(q, u)'
    BY <1>2, <1>3, SameLikes DEF Due
<1>5. Due(job[b], u)'
    BY <1>3, <1>4 DEF Due
<1> QED BY <1>5 DEF Awaits

(* A step that leaves the likes, and everyone due, as they were.            *)
LEMMA SettlesOn ==
    ASSUME Settling, UNCHANGED swipes,
           \A u \in People \ behind' :
               /\ u \notin behind /\ rating'[u].behavioral = rating[u].behavioral
               /\ \A b \in BotTasks : Due(job[b], u) => Due(job'[b], u),
           \A j \in Jobs : \A u \in People :
               job'[j].pc = "save" /\ job'[j].clean /\ job'[j].of = u =>
                   \/ job'[j].count = LikesTo(u)
                   \/ /\ job[j].pc = "save" /\ job[j].clean /\ job[j].of = u
                      /\ job'[j].count = job[j].count
                      /\ \A b \in BotTasks \ {j} : Due(job[b], u) => Due(job'[b], u)
    PROVE  Settling'
<1>1. ASSUME NEW u \in People \ behind' PROVE Covered(u)'
    <2>1. Covered(u)
        BY <1>1 DEF Settling
    <2>2. CASE rating[u].behavioral = LikesTo(u)
        BY <1>1, <2>2, SameLikes DEF Covered
    <2>3. CASE Awaits(u, Jobs)
        <3>1. Awaits(u, Jobs)'
            BY <1>1, <2>3, StillAwaits
        <3> QED BY <3>1 DEF Covered
    <2> QED BY <2>1, <2>2, <2>3 DEF Covered
<1>2. ASSUME NEW j \in Jobs, NEW u \in People,
             job'[j].pc = "save" /\ job'[j].clean /\ job'[j].of = u
      PROVE  job'[j].count = LikesTo(u)' \/ Awaits(u, Jobs \ {j})'
    <2>1. CASE job'[j].count = LikesTo(u)
        BY <2>1, SameLikes
    <2>2. CASE /\ job[j].pc = "save" /\ job[j].clean /\ job[j].of = u
               /\ job'[j].count = job[j].count
               /\ \A b \in BotTasks \ {j} : Due(job[b], u) => Due(job'[b], u)
        <3>1. job[j].count = LikesTo(u) \/ Awaits(u, Jobs \ {j})
            BY <2>2 DEF Settling, Followed
        <3>2. CASE job[j].count = LikesTo(u)
            BY <2>2, <3>2, SameLikes
        <3>3. CASE Awaits(u, Jobs \ {j})
            BY <2>2, <3>3, StillAwaits
        <3> QED BY <3>1, <3>2, <3>3
    <2> QED BY <1>2, <2>1, <2>2
<1>3. ASSUME NEW j \in Jobs PROVE Followed(j)'
    BY <1>2 DEF Followed
<1> QED BY <1>1, <1>3 DEF Settling

(* One coroutine moves and stays due.                                       *)
LEMMA OneSettles ==
    ASSUME TableInv, Settling, NEW j \in Jobs, NEW q, job' = [job EXCEPT ![j] = q],
           UNCHANGED <<swipes, behind>>,
           \A u \in People : rating'[u].behavioral = rating[u].behavioral,
           \A u \in People : Due(job[j], u) => Due(q, u),
           \A u \in People : q.pc = "save" /\ q.of = u => q.count = LikesTo(u)
    PROVE  Settling'
<1>1. job'[j] = q /\ \A k \in Jobs : k # j => job'[k] = job[k]
    BY AtWork
<1>2. \A u \in People : \A b \in BotTasks : Due(job[b], u) => Due(job'[b], u)
    BY <1>1, BotIsJob
<1>3. \A k \in Jobs : \A u \in People :
          job'[k].pc = "save" /\ job'[k].clean /\ job'[k].of = u =>
              \/ job'[k].count = LikesTo(u)
              \/ /\ job[k].pc = "save" /\ job[k].clean /\ job[k].of = u
                 /\ job'[k].count = job[k].count
                 /\ \A b \in BotTasks \ {k} : Due(job[b], u) => Due(job'[b], u)
    BY <1>1, <1>2
<1> QED BY <1>2, <1>3, SettlesOn

(* Taps that do not recompute; what the consumer takes is not due.          *)
LEMMA QuietMove ==
    ASSUME TableInv, NEW b \in Jobs,
           \/ b \in BotTasks /\ \/ GetData(b) \/ ClearForm(b) \/ InsertProfile(b)
                                \/ InsertRefused(b) \/ InsertPhoto(b) \/ DeleteProfile(b)
                                \/ PublishSwipe(b)
           \/ b \in BotTasks /\ \E u \in People, v \in People : Swipe(b, u, v)
           \/ b \in BotTasks /\ \E u \in Applicants : Confirm(b, u) \/ PressDelete(b, u)
           \/ b \in Consumers /\ TakeEvent(b)
    PROVE  /\ job[b].pc \notin Recomputing
           /\ \E q : q.pc # "save" /\ job' = [job EXCEPT ![b] = q]
           /\ UNCHANGED <<swipes, behind>>
<1>1. job[b] \in JobState /\ job \in [Jobs -> JobState]
    BY AtWork
<1>2. NoJob.pc # "save" /\ \A u, v, w : Recompute(u, v, w).pc # "save"
    BY DEF NoJob, Recompute
<1>3. \A pc : [job[b] EXCEPT !.pc = pc].pc = pc
    BY <1>1 DEF JobState
<1>4. CASE b \in BotTasks /\ \/ ClearForm(b) \/ InsertProfile(b) \/ InsertRefused(b)
                             \/ InsertPhoto(b) \/ DeleteProfile(b) \/ PublishSwipe(b)
    <2>1. /\ job[b].pc \in {"clear", "insert", "insert_photo", "delete", "publish"}
          /\ \/ Step(b, "insert") \/ Step(b, "insert_photo") \/ End(b)
          /\ UNCHANGED <<swipes, behind>>
        BY <1>4 DEF ClearForm, InsertProfile, InsertRefused, InsertPhoto, DeleteProfile,
                    PublishSwipe
    <2>2. CASE Step(b, "insert") \/ Step(b, "insert_photo")
        BY <2>1, <2>2, <1>3 DEF Step, Recomputing
    <2>3. CASE End(b)
        BY <2>1, <2>3, <1>2 DEF End, Recomputing
    <2> QED BY <2>1, <2>2, <2>3
<1>5. CASE b \in BotTasks /\ GetData(b)
    <2>1. job[b].pc = "get_data" /\ UNCHANGED <<swipes, behind>>
        BY <1>5 DEF GetData
    <2>2. PICK f : \/ job' = [job EXCEPT ![b].pc = "clear", ![b].fill = f]
                   \/ job' = [job EXCEPT ![b].pc = "clear"]
        BY <1>5 DEF GetData, Step
    <2>3. PICK q : /\ q = [job[b] EXCEPT !.pc = "clear", !.fill = f]
                      \/ q = [job[b] EXCEPT !.pc = "clear"]
                   /\ job' = [job EXCEPT ![b] = q]
        BY <1>1, <2>2
    <2>4. q.pc = "clear"
        BY <1>1, <2>3 DEF JobState
    <2> QED BY <2>1, <2>3, <2>4 DEF Recomputing
<1>6. CASE b \in BotTasks /\ \E u \in People, v \in People : Swipe(b, u, v)
    <2>1. PICK u \in People, v \in People : Swipe(b, u, v)
        BY <1>6
    <2>2. PICK action \in {"like", "skip"} :
              Update(b, [NoJob EXCEPT !.pc = "write_like", !.from = u, !.to = v,
                                      !.action = action])
        BY <2>1 DEF Swipe
    <2>3. PICK q : /\ q = [NoJob EXCEPT !.pc = "write_like", !.from = u, !.to = v,
                                        !.action = action]
                   /\ Update(b, q)
        BY <2>2
    <2>4. q.pc = "write_like"
        BY <2>3 DEF NoJob
    <2> QED BY <2>1, <2>3, <2>4 DEF Swipe, Update, Recomputing
<1>7. CASE b \in BotTasks /\ \E u \in Applicants : Confirm(b, u) \/ PressDelete(b, u)
    <2>1. PICK u \in Applicants : Confirm(b, u) \/ PressDelete(b, u)
        BY <1>7
    <2>2. PICK q : Update(b, q) /\ \/ q = [NoJob EXCEPT !.pc = "get_data", !.from = u]
                                   \/ q = [NoJob EXCEPT !.pc = "delete", !.from = u,
                                                        !.fill = profile[u]]
        BY <2>1 DEF Confirm, PressDelete
    <2>3. q.pc # "save"
        BY <2>2 DEF NoJob
    <2> QED BY <2>1, <2>2, <2>3 DEF Confirm, PressDelete, Update, Recomputing
<1>8. CASE b \in Consumers /\ TakeEvent(b)
    <2>1. job[b].pc = "idle" /\ UNCHANGED <<swipes, behind>>
        BY <1>8 DEF TakeEvent
    <2>2. PICK u, v : job' = [job EXCEPT ![b] = Recompute(u, v, u)]
        BY <1>8 DEF TakeEvent
    <2> QED BY <2>1, <2>2, <1>2 DEF Recomputing
<1> QED BY <1>4, <1>5, <1>6, <1>7, <1>8

(* So every row still counts its likes or will.                             *)
LEMMA QuietSettles ==
    ASSUME TableInv, Settling, NEW b \in Jobs,
           \/ b \in BotTasks /\ \/ GetData(b) \/ ClearForm(b) \/ InsertProfile(b)
                                \/ InsertRefused(b) \/ InsertPhoto(b) \/ DeleteProfile(b)
                                \/ PublishSwipe(b)
           \/ b \in BotTasks /\ \E u \in People, v \in People : Swipe(b, u, v)
           \/ b \in BotTasks /\ \E u \in Applicants : Confirm(b, u) \/ PressDelete(b, u)
           \/ b \in Consumers /\ TakeEvent(b)
    PROVE  Settling'
<1>1. job[b].pc \notin Recomputing /\ UNCHANGED <<swipes, behind>>
    BY QuietMove
<1>2. PICK q : q.pc # "save" /\ job' = [job EXCEPT ![b] = q]
    BY QuietMove
<1>3. \A u \in People : Due(job[b], u) => Due(q, u)
    BY <1>1, NotDue
<1>4. \A u \in People : rating'[u].behavioral = rating[u].behavioral
    <2>1. CASE UNCHANGED rating
        BY <2>1
    <2>2. CASE b \in BotTasks /\ InsertProfile(b)
        <3>1. job[b].from \in People
            <4>1. JobOK(job[b])
                BY AtWork
            <4> QED BY <4>1, <2>2 DEF InsertProfile, JobOK
        <3>2. /\ rating' = [rating EXCEPT ![job[b].from] = FreshRow]
              /\ rating[job[b].from] = NoRow
            BY <2>2, <3>1 DEF InsertProfile, TableInv, Rated
        <3>3. rating \in [People -> RatingRow]
            BY DEF TableInv, RatingTypeOK
        <3>4. FreshRow.behavioral = NoRow.behavioral
            BY DEF FreshRow, NoRow
        <3> QED BY <3>1, <3>2, <3>3, <3>4
    <2> QED BY <2>1, <2>2 DEF GetData, ClearForm, InsertRefused, InsertPhoto, DeleteProfile,
                              PublishSwipe, Swipe, Confirm, PressDelete, TakeEvent
<1> QED BY <1>1, <1>2, <1>3, <1>4, OneSettles

(* Nor does the form matter, or stuttering.                                 *)
LEMMA FormSettles ==
    ASSUME Settling, UNCHANGED <<rating, swipes, job, behind>>
    PROVE  Settling'
BY SettlesOn

(* Loading: the count is still to come.                                     *)
LEMMA LoadSettles == ASSUME TableInv, Settling, NEW j \in Jobs, LoadRow(j) PROVE Settling'
<1>1. job[j] \in JobState /\ job[j].pc = "load"
    BY AtWork DEF LoadRow
<1>2. PICK q : /\ q = [job[j] EXCEPT !.pc = "count", !.row = rating[job[j].of],
                                    !.clean = TRUE, !.primary = PrimaryOf(profile[job[j].of])]
               /\ job' = [job EXCEPT ![j] = q]
    BY DEF LoadRow
<1>3. /\ q.pc = "count" /\ q.from = job[j].from /\ q.to = job[j].to /\ q.of = job[j].of
    BY <1>1, <1>2 DEF JobState
<1>4. \A u \in People : Due(job[j], u) => Due(q, u)
    BY <1>1, <1>3 DEF Due, Recomputing
<1> QED BY <1>2, <1>3, <1>4, OneSettles DEF LoadRow

(* Counting: the likes as they are.                                         *)
LEMMA CountSettles == ASSUME TableInv, Settling, NEW j \in Jobs, CountLikes(j) PROVE Settling'
<1>1. job[j] \in JobState /\ job[j].pc = "count"
    BY AtWork DEF CountLikes
<1>2. PICK n : n = LikesTo(job[j].of)
    OBVIOUS
<1>3. PICK q : /\ q = [job[j] EXCEPT !.pc = "save", !.count = n]
               /\ job' = [job EXCEPT ![j] = q]
    BY <1>2 DEF CountLikes
<1>4. /\ q.pc = "save" /\ q.from = job[j].from /\ q.to = job[j].to /\ q.of = job[j].of
      /\ q.count = n
    BY <1>1, <1>3 DEF JobState
<1>5. \A u \in People : q.of = u => q.count = LikesTo(u)
    BY <1>2, <1>4
<1>6. \A u \in People : Due(job[j], u) => Due(q, u)
    BY <1>1, <1>4, <1>5 DEF Due, Recomputing
<1>7. UNCHANGED <<swipes, behind, rating>>
    BY DEF CountLikes
<1> QED BY <1>3, <1>5, <1>6, <1>7, OneSettles

(* A like written: the one who wrote it is due for both.                    *)
LEMMA WriteSettles == ASSUME TableInv, Settling, NEW b \in BotTasks, WriteSwipe(b) PROVE Settling'
<1>1. b \in Jobs /\ job[b] \in JobState /\ JobOK(job[b]) /\ job[b].pc = "write_like"
    BY BotIsJob, AtWork DEF WriteSwipe
<1>2. PICK x \in People, v \in People, action \in {"like", "skip"} :
          x = job[b].from /\ v = job[b].to /\ action = job[b].action
    BY <1>1 DEF JobOK
<1>3. /\ swipes' = [swipes EXCEPT ![<<x, v>>] = action] /\ UNCHANGED <<rating, behind>>
      /\ swipes \in [People \X People -> {"none", "like", "skip"}]
    BY <1>2 DEF WriteSwipe, TableInv, RatingTypeOK
<1>4. \A u : ~Due(job[b], u)
    BY <1>1, NotDue DEF Recomputing
<1>5. CASE swipes[<<x, v>>] = action
    <2>1. swipes' = swipes
        BY <1>3, <1>5
    <2>2. job' = [job EXCEPT ![b] = NoJob]
        BY <1>2, <1>5 DEF WriteSwipe, End
    <2>3. NoJob.pc # "save"
        BY DEF NoJob
    <2> QED BY <1>1, <1>3, <1>4, <2>1, <2>2, <2>3, OneSettles
<1>6. CASE swipes[<<x, v>>] # action
    <2>1. PICK q : q = Recompute(x, v, x) /\ job' = [job EXCEPT ![b] = q]
        BY <1>2, <1>6 DEF WriteSwipe
    <2>2. q.pc = "load" /\ q.from = x /\ q.to = v /\ q.of = x
        BY <2>1, NewRecompute
    <2>3. job'[b] = q /\ \A k \in Jobs : k # b => job'[k] = job[k]
        BY <1>1, <2>1, AtWork
    <2>4. ASSUME NEW js, b \in js PROVE Awaits(v, js)'
        <3>1. Due(q, v)'
            BY <2>2 DEF Due, Recomputing
        <3>2. Due(job[b], v)'
            BY <2>3, <3>1 DEF Due
        <3> QED BY <2>4, <3>2 DEF Awaits
    <2>5. ASSUME NEW u \in People, u # v PROVE LikesTo(u)' = LikesTo(u)
        <3>1. \A w \in People : swipes'[<<w, u>>] = swipes[<<w, u>>]
            BY <1>3, <2>5
        <3>2. {w \in People : swipes'[<<w, u>>] = "like"}
                  = {w \in People : swipes[<<w, u>>] = "like"}
            BY <3>1
        <3> QED BY <3>2 DEF LikesTo
    <2>6. ASSUME NEW u \in People, u # v, NEW js, Awaits(u, js) PROVE Awaits(u, js)'
        <3>1. PICK k \in BotTasks \cap js : Due(job[k], u)
            BY <2>6 DEF Awaits
        <3>2. k # b /\ job'[k] = job[k]
            BY <3>1, <1>4, <2>3, BotIsJob
        <3>3. Due(job[k], u)'
            BY <3>1, <3>2, <2>5, <2>6 DEF Due
        <3> QED BY <3>1, <3>3 DEF Awaits
    <2>7. ASSUME NEW u \in People \ behind' PROVE Covered(u)'
        <3>1. CASE u = v
            BY <3>1, <1>1, <2>4 DEF Covered
        <3>2. CASE u # v
            <4>1. Covered(u) /\ LikesTo(u)' = LikesTo(u)
                BY <2>5, <2>7, <3>2, <1>3 DEF Settling
            <4> QED BY <4>1, <2>6, <2>7, <3>2, <1>3 DEF Covered
        <3> QED BY <3>1, <3>2
    <2>8. ASSUME NEW j \in Jobs, NEW u \in People,
                 job'[j].pc = "save" /\ job'[j].clean /\ job'[j].of = u
          PROVE  job'[j].count = LikesTo(u)' \/ Awaits(u, Jobs \ {j})'
        <3>1. j # b /\ job'[j] = job[j]
            BY <2>2, <2>3, <2>8
        <3>2. CASE u = v
            BY <3>1, <3>2, <1>1, <2>4
        <3>3. CASE u # v
            <4>1. job[j].count = LikesTo(u) \/ Awaits(u, Jobs \ {j})
                BY <2>8, <3>1 DEF Settling, Followed
            <4>2. LikesTo(u)' = LikesTo(u)
                BY <2>5, <3>3
            <4> QED BY <4>1, <4>2, <2>6, <3>1, <3>3
        <3> QED BY <3>2, <3>3
    <2>9. ASSUME NEW j \in Jobs PROVE Followed(j)'
        BY <2>8 DEF Followed
    <2> QED BY <2>7, <2>9 DEF Settling
<1> QED BY <1>5, <1>6

(* A save: whoever was due still is, but for the row saved; and that one    *)
(* counts what was to be counted, or is left to another.                    *)
LEMMA SaveSettles == ASSUME TableInv, Settling, NEW j \in Jobs, SaveRow(j) PROVE Settling'
<1>1. job[j] \in JobState /\ job[j].pc = "save" /\ job[j].pc \in Recomputing /\ JobOK(job[j])
    BY AtWork DEF SaveRow, Recomputing
<1>2. PICK x \in People : x = job[j].of
    BY <1>1, AtRecompute
<1>3. /\ \A u \in People : u # x => rating'[u] = rating[u]
      /\ job[j].clean => rating'[x].behavioral = job[j].count
    BY <1>2, SavedRow
<1>4. UNCHANGED swipes /\ behind' = IF job[j].clean THEN behind \ {x} ELSE behind \cup {x}
    BY <1>2 DEF SaveRow
<1>5. job'[j] = AfterSave(j) /\ AfterSave(j).pc # "save"
    BY AfterOvertaken, AfterSaveOK, <1>1
<1>6. ASSUME NEW k \in Jobs, k # j
      PROVE  /\ job'[k].pc = job[k].pc /\ job'[k].of = job[k].of /\ job'[k].from = job[k].from
             /\ job'[k].to = job[k].to /\ job'[k].count = job[k].count
             /\ job'[k].pc = "save" /\ job'[k].clean => job[k].clean /\ job[k].of # x
    <2>1. job[k] \in JobState
        BY AtWork
    <2>2. CASE job'[k] = job[k] /\ ~(job[k].of = x /\ job[k].pc \in {"count", "save"})
        BY <2>2
    <2>3. CASE job'[k] = [job[k] EXCEPT !.clean = FALSE]
        BY <2>1, <2>3, UncleanJob
    <2> QED BY <1>2, <1>6, <2>2, <2>3, AfterOvertaken
<1>7. ASSUME NEW k \in Jobs, k # j, NEW u, Due(job[k], u) PROVE Due(job'[k], u)
    BY <1>6, <1>7 DEF Due
<1>8. ASSUME NEW u \in People, u # x, Due(job[j], u) PROVE Due(job'[j], u)
    <2>1. job[j].of = job[j].from /\ job[j].to = u
        BY <1>1, <1>2, <1>8 DEF Due
    <2>2. job'[j] = Recompute(job[j].from, u, u)
        BY <2>1, <1>5 DEF AfterSave
    <2>3. Recompute(job[j].from, u, u).pc = "load" /\ Recompute(job[j].from, u, u).of = u
        BY DEF Recompute, NoJob
    <2> QED BY <2>2, <2>3 DEF Due
<1>9. ASSUME NEW u \in People, u # x, NEW k \in Jobs, Due(job[k], u) PROVE Due(job'[k], u)
    BY <1>7, <1>8, <1>9
<1>10. ASSUME NEW u \in People \ behind' PROVE Covered(u)'
    <2>1. CASE u = x
        <3>1. job[j].clean /\ rating'[u].behavioral = job[j].count
            BY <1>3, <1>4, <1>10, <2>1
        <3>2. job[j].count = LikesTo(u) \/ Awaits(u, Jobs \ {j})
            BY <1>1, <1>2, <2>1, <3>1 DEF Settling, Followed
        <3>3. CASE job[j].count = LikesTo(u)
            BY <3>1, <3>3, <1>4, SameLikes DEF Covered
        <3>4. CASE Awaits(u, Jobs \ {j})
            <4>1. PICK k \in BotTasks \cap (Jobs \ {j}) : Due(job[k], u)
                BY <3>4 DEF Awaits
            <4>2. \A b \in BotTasks \cap (Jobs \ {j}) : Due(job[b], u) => Due(job'[b], u)
                BY <1>7
            <4>3. Awaits(u, Jobs \ {j})'
                BY <3>4, <4>2, <1>4, StillAwaits
            <4>4. Awaits(u, Jobs)'
                BY <4>3 DEF Awaits
            <4> QED BY <4>4 DEF Covered
        <3> QED BY <3>2, <3>3, <3>4
    <2>2. CASE u # x
        <3>1. Covered(u) /\ rating'[u] = rating[u]
            BY <1>3, <1>4, <1>10, <2>2 DEF Settling
        <3>2. CASE rating[u].behavioral = LikesTo(u)
            BY <3>1, <3>2, <1>4, SameLikes DEF Covered
        <3>3. CASE Awaits(u, Jobs)
            <4>1. \A b \in BotTasks \cap Jobs : Due(job[b], u) => Due(job'[b], u)
                BY <1>9, <2>2
            <4>2. Awaits(u, Jobs)'
                BY <3>3, <4>1, <1>4, StillAwaits
            <4> QED BY <4>2 DEF Covered
        <3> QED BY <3>1, <3>2, <3>3 DEF Covered
    <2> QED BY <2>1, <2>2
<1>11. ASSUME NEW k \in Jobs, NEW u \in People,
              job'[k].pc = "save" /\ job'[k].clean /\ job'[k].of = u
       PROVE  job'[k].count = LikesTo(u)' \/ Awaits(u, Jobs \ {k})'
    <2>1. k # j
        BY <1>5, <1>11
    <2>2. /\ job[k].pc = "save" /\ job[k].clean /\ job[k].of = u /\ u # x
          /\ job'[k].count = job[k].count
        BY <1>6, <1>11, <2>1
    <2>3. job[k].count = LikesTo(u) \/ Awaits(u, Jobs \ {k})
        BY <2>2 DEF Settling, Followed
    <2>4. CASE job[k].count = LikesTo(u)
        BY <2>2, <2>4, <1>4, SameLikes
    <2>5. CASE Awaits(u, Jobs \ {k})
        <3>1. \A b \in BotTasks \cap (Jobs \ {k}) : Due(job[b], u) => Due(job'[b], u)
            BY <1>9, <2>2
        <3> QED BY <2>5, <3>1, <1>4, StillAwaits
    <2> QED BY <2>3, <2>4, <2>5
<1>12. ASSUME NEW k \in Jobs PROVE Followed(k)'
    BY <1>11 DEF Followed
<1> QED BY <1>10, <1>12 DEF Settling

(* Who stops while due leaves behind what it owes.                          *)
LEMMA DropSettles ==
    ASSUME TableInv, Settling, NEW js, Drop(js), UNCHANGED <<rating, swipes>>,
           behind' = behind \cup UNION {Owes(j) : j \in js \cap BotTasks}
    PROVE  Settling'
<1> DEFINE lost == UNION {Owes(j) : j \in js \cap BotTasks}
<1>1. ASSUME NEW b \in BotTasks, b \in js, NEW u, Due(job[b], u) PROVE u \in lost
    <2>1. u \in Owes(b)
        BY <1>1 DEF Due, Owes, Recomputing
    <2> QED BY <1>1, <2>1
<1>2. ASSUME NEW k \in Jobs
      PROVE  /\ k \in js => job'[k] = NoJob
             /\ k \notin js =>
                    /\ job'[k].pc = job[k].pc /\ job'[k].of = job[k].of
                    /\ job'[k].from = job[k].from /\ job'[k].to = job[k].to
                    /\ job'[k].count = job[k].count
                    /\ job'[k].clean => job[k].clean /\ job[k].of \notin lost
    <2>1. job[k] \in JobState
        BY AtWork
    <2>2. k \in js => job'[k] = NoJob
        BY AfterDrop
    <2>3. ASSUME k \notin js, job[k].of \in lost
          PROVE  /\ job'[k].pc = job[k].pc /\ job'[k].of = job[k].of
                 /\ job'[k].from = job[k].from /\ job'[k].to = job[k].to
                 /\ job'[k].count = job[k].count /\ ~job'[k].clean
        <3>1. job'[k] = [job[k] EXCEPT !.clean = FALSE]
            BY <2>3, AfterDrop
        <3> QED BY <2>1, <3>1, UncleanJob
    <2>4. k \notin js /\ job[k].of \notin lost => job'[k] = job[k]
        BY AfterDrop
    <2> QED BY <2>2, <2>3, <2>4
<1> HIDE DEF lost
<1>3. ASSUME NEW b \in BotTasks, NEW u, u \notin lost, Due(job[b], u) PROVE Due(job'[b], u)
    <2>1. b \notin js /\ b \in Jobs
        BY <1>1, <1>3, BotIsJob
    <2> QED BY <1>2, <1>3, <2>1 DEF Due
<1>4. \A u \in People \ behind' :
          /\ u \notin behind /\ u \notin lost /\ rating'[u].behavioral = rating[u].behavioral
    BY DEF lost
<1>5. NoJob.pc # "save"
    BY DEF NoJob
<1>6. \A j \in Jobs : \A u \in People :
          job'[j].pc = "save" /\ job'[j].clean /\ job'[j].of = u =>
              /\ job[j].pc = "save" /\ job[j].clean /\ job[j].of = u
              /\ job'[j].count = job[j].count /\ u \notin lost
    BY <1>2, <1>5
<1> QED BY <1>3, <1>4, <1>6, SettlesOn

(* All failures.                                                            *)
LEMMA FailureSettles ==
    ASSUME TableInv, Settling,
           (\E j \in Jobs : HandlerRaises(j)) \/ BotRestarts \/ ConsumerRestarts
    PROVE  Settling'
<1>1. ASSUME NEW j \in Jobs, HandlerRaises(j) PROVE Settling'
    <2>1. behind' = behind \cup UNION {Owes(i) : i \in {j} \cap BotTasks}
        BY <1>1 DEF HandlerRaises
    <2> QED BY <1>1, <2>1, DropSettles DEF HandlerRaises
<1>2. CASE BotRestarts
    <2>1. behind' = behind \cup UNION {Owes(i) : i \in BotTasks \cap BotTasks}
        BY <1>2 DEF BotRestarts
    <2> QED BY <1>2, <2>1, DropSettles DEF BotRestarts
<1>3. CASE ConsumerRestarts
    <2>1. behind' = behind \cup UNION {Owes(i) : i \in Consumers \cap BotTasks}
        BY <1>3, RatingAssumption DEF ConsumerRestarts, RatingAssumption
    <2> QED BY <1>3, <2>1, DropSettles DEF ConsumerRestarts
<1> QED BY <1>1, <1>2, <1>3

(* At first there are no likes, and all rows count none.                    *)
LEMMA SettlingInit == RatingInit => Settling
<1> SUFFICES ASSUME RatingInit PROVE Settling
    OBVIOUS
<1>1. ASSUME NEW u \in People PROVE LikesTo(u) = 0 /\ rating[u].behavioral = 0
    <2>1. {v \in People : swipes[<<v, u>>] = "like"} = {}
        BY <1>1 DEF RatingInit
    <2>2. LikesTo(u) = 0
        BY <2>1, FS_EmptySet DEF LikesTo
    <2> QED BY <1>1, <2>2 DEF RatingInit, NoRow
<1>2. \A j \in Jobs : job[j].pc # "save"
    BY DEF RatingInit, NoJob
<1> QED BY <1>1, <1>2 DEF Settling, Covered, Followed

(* Every step keeps Settling.                                               *)
LEMMA SettlingStep == RatingInv /\ [RatingNext]_ratingVars => Settling'
<1> SUFFICES ASSUME TableInv, Settling, [RatingNext]_ratingVars PROVE Settling'
    BY DEF RatingInv
<1>1. ASSUME NEW u \in Applicants, ShowProfile(u) \/ StartForm(u) \/ FillForm(u)
      PROVE  Settling'
    BY <1>1, FormSettles DEF ShowProfile, StartForm, FillForm
<1>2. ASSUME NEW u \in Applicants, NEW b \in BotTasks, Confirm(b, u) \/ PressDelete(b, u)
      PROVE  Settling'
    BY <1>2, QuietSettles, BotIsJob
<1>3. ASSUME NEW b \in BotTasks, NEW u \in People, NEW v \in People, Swipe(b, u, v)
      PROVE  Settling'
    BY <1>3, QuietSettles, BotIsJob
<1>4. ASSUME NEW b \in BotTasks,
             \/ GetData(b) \/ ClearForm(b) \/ InsertProfile(b) \/ InsertRefused(b)
             \/ InsertPhoto(b) \/ DeleteProfile(b) \/ WriteSwipe(b) \/ PublishSwipe(b)
      PROVE  Settling'
    BY <1>4, QuietSettles, WriteSettles, BotIsJob
<1>5. ASSUME NEW c \in Consumers, TakeEvent(c) PROVE Settling'
    BY <1>5, QuietSettles, BotIsJob
<1>6. ASSUME NEW j \in Jobs, LoadRow(j) \/ CountLikes(j) \/ SaveRow(j) \/ HandlerRaises(j)
      PROVE  Settling'
    BY <1>6, LoadSettles, CountSettles, SaveSettles, FailureSettles
<1>7. CASE UNCHANGED ratingVars
    BY <1>7, FormSettles DEF ratingVars
<1> QED BY <1>1, <1>2, <1>3, <1>4, <1>5, <1>6, <1>7, FailureSettles DEF RatingNext

(* RatingSettles, with any number of people, coroutines and failures.       *)
THEOREM RatingSettlesCorrect == RatingSpec => []RatingSettles
<1>1. RatingInit => RatingInv
    BY TableInit, SettlingInit DEF RatingInv
<1>2. RatingInv /\ [RatingNext]_ratingVars => RatingInv'
    BY TableStep, SettlingStep DEF RatingInv
<1>3. RatingInv => RatingSettles
    <2> SUFFICES ASSUME RatingInv, NEW u \in People \ behind,
                        \A b \in BotTasks : job[b].pc = "idle"
                 PROVE  rating[u].behavioral = LikesTo(u)
        BY DEF RatingSettles
    <2>1. \A b \in BotTasks : ~Due(job[b], u)
        BY NotDue DEF Recomputing
    <2>2. Covered(u) /\ ~Awaits(u, Jobs)
        BY <2>1 DEF RatingInv, Settling, Awaits
    <2> QED BY <2>2 DEF Covered
<1> QED BY <1>1, <1>2, <1>3, PTL DEF RatingSpec
=============================================================================
