--------------------------- MODULE ProfileRating ---------------------------
(***************************************************************************)
(* Profiles and ratings of the dating bot.  A profile comes from a form in *)
(* the chat, with a row in ratings; every swipe recomputes the rows of     *)
(* both users in the bot and, through a queue, once more in                *)
(* workers/rating_consumer.py.  The updates of the bot and the events of   *)
(* the consumer are handled side by side; a step is one session call.      *)
(*                                                                         *)
(* Scores are kept as what they are computed from: the profile's fill, the *)
(* number of incoming likes, and the pair of both.  Matches, bios and the  *)
(* bonus for subscribers, which move the scores the same way, are left     *)
(* out; the races for a likes row are those of SwipeMatch.                 *)
(***************************************************************************)
EXTENDS Naturals, FiniteSets, SequencesExt

CONSTANTS
    People,
    Nobody,
    Seeded,         \* people whose profile the seed script created
    Applicants,     \* bound: who fills in the form and deletes a profile
    BotTasks,       \* coroutines handling updates
    Consumers,      \* coroutines handling events, prefetch_count of them
    MaxUpdates,     \* bound on the updates of the bot; the form stands still
                    \* after the last one
    RatingFaults    \* bound on exceptions and restarts

ASSUME RatingAssumption ==
    /\ Nobody \notin People /\ Seeded \subseteq People /\ Applicants \subseteq People
    /\ BotTasks \cap Consumers = {}
    /\ IsFiniteSet(People) /\ IsFiniteSet(Consumers)
    /\ MaxUpdates \in Nat /\ RatingFaults \in Nat

VARIABLES
    profile,        \* each user's row in profiles, with its photo
    rating,         \* each user's row in ratings
    swipes,         \* likes.action of the row from one user to another
    form,           \* state of the conversation that creates a profile
    events,         \* the queue dating.rating
    job,            \* what each coroutine is doing
    updates,        \* number of updates so far
    behind,         \* users whose row an overlap or a failure left behind
    denied,         \* users whose form was refused while they had no profile
    ratingFaults

chatVars == <<profile, form, denied>>
ratingVars == <<chatVars, rating, swipes, events, job, updates, behind, ratingFaults>>

Jobs == BotTasks \cup Consumers

Filled == {"none", "plain", "photo"}

NoRow == [exists |-> FALSE, primary |-> 0, behavioral |-> 0, combined |-> <<0, 0>>]

NoJob == [pc |-> "idle", from |-> Nobody, to |-> Nobody, action |-> "none", of |-> Nobody,
          row |-> NoRow, primary |-> 0, count |-> 0, clean |-> TRUE, fill |-> "none"]

RatingRow == [exists : BOOLEAN, primary : 0..2, behavioral : 0..Cardinality(People),
              combined : (0..2) \X (0..Cardinality(People))]

JobState ==
    [pc : {"idle", "get_data", "clear", "insert", "insert_photo", "delete", "write_like",
           "load", "count", "save", "publish"},
     from : People \cup {Nobody}, to : People \cup {Nobody}, action : {"none", "like", "skip"},
     of : People \cup {Nobody}, row : RatingRow, primary : 0..2, count : 0..Cardinality(People),
     clean : BOOLEAN, fill : Filled]

(* The type of the state; who has a profile has a rating.                   *)
RatingTypeOK ==
    /\ profile \in [People -> Filled]
    /\ rating \in [People -> RatingRow]
    /\ \A u \in People : profile[u] # "none" => rating[u].exists
    /\ swipes \in [People \X People -> {"none", "like", "skip"}]
    /\ form \in [People -> Filled \cup {"filling"}]
    /\ events \in Seq(People \X People)
    /\ job \in [Jobs -> JobState]
    /\ updates \in 0..MaxUpdates /\ ratingFaults \in 0..RatingFaults
    /\ behind \subseteq People /\ denied \subseteq People

(* primary_from_profile, as far as a profile can differ here.               *)
PrimaryOf(fill) == CASE fill = "none" -> 0 [] fill = "plain" -> 1 [] fill = "photo" -> 2

(* The seed script recomputes what it has created.                          *)
RatingInit ==
    /\ profile = [u \in People |-> IF u \in Seeded THEN "plain" ELSE "none"]
    /\ rating = [u \in People |->
                    IF u \in Seeded
                    THEN [exists |-> TRUE, primary |-> PrimaryOf("plain"), behavioral |-> 0,
                          combined |-> <<PrimaryOf("plain"), 0>>]
                    ELSE NoRow]
    /\ swipes = [e \in People \X People |-> "none"]
    /\ form = [u \in People |-> "none"]
    /\ events = <<>>
    /\ job = [j \in Jobs |-> NoJob]
    /\ updates = 0
    /\ behind = {}
    /\ denied = {}
    /\ ratingFaults = 0

Step(j, pc) == job' = [job EXCEPT ![j].pc = pc]
End(j) == job' = [job EXCEPT ![j] = NoJob]

(* A coroutine takes an update.                                             *)
Update(b, task) ==
    /\ job[b].pc = "idle"
    /\ updates < MaxUpdates
    /\ updates' = updates + 1
    /\ job' = [job EXCEPT ![b] = task]

-----------------------------------------------------------------------------
(* The form.                                                                *)

(* my_profile clears the conversation, whatever it was about.               *)
ShowProfile(u) ==
    /\ updates < MaxUpdates
    /\ form' = [form EXCEPT ![u] = "none"]
    /\ UNCHANGED <<profile, denied, rating, swipes, events, job, updates, behind, ratingFaults>>

(* The buttons "create" and "restart"; old ones stay in the chat.           *)
StartForm(u) ==
    /\ updates < MaxUpdates
    /\ form' = [form EXCEPT ![u] = "filling"]
    /\ UNCHANGED <<profile, denied, rating, swipes, events, job, updates, behind, ratingFaults>>

(* From gender to photo, which may be skipped or fail to be stored.         *)
FillForm(u) ==
    /\ form[u] = "filling"
    /\ updates < MaxUpdates
    /\ \E f \in {"plain", "photo"} : form' = [form EXCEPT ![u] = f]
    /\ UNCHANGED <<profile, denied, rating, swipes, events, job, updates, behind, ratingFaults>>

(* The filter ProfileCreate.confirm lets the update through.                *)
Confirm(b, u) ==
    /\ form[u] \in {"plain", "photo"}
    /\ Update(b, [NoJob EXCEPT !.pc = "get_data", !.from = u])
    /\ UNCHANGED <<chatVars, rating, swipes, events, behind, ratingFaults>>

(* state.get_data(); what another tap has cleared is a KeyError further on. *)
GetData(b) ==
    LET u == job[b].from IN
    /\ job[b].pc = "get_data"
    /\ IF form[u] \in {"plain", "photo"}
       THEN job' = [job EXCEPT ![b].pc = "clear", ![b].fill = form[u]]
       ELSE Step(b, "clear")
    /\ UNCHANGED <<chatVars, rating, swipes, events, updates, behind, ratingFaults>>

ClearForm(b) ==
    /\ job[b].pc = "clear"
    /\ form' = [form EXCEPT ![job[b].from] = "none"]
    /\ IF job[b].fill = "none" THEN End(b) ELSE Step(b, "insert")
    /\ UNCHANGED <<profile, denied, rating, swipes, events, updates, behind, ratingFaults>>

(* Mutant: the row in ratings is not inserted.                              *)
MutantFreshRow == NoRow

(* Rating(user_id=user_id), with the defaults of the columns.               *)
FreshRow == [NoRow EXCEPT !.exists = TRUE]

(* create_profile inserts both rows in one transaction.                     *)
InsertProfile(b) ==
    LET u == job[b].from IN
    /\ job[b].pc = "insert"
    /\ profile[u] = "none" /\ ~rating[u].exists
    /\ profile' = [profile EXCEPT ![u] = "plain"]
    /\ rating' = [rating EXCEPT ![u] = FreshRow]
    /\ IF job[b].fill = "photo" THEN Step(b, "insert_photo") ELSE End(b)
    /\ UNCHANGED <<form, denied, swipes, events, updates, behind, ratingFaults>>

(* IntegrityError: user_id is unique in profiles, and in ratings, whose row *)
(* outlives a deleted profile.                                              *)
InsertRefused(b) ==
    LET u == job[b].from IN
    /\ job[b].pc = "insert"
    /\ profile[u] # "none" \/ rating[u].exists
    /\ denied' = IF profile[u] = "none" THEN denied \cup {u} ELSE denied
    /\ End(b)
    /\ UNCHANGED <<profile, form, rating, swipes, events, updates, behind, ratingFaults>>

(* The second commit; without the profile the foreign key fails it.         *)
InsertPhoto(b) ==
    LET u == job[b].from IN
    /\ job[b].pc = "insert_photo"
    /\ profile' = [profile EXCEPT ![u] = IF @ = "none" THEN "none" ELSE "photo"]
    /\ End(b)
    /\ UNCHANGED <<form, denied, rating, swipes, events, updates, behind, ratingFaults>>

(* delete_profile_handler finds the profile with its photos ...             *)
PressDelete(b, u) ==
    /\ profile[u] # "none"
    /\ Update(b, [NoJob EXCEPT !.pc = "delete", !.from = u, !.fill = profile[u]])
    /\ UNCHANGED <<chatVars, rating, swipes, events, behind, ratingFaults>>

(* ... and deletes it.  A photo that was found has its profile_id set to    *)
(* NULL, which its column refuses.  The row in ratings stays.               *)
DeleteProfile(b) ==
    LET u == job[b].from IN
    /\ job[b].pc = "delete"
    /\ profile' = [profile EXCEPT ![u] = IF job[b].fill = "photo" THEN @ ELSE "none"]
    /\ End(b)
    /\ UNCHANGED <<form, denied, rating, swipes, events, updates, behind, ratingFaults>>

-----------------------------------------------------------------------------
(* apply_like_or_skip.                                                      *)

(* Swipes are between people who have, or had when a card was sent, a       *)
(* profile.                                                                 *)
Swipe(b, u, v) ==
    /\ u # v /\ rating[u].exists /\ rating[v].exists
    /\ \E action \in {"like", "skip"} :
        Update(b, [NoJob EXCEPT !.pc = "write_like", !.from = u, !.to = v, !.action = action])
    /\ UNCHANGED <<chatVars, rating, swipes, events, behind, ratingFaults>>

(* About to recompute the rating of u, one of the two of a swipe.           *)
Recompute(from, to, u) == [NoJob EXCEPT !.pc = "load", !.from = from, !.to = to, !.of = u]

(* The same action twice ends the tap; else the row is written.             *)
WriteSwipe(b) ==
    LET edge == <<job[b].from, job[b].to>> IN
    /\ job[b].pc = "write_like"
    /\ swipes' = [swipes EXCEPT ![edge] = job[b].action]
    /\ IF swipes[edge] = job[b].action
       THEN End(b)
       ELSE job' = [job EXCEPT ![b] = Recompute(job[b].from, job[b].to, job[b].from)]
    /\ UNCHANGED <<chatVars, rating, events, updates, behind, ratingFaults>>

(* publish_swipe_event; without a connection the event is skipped.          *)
PublishSwipe(b) ==
    /\ job[b].pc = "publish"
    /\ events' \in {events, Append(events, <<job[b].from, job[b].to>>)}
    /\ End(b)
    /\ UNCHANGED <<chatVars, rating, swipes, updates, behind, ratingFaults>>

(* on_swipe_event: a free coroutine of the consumer gets the next event.    *)
TakeEvent(c) ==
    /\ job[c].pc = "idle"
    /\ events # <<>>
    /\ LET e == Head(events) IN
       job' = [job EXCEPT ![c] = Recompute(e[1], e[2], e[1])]
    /\ events' = Tail(events)
    /\ UNCHANGED <<chatVars, rating, swipes, updates, behind, ratingFaults>>

-----------------------------------------------------------------------------
(* recompute_rating_for_user, for the user job[j].of.                       *)

(* The row in ratings, and the profile.                                     *)
LoadRow(j) ==
    LET u == job[j].of IN
    /\ job[j].pc = "load"
    /\ job' = [job EXCEPT ![j].pc = "count", ![j].row = rating[u], ![j].clean = TRUE,
                          ![j].primary = PrimaryOf(profile[u])]
    /\ UNCHANGED <<chatVars, rating, swipes, events, updates, behind, ratingFaults>>

(* _incoming_likes_count                                                    *)
LikesTo(u) == Cardinality({v \in People : swipes[<<v, u>>] = "like"})

CountLikes(j) ==
    /\ job[j].pc = "count"
    /\ job' = [job EXCEPT ![j].pc = "save", ![j].count = LikesTo(job[j].of)]
    /\ UNCHANGED <<chatVars, rating, swipes, events, updates, behind, ratingFaults>>

(* Whoever is recomputing u's row now has seen it in an older state.        *)
Overtaken(jobs, u) ==
    [k \in Jobs |-> IF jobs[k].of = u /\ jobs[k].pc \in {"count", "save"}
                    THEN [jobs[k] EXCEPT !.clean = FALSE] ELSE jobs[k]]

(* Mutant: the other user is left out.                                      *)
MutantAfterSave(j) ==
    IF j \in BotTasks THEN [NoJob EXCEPT !.pc = "publish", !.from = job[j].from, !.to = job[j].to]
    ELSE NoJob

(* First the user who swiped, then the other; the consumer is done then,    *)
(* the bot publishes.                                                       *)
AfterSave(j) ==
    IF job[j].of = job[j].from THEN Recompute(job[j].from, job[j].to, job[j].to)
    ELSE IF j \in BotTasks THEN [NoJob EXCEPT !.pc = "publish", !.from = job[j].from,
                                              !.to = job[j].to]
    ELSE NoJob

(* Mutant: the pair is computed from the row that was read.                 *)
MutantComputed(r) ==
    [exists |-> TRUE, primary |-> r.primary, behavioral |-> r.count,
     combined |-> <<r.primary, r.row.behavioral>>]

Computed(r) ==
    [exists |-> TRUE, primary |-> r.primary, behavioral |-> r.count,
     combined |-> <<r.primary, r.count>>]

(* The commit writes the columns whose value differs from what was loaded.  *)
SaveRow(j) ==
    LET u == job[j].of
        new == Computed(job[j])
        Column(c) == IF new[c] # job[j].row[c] THEN new[c] ELSE rating[u][c]
    IN
    /\ job[j].pc = "save"
    /\ rating' = [rating EXCEPT ![u] =
                     [exists |-> TRUE, primary |-> Column("primary"),
                      behavioral |-> Column("behavioral"), combined |-> Column("combined")]]
    /\ behind' = IF job[j].clean THEN behind \ {u} ELSE behind \cup {u}
    /\ job' = Overtaken([job EXCEPT ![j] = AfterSave(j)], u)
    /\ UNCHANGED <<chatVars, swipes, events, updates, ratingFaults>>

-----------------------------------------------------------------------------
(* Failures.                                                                *)

(* Users whose recomputation a coroutine still owes.                        *)
Owes(j) ==
    IF job[j].pc \notin {"load", "count", "save"} THEN {} ELSE {job[j].of, job[j].to}

Drop(js) ==
    job' = [k \in Jobs |->
        CASE k \in js -> NoJob
          [] k \notin js /\ job[k].of \in UNION {Owes(j) : j \in js \cap BotTasks}
                -> [job[k] EXCEPT !.clean = FALSE]
          [] OTHER -> job[k]]

(* An update's exception goes to the error handler; an event whose handling *)
(* failed is rejected for good (requeue=False) - its ratings have been      *)
(* computed once by the bot.                                                *)
HandlerRaises(j) ==
    /\ job[j].pc # "idle"
    /\ ratingFaults < RatingFaults
    /\ ratingFaults' = ratingFaults + 1
    /\ Drop({j})
    /\ behind' = IF j \in BotTasks THEN behind \cup Owes(j) ELSE behind
    /\ UNCHANGED <<chatVars, rating, swipes, events, updates>>

(* The conversations are in Redis and stay.                                 *)
BotRestarts ==
    /\ ratingFaults < RatingFaults
    /\ ratingFaults' = ratingFaults + 1
    /\ Drop(BotTasks)
    /\ behind' = behind \cup UNION {Owes(j) : j \in BotTasks}
    /\ UNCHANGED <<chatVars, rating, swipes, events, updates>>

(* Events that were not acknowledged are delivered again.                   *)
ConsumerRestarts ==
    LET back == SetToSeq({c \in Consumers : job[c].pc # "idle"}) IN
    /\ ratingFaults < RatingFaults
    /\ ratingFaults' = ratingFaults + 1
    /\ Drop(Consumers)
    /\ events' = [n \in DOMAIN back |-> <<job[back[n]].from, job[back[n]].to>>] \o events
    /\ UNCHANGED <<chatVars, rating, swipes, updates, behind>>

-----------------------------------------------------------------------------
RatingNext ==
    \/ \E u \in Applicants :
        \/ ShowProfile(u) \/ StartForm(u) \/ FillForm(u)
        \/ \E b \in BotTasks : Confirm(b, u) \/ PressDelete(b, u)
    \/ \E b \in BotTasks, u \in People, v \in People : Swipe(b, u, v)
    \/ \E b \in BotTasks :
        \/ GetData(b) \/ ClearForm(b) \/ InsertProfile(b) \/ InsertRefused(b) \/ InsertPhoto(b)
        \/ DeleteProfile(b) \/ WriteSwipe(b) \/ PublishSwipe(b)
    \/ \E c \in Consumers : TakeEvent(c)
    \/ \E j \in Jobs : LoadRow(j) \/ CountLikes(j) \/ SaveRow(j) \/ HandlerRaises(j)
    \/ BotRestarts \/ ConsumerRestarts

RatingSpec == RatingInit /\ [][RatingNext]_ratingVars

-----------------------------------------------------------------------------
(* The score the feed sorts by is the one of the other two columns: commits *)
(* that write some columns only, and recomputations for other users, never  *)
(* tear a row apart unless two of them overlap.                             *)
CombinedMatches ==
    \A u \in People \ behind :
        rating[u].combined = <<rating[u].primary, rating[u].behavioral>>

(* When no tap is being handled every like given counts in the rating,      *)
(* whatever the queue holds and the consumer is doing, also after likes     *)
(* taken back, failed or redelivered events and restarts of the consumer;   *)
(* only an overlap of two recomputations, or a tap that failed between its  *)
(* like and the recomputation, leaves a row behind, until the next one.     *)
RatingSettles ==
    \A u \in People \ behind :
        (\A b \in BotTasks : job[b].pc = "idle") => rating[u].behavioral = LikesTo(u)

-----------------------------------------------------------------------------
(* What the code says and does not keep.                                    *)

(* my_profile tells a user without a profile to create one.  A form that is *)
(* filled in and confirmed is not refused to him.                           *)
ConfirmGivesProfile == denied = {}
=============================================================================
