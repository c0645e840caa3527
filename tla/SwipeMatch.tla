----------------------------- MODULE SwipeMatch -----------------------------
(***************************************************************************)
(* Likes, skips and matches in the bot.  aiogram handles every update in a *)
(* task of its own, so two taps, of one user or of two, run side by side;  *)
(* a step of this module is the code between two awaits.  Both ways to a   *)
(* swipe are here: the card of the feed, and the list of users who liked   *)
(* the viewer.  What the recomputed ratings hold is left out.              *)
(***************************************************************************)
EXTENDS Integers, FiniteSets

CONSTANTS
    Users,
    NoUser,
    Subscribers,    \* users whose sub_expires_at lies in the future
    Taps,           \* coroutines handling a tap
    FreeLimit,      \* FREE_SWIPE_LIMIT_24H
    MaxSwipes,      \* bound on the number of taps
    MaxFaults       \* bound on failing steps and restarts

ASSUME SwipeAssumption ==
    /\ NoUser \notin Users
    /\ Subscribers \subseteq Users
    /\ FreeLimit \in Nat /\ MaxSwipes \in Nat /\ MaxFaults \in Nat

VARIABLES
    likes,          \* likes.action of the row from one user to another
    matches,        \* number of rows of a pair in matches
    card,           \* candidate_user_id of each user's conversation
    inbound,        \* cards of likers a user has been shown
    task,           \* what each coroutine is doing
    contacts,       \* pairs that were sent each other's contacts
    liked,          \* every like ever given, also if changed to a skip
    taps,           \* number of taps so far
    faults

tables == <<likes, matches>>
chat == <<card, inbound>>
vars == <<tables, chat, task, contacts, liked, taps, faults>>

Pair(u, v) == {u, v}
Pairs == {Pair(u, v) : u \in Users, v \in Users}

Idle == [pc |-> "idle", from |-> NoUser, to |-> NoUser, action |-> "none",
         feed |-> FALSE, row |-> "none", matched |-> FALSE]

ProgramPoints == {"idle", "limit", "get_like", "write_like", "mutual", "find_match",
                  "insert_match", "rate", "notify", "next_card"}

TaskState ==
    [pc : ProgramPoints, from : Users \cup {NoUser}, to : Users \cup {NoUser},
     action : {"none", "like", "skip"}, feed : BOOLEAN, row : {"none", "like", "skip"},
     matched : BOOLEAN]

(* The type of the state; nobody is shown to himself, so nobody can rate    *)
(* himself or be matched with himself.                                      *)
SwipeTypeOK ==
    /\ likes \in [Users \X Users -> {"none", "like", "skip"}]
    /\ matches \in [Pairs -> Nat]
    /\ card \in [Users -> Users \cup {NoUser}]
    /\ \A u \in Users : card[u] # u /\ likes[<<u, u>>] = "none"
    /\ inbound \subseteq Users \X Users
    /\ task \in [Taps -> TaskState]
    /\ contacts \subseteq Pairs
    /\ liked \subseteq Users \X Users
    /\ taps \in 0..MaxSwipes /\ faults \in 0..MaxFaults

Init ==
    /\ likes = [e \in Users \X Users |-> "none"]
    /\ matches = [pair \in Pairs |-> 0]
    /\ card = [u \in Users |-> NoUser]
    /\ inbound = {}
    /\ task = [t \in Taps |-> Idle]
    /\ contacts = {}
    /\ liked = {}
    /\ taps = 0
    /\ faults = 0

Goto(t, pc) == task' = [task EXCEPT ![t].pc = pc]
Return(t) == task' = [task EXCEPT ![t] = Idle]

-----------------------------------------------------------------------------
(* Cards.                                                                   *)

(* Mutant: the viewer is not left out of the query.                         *)
MutantCandidates(u) == {v \in Users : likes[<<u, v>>] = "none"}

(* get_next_candidate: somebody the viewer has not rated yet.               *)
Candidates(u) == {v \in Users \ {u} : likes[<<u, v>>] = "none"}

(* get_sent_swipes_last_24h; the model's time is one day.                   *)
SentSwipes(u) == Cardinality({v \in Users : likes[<<u, v>>] # "none"})

LimitReached(u) == u \notin Subscribers /\ SentSwipes(u) >= FreeLimit

(* The feed starts: browse_start asks for the limit, feed_city_entered      *)
(* chooses the first card.                                                  *)
Browse(u) ==
    /\ card[u] = NoUser
    /\ ~LimitReached(u)
    /\ \E v \in Candidates(u) : card' = [card EXCEPT ![u] = v]
    /\ UNCHANGED <<tables, inbound, task, contacts, liked, taps, faults>>

SwipeStop(u) ==
    /\ card[u] # NoUser
    /\ card' = [card EXCEPT ![u] = NoUser]
    /\ UNCHANGED <<tables, inbound, task, contacts, liked, taps, faults>>

(* "Who liked me" ends the feed and shows the likers not yet answered.      *)
WhoLikedMe(u) ==
    LET likers == {v \in Candidates(u) : likes[<<v, u>>] = "like"} IN
    /\ card' = [card EXCEPT ![u] = NoUser]
    /\ inbound' = inbound \cup {<<u, v>> : v \in likers}
    /\ UNCHANGED <<tables, task, contacts, liked, taps, faults>>

-----------------------------------------------------------------------------
(* A tap.                                                                   *)

Tap(t, u, v, action, feed) ==
    /\ task[t].pc = "idle"
    /\ taps < MaxSwipes
    /\ taps' = taps + 1
    /\ task' = [task EXCEPT ![t] = [Idle EXCEPT !.pc = IF feed THEN "limit" ELSE "get_like",
                                                !.from = u, !.to = v,
                                                !.action = action, !.feed = feed]]
    /\ UNCHANGED <<tables, chat, contacts, liked, faults>>

(* on_swipe_action takes the target from the conversation state.            *)
FeedTap(t, u, action) ==
    /\ card[u] # NoUser
    /\ Tap(t, u, card[u], action, TRUE)

(* inbound_liker_action takes it from the button, and asks for no limit.    *)
(* The list can be shown again and again, so old buttons stay around.       *)
InboundTap(t, u, v, action) ==
    /\ <<u, v>> \in inbound
    /\ Tap(t, u, v, action, FALSE)

CheckLimit(t) ==
    LET u == task[t].from IN
    /\ task[t].pc = "limit"
    /\ IF LimitReached(u)
       THEN Return(t) /\ card' = [card EXCEPT ![u] = NoUser]
       ELSE Goto(t, "get_like") /\ UNCHANGED card
    /\ UNCHANGED <<tables, inbound, contacts, liked, taps, faults>>

(* get_like; the same action twice ends the tap here.                       *)
GetLike(t) ==
    LET row == likes[<<task[t].from, task[t].to>>] IN
    /\ task[t].pc = "get_like"
    /\ IF row = task[t].action
       THEN Return(t)
       ELSE task' = [task EXCEPT ![t].pc = "write_like", ![t].row = row]
    /\ UNCHANGED <<tables, chat, contacts, liked, taps, faults>>

(* Mutant: only a new row leads to the search for a match.                  *)
MutantAfterWrite(t) ==
    IF task[t].action = "like" /\ task[t].row = "none" THEN "mutual" ELSE "rate"

AfterWrite(t) == IF task[t].action = "like" THEN "mutual" ELSE "rate"

(* The row is updated, or inserted under the unique constraint.             *)
WriteLike(t) ==
    LET edge == <<task[t].from, task[t].to>> IN
    /\ task[t].pc = "write_like"
    /\ likes[edge] # "none" => task[t].row # "none"
    /\ likes' = [likes EXCEPT ![edge] = task[t].action]
    /\ liked' = IF task[t].action = "like" THEN liked \cup {edge} ELSE liked
    /\ task' = [task EXCEPT ![t].pc = AfterWrite(t), ![t].row = "none"]
    /\ UNCHANGED <<matches, chat, contacts, taps, faults>>

(* IntegrityError: another tap has inserted the row.                        *)
WriteConflicts(t) ==
    /\ task[t].pc = "write_like"
    /\ task[t].row = "none"
    /\ likes[<<task[t].from, task[t].to>>] # "none"
    /\ Return(t)
    /\ UNCHANGED <<tables, chat, contacts, liked, taps, faults>>

(* Mutant: asks for the viewer's own like.                                  *)
MutantIsMutual(u, v) == likes[<<u, v>>] = "like"

(* check_mutual_like                                                        *)
IsMutual(u, v) == likes[<<v, u>>] = "like"

CheckMutual(t) ==
    /\ task[t].pc = "mutual"
    /\ Goto(t, IF IsMutual(task[t].from, task[t].to) THEN "find_match" ELSE "rate")
    /\ UNCHANGED <<tables, chat, contacts, liked, taps, faults>>

Rate(t) == task' = [task EXCEPT ![t].pc = "rate", ![t].matched = TRUE]

(* get_or_create_match: nothing stops two taps from finding no row ...      *)
FindMatch(t) ==
    LET pair == Pair(task[t].from, task[t].to) IN
    /\ task[t].pc = "find_match"
    /\ \/ matches[pair] = 0 /\ Goto(t, "insert_match")
       \/ matches[pair] = 1 /\ Rate(t)
    /\ UNCHANGED <<tables, chat, contacts, liked, taps, faults>>

(* ... and scalar_one_or_none() raises when there are two.                  *)
FindMatchRaises(t) ==
    /\ task[t].pc = "find_match"
    /\ matches[Pair(task[t].from, task[t].to)] > 1
    /\ Return(t)
    /\ UNCHANGED <<tables, chat, contacts, liked, taps, faults>>

InsertMatch(t) ==
    /\ task[t].pc = "insert_match"
    /\ matches' = [matches EXCEPT ![Pair(task[t].from, task[t].to)] = @ + 1]
    /\ Rate(t)
    /\ UNCHANGED <<likes, chat, contacts, liked, taps, faults>>

(* recompute_rating_for_user for both, and publish_swipe_event.             *)
RateAndPublish(t) ==
    /\ task[t].pc = "rate"
    /\ Goto(t, "notify")
    /\ UNCHANGED <<tables, chat, contacts, liked, taps, faults>>

(* Both users get the contacts of a match.                                  *)
Notify(t) ==
    /\ task[t].pc = "notify"
    /\ contacts' = IF task[t].matched THEN contacts \cup {Pair(task[t].from, task[t].to)}
                 ELSE contacts
    /\ IF task[t].feed THEN Goto(t, "next_card") ELSE Return(t)
    /\ UNCHANGED <<tables, chat, liked, taps, faults>>

(* _load_next_with_photos finds nothing after the conversation was cleared, *)
(* or when no candidate of the chosen gender and city is left.              *)
NextCard(t) ==
    LET u == task[t].from
        next == IF card[u] = NoUser THEN {} ELSE Candidates(u)
    IN
    /\ task[t].pc = "next_card"
    /\ \E v \in next \cup {NoUser} : card' = [card EXCEPT ![u] = v]
    /\ Return(t)
    /\ UNCHANGED <<tables, inbound, contacts, liked, taps, faults>>

-----------------------------------------------------------------------------
(* A step raises, and the tap ends where it is.                             *)
Interrupt(t) ==
    /\ task[t].pc # "idle"
    /\ faults < MaxFaults
    /\ faults' = faults + 1
    /\ Return(t)
    /\ UNCHANGED <<tables, chat, contacts, liked, taps>>

(* The bot restarts; the conversation state is in Redis and stays.          *)
BotRestart ==
    /\ faults < MaxFaults
    /\ faults' = faults + 1
    /\ task' = [t \in Taps |-> Idle]
    /\ UNCHANGED <<tables, chat, contacts, liked, taps>>

Proceed(t) ==
    \/ CheckLimit(t)
    \/ GetLike(t)
    \/ WriteLike(t)
    \/ WriteConflicts(t)
    \/ CheckMutual(t)
    \/ FindMatch(t)
    \/ FindMatchRaises(t)
    \/ InsertMatch(t)
    \/ RateAndPublish(t)
    \/ Notify(t)
    \/ NextCard(t)
    \/ Interrupt(t)

Next ==
    \/ \E u \in Users :
           \/ Browse(u)
           \/ SwipeStop(u)
           \/ WhoLikedMe(u)
           \/ \E t \in Taps, action \in {"like", "skip"} :
                  \/ FeedTap(t, u, action)
                  \/ \E v \in Users : InboundTap(t, u, v, action)
    \/ \E t \in Taps : Proceed(t)
    \/ BotRestart

Spec == Init /\ [][Next]_vars

-----------------------------------------------------------------------------
(* Contacts are given away only between users who have both liked each      *)
(* other, whatever else they tapped at the same time.                       *)
ContactsAreMutual ==
    \A u, v \in Users : Pair(u, v) \in contacts => <<u, v>> \in liked /\ <<v, u>> \in liked

Quiet(u, v) == \A t \in Taps : Pair(task[t].from, task[t].to) # Pair(u, v)

(* A mutual like has its match, and both users have the contacts, once the  *)
(* taps of the pair are over, also when the two likes came at the same      *)
(* moment, after a skip, or from both lists: each tap writes its like       *)
(* before it looks for the other, and every tap that sees both tells both.  *)
MutualIsMatched ==
    \A u, v \in Users :
        /\ likes[<<u, v>>] = "like" /\ likes[<<v, u>>] = "like"
        /\ Quiet(u, v) /\ faults = 0
        => matches[Pair(u, v)] > 0 /\ Pair(u, v) \in contacts

-----------------------------------------------------------------------------
(* What the code says and does not keep.                                    *)

(* crud/matches.py:10 orders the two ids of a pair so that it is unique.    *)
OneMatchPerPair == \A pair \in Pairs : matches[pair] <= 1

(* routers/swipe.py:83: five free swipes in 24 hours.  Answers to likers    *)
(* have no limit in the code, so a user who has seen the list is left out.  *)
FreeSwipesAreLimited ==
    \A u \in Users \ Subscribers :
        (\A v \in Users : <<u, v>> \notin inbound) => SentSwipes(u) <= FreeLimit
=============================================================================
