---------------------------- MODULE SwipeProofs ----------------------------
(***************************************************************************)
(* Proofs, for any number of users and of taps at the same time: the type  *)
(* of the state of SwipeMatch, and that contacts are given away only       *)
(* between two users who have both liked each other.                       *)
(***************************************************************************)
EXTENDS SwipeMatch, TLAPS

Mutual(u, v) == <<u, v>> \in liked /\ <<v, u>> \in liked

(* What a tap may rely on between two awaits: past its write, its own like   *)
(* has been given; past check_mutual_like, both have.                       *)
TapOK(k) ==
    /\ k.pc # "idle" => k.from \in Users /\ k.to \in Users /\ k.from # k.to
                        /\ k.action \in {"like", "skip"}
    /\ k.pc = "idle" => k = Idle
    /\ k.pc \in {"mutual", "find_match", "insert_match"} => <<k.from, k.to>> \in liked
    /\ k.pc \in {"find_match", "insert_match"} \/ k.matched => Mutual(k.from, k.to)

LikesAreRecorded == \A e \in Users \X Users : likes[e] = "like" => e \in liked

SwipeInv ==
    /\ SwipeTypeOK
    /\ \A t \in Taps : TapOK(task[t])
    /\ \A u, v \in Users : <<u, v>> \in inbound => u # v
    /\ LikesAreRecorded
    /\ ContactsAreMutual

-----------------------------------------------------------------------------
(* A step of one tap leaves the others what they rely on: likes given are    *)
(* never taken out of liked.                                                *)
LEMMA OneTap ==
    ASSUME SwipeInv, NEW t \in Taps, NEW k \in TaskState, TapOK(k)',
           task' = [task EXCEPT ![t] = k], liked \subseteq liked'
    PROVE  task' \in [Taps -> TaskState] /\ \A s \in Taps : TapOK(task[s])'
<1>1. task \in [Taps -> TaskState]
    BY DEF SwipeInv, SwipeTypeOK
<1>2. ASSUME NEW s \in Taps PROVE TapOK(task[s])'
    <2>1. TapOK(task[s])
        BY DEF SwipeInv
    <2>2. CASE s = t
        BY <1>1, <2>2
    <2>3. CASE s # t
        BY <1>1, <2>1, <2>3 DEF TapOK, Mutual
    <2>. QED  BY <2>2, <2>3
<1>. QED  BY <1>1, <1>2

(* Two users are a pair.                                                    *)
LEMMA PairOfUsers == \A u, v \in Users : Pair(u, v) \in Pairs
BY DEF Pair, Pairs

(* The state of a tap that is about to take a step.                         *)
LEMMA CurrentTap ==
    ASSUME SwipeInv, NEW t \in Taps
    PROVE  /\ task[t] \in TaskState
           /\ TapOK(task[t])
           /\ Idle \in TaskState
           /\ TapOK(Idle)'
BY DEF SwipeInv, SwipeTypeOK, TaskState, TapOK, Idle, ProgramPoints

(* A step that ends the tap and changes no table.                           *)
LEMMA Returns ==
    ASSUME SwipeInv, NEW t \in Taps, Return(t),
           UNCHANGED <<tables, inbound, contacts, liked>>,
           card' \in [Users -> Users \cup {NoUser}], \A u \in Users : card'[u] # u,
           taps' \in 0..MaxSwipes, faults' \in 0..MaxFaults
    PROVE  SwipeInv'
<1>1. task' \in [Taps -> TaskState] /\ \A s \in Taps : TapOK(task[s])'
    BY CurrentTap, OneTap DEF Return
<1>. QED
    BY <1>1 DEF SwipeInv, SwipeTypeOK, LikesAreRecorded, ContactsAreMutual, tables

(* The same for a step that goes on with the tap in another state.          *)
LEMMA GoesOn ==
    ASSUME SwipeInv, NEW t \in Taps, NEW k \in TaskState, TapOK(k)',
           task' = [task EXCEPT ![t] = k],
           UNCHANGED <<tables, chat, contacts, liked, taps, faults>>
    PROVE  SwipeInv'
<1>1. task' \in [Taps -> TaskState] /\ \A s \in Taps : TapOK(task[s])'
    BY OneTap
<1>. QED
    BY <1>1 DEF SwipeInv, SwipeTypeOK, LikesAreRecorded, ContactsAreMutual, tables, chat

-----------------------------------------------------------------------------
(* The initial state satisfies the invariant.                               *)
LEMMA SwipeInit == Init => SwipeInv
BY SwipeAssumption
   DEF Init, SwipeInv, SwipeTypeOK, TaskState, ProgramPoints, TapOK, Idle, LikesAreRecorded,
       ContactsAreMutual, Pairs, Pair

(* Cards are shown and taken away.                                          *)
LEMMA CardStep ==
    ASSUME SwipeInv, NEW u \in Users, Browse(u) \/ SwipeStop(u) \/ WhoLikedMe(u)
    PROVE  SwipeInv'
<1>. Candidates(u) \subseteq Users \ {u}
    BY DEF Candidates
<1>. USE DEF SwipeInv, SwipeTypeOK
<1>1. card' \in [Users -> Users \cup {NoUser}] /\ \A v \in Users : card'[v] # v
    <2>1. PICK v \in (Users \ {u}) \cup {NoUser} : card' = [card EXCEPT ![u] = v]
        BY DEF Browse, SwipeStop, WhoLikedMe
    <2>. QED  BY <2>1, SwipeAssumption
<1>2. inbound' \subseteq Users \X Users /\ \A v, w \in Users : <<v, w>> \in inbound' => v # w
    <2>1. CASE inbound' = inbound
        BY <2>1
    <2>2. CASE WhoLikedMe(u)
        <3>1. inbound' \subseteq inbound \cup {<<u, v>> : v \in Users \ {u}}
            BY <2>2 DEF WhoLikedMe
        <3>. QED  BY <3>1
    <2>. QED  BY <2>1, <2>2 DEF Browse, SwipeStop
<1>3. UNCHANGED <<tables, task, contacts, liked, taps, faults>>
    BY DEF Browse, SwipeStop, WhoLikedMe
<1>. QED
    BY <1>1, <1>2, <1>3
       DEF SwipeInv, SwipeTypeOK, LikesAreRecorded, ContactsAreMutual, tables, TapOK, Mutual

(* A tap begins.                                                            *)
LEMMA TapStep ==
    ASSUME SwipeInv, NEW t \in Taps, NEW u \in Users, NEW action \in {"like", "skip"},
           FeedTap(t, u, action) \/ \E v \in Users : InboundTap(t, u, v, action)
    PROVE  SwipeInv'
<1>1. PICK v \in Users, feed \in BOOLEAN : u # v /\ Tap(t, u, v, action, feed)
    BY DEF FeedTap, InboundTap, SwipeInv, SwipeTypeOK
<1>. DEFINE k == [Idle EXCEPT !.pc = IF feed THEN "limit" ELSE "get_like", !.from = u,
                              !.to = v, !.action = action, !.feed = feed]
<1>2. k \in TaskState /\ TapOK(k)'
    BY <1>1 DEF TaskState, ProgramPoints, TapOK, Idle
<1>3. task' = [task EXCEPT ![t] = k] /\ UNCHANGED <<tables, chat, contacts, liked, faults>>
    BY <1>1 DEF Tap
<1>4. task' \in [Taps -> TaskState] /\ \A s \in Taps : TapOK(task[s])'
    <2>. HIDE DEF k
    <2>. QED  BY <1>2, <1>3, OneTap
<1>5. taps' \in 0..MaxSwipes
    BY <1>1, SwipeAssumption DEF Tap, SwipeInv, SwipeTypeOK
<1>. QED
    BY <1>3, <1>4, <1>5 DEF SwipeInv, SwipeTypeOK, LikesAreRecorded, ContactsAreMutual, tables, chat

-----------------------------------------------------------------------------
(* The steps of a tap under way.                                            *)
LEMMA LimitStep == ASSUME SwipeInv, NEW t \in Taps, CheckLimit(t) PROVE SwipeInv'
<1>1. CASE Return(t) /\ card' = [card EXCEPT ![task[t].from] = NoUser]
    <2>1. task[t].from \in Users
        BY CurrentTap DEF CheckLimit, TapOK
    <2>2. card' \in [Users -> Users \cup {NoUser}] /\ \A u \in Users : card'[u] # u
        BY <1>1, <2>1, SwipeAssumption DEF SwipeInv, SwipeTypeOK
    <2>. QED  BY <1>1, <2>2, Returns DEF CheckLimit, SwipeInv, SwipeTypeOK
<1>2. CASE Goto(t, "get_like") /\ UNCHANGED card
    <2>1. UNCHANGED <<tables, chat, contacts, liked, taps, faults>>
        BY <1>2 DEF CheckLimit, chat
    <2>2. PICK k \in TaskState : k = [task[t] EXCEPT !.pc = "get_like"]
        BY CurrentTap DEF TaskState, ProgramPoints
    <2>3. TapOK(k)'
        BY CurrentTap, <2>1, <2>2 DEF TaskState, TapOK, Mutual, CheckLimit
    <2>4. task' = [task EXCEPT ![t] = k]
        BY <1>2, <2>2 DEF Goto, SwipeInv, SwipeTypeOK
    <2>. QED  BY <2>1, <2>3, <2>4, GoesOn
<1>. QED  BY <1>1, <1>2 DEF CheckLimit

(* The row is read, and the tap may end with it.                            *)
LEMMA GetStep == ASSUME SwipeInv, NEW t \in Taps, GetLike(t) PROVE SwipeInv'
<1>. DEFINE row == likes[<<task[t].from, task[t].to>>]
<1>1. UNCHANGED <<tables, chat, contacts, liked, taps, faults>>
    BY DEF GetLike
<1>2. CASE Return(t)
    BY <1>1, <1>2, Returns DEF SwipeInv, SwipeTypeOK, chat
<1>3. CASE task' = [task EXCEPT ![t].pc = "write_like", ![t].row = row]
    <2>1. row \in {"none", "like", "skip"}
        BY CurrentTap DEF GetLike, TapOK, SwipeInv, SwipeTypeOK
    <2>2. PICK k \in TaskState : k = [task[t] EXCEPT !.pc = "write_like", !.row = row]
        BY <2>1, CurrentTap DEF TaskState, ProgramPoints
    <2>3. TapOK(k)'
        BY CurrentTap, <1>1, <2>2 DEF TaskState, TapOK, Mutual, GetLike
    <2>4. task' = [task EXCEPT ![t] = k]
        BY <1>3, <2>2 DEF SwipeInv, SwipeTypeOK
    <2>. QED  BY <1>1, <2>3, <2>4, GoesOn
<1>. QED  BY <1>2, <1>3 DEF GetLike

(* The like is written, and with it recorded as given.                      *)
LEMMA WriteStep == ASSUME SwipeInv, NEW t \in Taps, WriteLike(t) PROVE SwipeInv'
<1>. DEFINE edge == <<task[t].from, task[t].to>>
            action == task[t].action
<1>1. /\ task[t].from \in Users /\ task[t].to \in Users /\ task[t].from # task[t].to
      /\ action \in {"like", "skip"} /\ edge \in Users \X Users
    BY CurrentTap DEF WriteLike, TapOK
<1>2. liked \subseteq liked' /\ liked' \subseteq Users \X Users
    BY <1>1 DEF WriteLike, SwipeInv, SwipeTypeOK
<1>3. action = "like" => edge \in liked'
    BY DEF WriteLike
<1>4. PICK k \in TaskState : k = [task[t] EXCEPT !.pc = AfterWrite(t), !.row = "none"]
    BY CurrentTap DEF TaskState, ProgramPoints, AfterWrite
<1>5. TapOK(k)'
    <2>1. ~task[t].matched \/ Mutual(task[t].from, task[t].to)
        BY CurrentTap DEF TapOK
    <2>. QED
        BY CurrentTap, <1>1, <1>2, <1>3, <1>4, <2>1
           DEF TaskState, TapOK, Mutual, AfterWrite
<1>6. task' = [task EXCEPT ![t] = k]
    BY <1>4 DEF WriteLike, SwipeInv, SwipeTypeOK
<1>7. task' \in [Taps -> TaskState] /\ \A s \in Taps : TapOK(task[s])'
    BY <1>2, <1>5, <1>6, OneTap
<1>8. likes' = [likes EXCEPT ![edge] = action]
    BY DEF WriteLike
<1>9. /\ likes' \in [Users \X Users -> {"none", "like", "skip"}]
      /\ \A u \in Users : likes'[<<u, u>>] = "none"
    BY <1>1, <1>8 DEF SwipeInv, SwipeTypeOK
<1>10. LikesAreRecorded'
    BY <1>1, <1>2, <1>3, <1>8 DEF LikesAreRecorded, SwipeInv, SwipeTypeOK
<1>11. UNCHANGED <<matches, card, inbound, contacts, taps, faults>>
    BY DEF WriteLike, chat
<1>12. ContactsAreMutual'
    BY <1>2, <1>11 DEF ContactsAreMutual, SwipeInv
<1>. QED
    BY <1>2, <1>7, <1>9, <1>10, <1>11, <1>12 DEF SwipeInv, SwipeTypeOK

(* Somebody else inserted the row, or the pair has two matches: the tap ends. *)
LEMMA FailStep ==
    ASSUME SwipeInv, NEW t \in Taps, WriteConflicts(t) \/ FindMatchRaises(t)
    PROVE  SwipeInv'
<1>1. Return(t) /\ UNCHANGED <<tables, chat, contacts, liked, taps, faults>>
    BY DEF WriteConflicts, FindMatchRaises
<1>. QED  BY <1>1, Returns DEF SwipeInv, SwipeTypeOK, chat

(* The other like is looked for: it is there only if it was given.          *)
LEMMA MutualStep == ASSUME SwipeInv, NEW t \in Taps, CheckMutual(t) PROVE SwipeInv'
<1>. DEFINE u == task[t].from
            v == task[t].to
            pc == IF IsMutual(u, v) THEN "find_match" ELSE "rate"
<1>1. UNCHANGED <<tables, chat, contacts, liked, taps, faults>>
    BY DEF CheckMutual
<1>2. PICK k \in TaskState : k = [task[t] EXCEPT !.pc = pc]
    BY CurrentTap DEF TaskState, ProgramPoints
<1>3. u \in Users /\ v \in Users /\ <<u, v>> \in liked
    BY CurrentTap DEF CheckMutual, TapOK
<1>4. IsMutual(u, v) => Mutual(u, v)
    BY <1>3 DEF IsMutual, Mutual, SwipeInv, LikesAreRecorded
<1>5. TapOK(k)'
    BY CurrentTap, <1>1, <1>2, <1>3, <1>4 DEF TaskState, TapOK, Mutual, CheckMutual
<1>6. task' = [task EXCEPT ![t] = k]
    BY <1>2 DEF CheckMutual, Goto, SwipeInv, SwipeTypeOK
<1>. QED  BY <1>1, <1>5, <1>6, GoesOn

(* The match is found or inserted.                                          *)
LEMMA MatchStep ==
    ASSUME SwipeInv, NEW t \in Taps, FindMatch(t) \/ InsertMatch(t)
    PROVE  SwipeInv'
<1>. DEFINE pair == Pair(task[t].from, task[t].to)
<1>1. /\ task[t].from \in Users /\ task[t].to \in Users
      /\ Mutual(task[t].from, task[t].to) /\ pair \in Pairs
    BY CurrentTap, PairOfUsers DEF FindMatch, InsertMatch, TapOK
<1>2. PICK k \in TaskState :
          /\ task' = [task EXCEPT ![t] = k]
          /\ \/ k = [task[t] EXCEPT !.pc = "insert_match"]
             \/ k = [task[t] EXCEPT !.pc = "rate", !.matched = TRUE]
    <2>1. task \in [Taps -> TaskState]
        BY DEF SwipeInv, SwipeTypeOK
    <2>2. /\ [task[t] EXCEPT !.pc = "insert_match"] \in TaskState
          /\ [task[t] EXCEPT !.pc = "rate", !.matched = TRUE] \in TaskState
        BY CurrentTap DEF TaskState, ProgramPoints
    <2>. QED  BY <2>1, <2>2 DEF FindMatch, InsertMatch, Goto, Rate
<1>3. UNCHANGED <<likes, chat, contacts, liked, taps, faults>>
    BY DEF FindMatch, InsertMatch, tables
<1>4. TapOK(k)'
    BY CurrentTap, <1>1, <1>2, <1>3 DEF TaskState, TapOK, Mutual, FindMatch, InsertMatch
<1>5. task' \in [Taps -> TaskState] /\ \A s \in Taps : TapOK(task[s])'
    BY <1>2, <1>3, <1>4, OneTap
<1>6. matches' \in [Pairs -> Nat]
    BY <1>1 DEF FindMatch, InsertMatch, tables, SwipeInv, SwipeTypeOK
<1>. QED
    BY <1>3, <1>5, <1>6 DEF SwipeInv, SwipeTypeOK, LikesAreRecorded, ContactsAreMutual, chat

(* The ratings are recomputed and the event published.                      *)
LEMMA RateStep == ASSUME SwipeInv, NEW t \in Taps, RateAndPublish(t) PROVE SwipeInv'
<1>1. UNCHANGED <<tables, chat, contacts, liked, taps, faults>>
    BY DEF RateAndPublish
<1>2. PICK k \in TaskState : k = [task[t] EXCEPT !.pc = "notify"]
    BY CurrentTap DEF TaskState, ProgramPoints
<1>3. TapOK(k)'
    BY CurrentTap, <1>1, <1>2 DEF TaskState, TapOK, Mutual, RateAndPublish
<1>4. task' = [task EXCEPT ![t] = k]
    BY <1>2 DEF RateAndPublish, Goto, SwipeInv, SwipeTypeOK
<1>. QED  BY <1>1, <1>3, <1>4, GoesOn

(* The contacts go out: the tap knows of both likes.                        *)
LEMMA NotifyStep == ASSUME SwipeInv, NEW t \in Taps, Notify(t) PROVE SwipeInv'
<1>. DEFINE pair == Pair(task[t].from, task[t].to)
<1>1. UNCHANGED <<tables, chat, liked, taps, faults>>
    BY DEF Notify
<1>2. /\ task[t].from \in Users /\ task[t].to \in Users /\ pair \in Pairs
      /\ task[t].matched => Mutual(task[t].from, task[t].to)
    BY CurrentTap, PairOfUsers DEF Notify, TapOK
<1>3. PICK k \in TaskState :
          /\ task' = [task EXCEPT ![t] = k]
          /\ k = Idle \/ k = [task[t] EXCEPT !.pc = "next_card"]
    <2>1. task \in [Taps -> TaskState]
        BY DEF SwipeInv, SwipeTypeOK
    <2>2. [task[t] EXCEPT !.pc = "next_card"] \in TaskState
        BY CurrentTap DEF TaskState, ProgramPoints
    <2>. QED  BY <2>1, <2>2, CurrentTap DEF Notify, Goto, Return
<1>4. TapOK(k)'
    <2>1. CASE k = Idle
        BY <2>1, CurrentTap
    <2>2. CASE k = [task[t] EXCEPT !.pc = "next_card"]
        BY <2>2, CurrentTap, <1>1, <1>2 DEF TaskState, TapOK, Mutual, Notify
    <2>. QED  BY <1>3, <2>1, <2>2
<1>5. task' \in [Taps -> TaskState] /\ \A s \in Taps : TapOK(task[s])'
    BY <1>1, <1>3, <1>4, OneTap
<1>6. contacts' \subseteq Pairs
    BY <1>2 DEF Notify, SwipeInv, SwipeTypeOK
<1>7. ContactsAreMutual'
    <2>1. SUFFICES ASSUME NEW u \in Users, NEW v \in Users, Pair(u, v) \in contacts'
                   PROVE  Mutual(u, v)
        BY <1>1 DEF ContactsAreMutual, Mutual
    <2>2. CASE Pair(u, v) \in contacts
        BY <2>2 DEF SwipeInv, ContactsAreMutual, Mutual
    <2>3. CASE task[t].matched /\ Pair(u, v) = pair
        BY <1>2, <2>3 DEF Pair, Mutual
    <2>. QED  BY <2>1, <2>2, <2>3 DEF Notify
<1>. QED
    BY <1>1, <1>5, <1>6, <1>7 DEF SwipeInv, SwipeTypeOK, LikesAreRecorded, tables, chat

(* The feed shows its next card.                                            *)
LEMMA NextCardStep == ASSUME SwipeInv, NEW t \in Taps, NextCard(t) PROVE SwipeInv'
<1>1. task[t].from \in Users
    BY CurrentTap DEF NextCard, TapOK
<1>2. PICK v \in (Users \ {task[t].from}) \cup {NoUser} :
          card' = [card EXCEPT ![task[t].from] = v]
    BY DEF NextCard, Candidates
<1>3. card' \in [Users -> Users \cup {NoUser}] /\ \A u \in Users : card'[u] # u
    BY <1>1, <1>2, SwipeAssumption DEF SwipeInv, SwipeTypeOK
<1>. QED  BY <1>3, Returns DEF NextCard, SwipeInv, SwipeTypeOK

(* A step raises, or the bot restarts.                                      *)
LEMMA FaultStep ==
    ASSUME SwipeInv, BotRestart \/ \E t \in Taps : Interrupt(t)
    PROVE  SwipeInv'
<1>1. faults' \in 0..MaxFaults
    BY SwipeAssumption DEF BotRestart, Interrupt, SwipeInv, SwipeTypeOK
<1>2. CASE BotRestart
    <2>1. task' \in [Taps -> TaskState] /\ \A s \in Taps : TapOK(task[s])'
        BY <1>2, CurrentTap DEF BotRestart
    <2>. QED
        BY <1>1, <1>2, <2>1
           DEF BotRestart, SwipeInv, SwipeTypeOK, LikesAreRecorded, ContactsAreMutual, tables, chat
<1>3. CASE \E t \in Taps : Interrupt(t)
    BY <1>1, <1>3, Returns DEF Interrupt, SwipeInv, SwipeTypeOK, chat
<1>. QED  BY <1>2, <1>3

(* Every step keeps the invariant.                                          *)
LEMMA SwipeStep == SwipeInv /\ [Next]_vars => SwipeInv'
<1>1. CASE UNCHANGED vars
    BY <1>1 DEF vars, tables, chat, SwipeInv, SwipeTypeOK, TapOK, Mutual, LikesAreRecorded,
                ContactsAreMutual
<1>2. ASSUME SwipeInv, NEW u \in Users, Browse(u) \/ SwipeStop(u) \/ WhoLikedMe(u)
      PROVE  SwipeInv'
    BY <1>2, CardStep
<1>3. ASSUME SwipeInv, NEW u \in Users, NEW t \in Taps, NEW action \in {"like", "skip"},
             FeedTap(t, u, action) \/ \E v \in Users : InboundTap(t, u, v, action)
      PROVE  SwipeInv'
    BY <1>3, TapStep
<1>4. ASSUME SwipeInv, NEW t \in Taps, Proceed(t) PROVE SwipeInv'
    <2>1. CASE Interrupt(t)
        BY <1>4, <2>1, FaultStep
    <2>. QED
        BY <1>4, <2>1, LimitStep, GetStep, WriteStep, FailStep, MutualStep, MatchStep, RateStep,
           NotifyStep, NextCardStep
           DEF Proceed
<1>5. CASE SwipeInv /\ BotRestart
    BY <1>5, FaultStep
<1>. QED  BY <1>1, <1>2, <1>3, <1>4, <1>5 DEF Next

-----------------------------------------------------------------------------
(* That a mutual like gets its match.  Without failures, the match of a      *)
(* mutual like is looked for by a tap that has written its like and has not  *)
(* looked yet, or announced by one that has found or inserted it.            *)
PairOf(k) == Pair(k.from, k.to)
Searches(pair) ==
    \E t \in Taps : task[t].pc \in {"mutual", "find_match", "insert_match"} /\ PairOf(task[t]) = pair
Announces(pair) ==
    \E t \in Taps : task[t].pc \in {"rate", "notify"} /\ task[t].matched /\ PairOf(task[t]) = pair

Known(pair) == pair \in contacts \/ Announces(pair)
BothLike(u, v) == likes[<<u, v>>] = "like" /\ likes[<<v, u>>] = "like"

(* The parts of the invariant: what is announced exists, what exists is      *)
(* announced, and a mutual like is looked for.                               *)
AnnouncedExists ==
    /\ \A t \in Taps : task[t].matched => matches[PairOf(task[t])] > 0
    /\ \A pair \in contacts : matches[pair] > 0
ExistingIsKnown == faults = 0 => \A pair \in Pairs : matches[pair] > 0 => Known(pair)
MutualIsSought ==
    faults = 0 =>
        \A u, v \in Users : BothLike(u, v) => Known(Pair(u, v)) \/ Searches(Pair(u, v))

MatchInv == AnnouncedExists /\ ExistingIsKnown /\ MutualIsSought

(* A step of one tap.                                                       *)
OnlyMoves(t) == \A s \in Taps \ {t} : task'[s] = task[s]

(* What is known stays known, unless the tap that announces it forgets it.  *)
LEMMA KnownStays ==
    ASSUME NEW t \in Taps, OnlyMoves(t), contacts \subseteq contacts',
           task[t].pc \in {"rate", "notify"} /\ task[t].matched
               => \/ PairOf(task[t]) \in contacts'
                  \/ /\ task'[t].pc \in {"rate", "notify"} /\ task'[t].matched
                     /\ PairOf(task'[t]) = PairOf(task[t]),
           NEW pair, Known(pair)
    PROVE  Known(pair)'
BY DEF OnlyMoves, Known, Announces, PairOf, Pair

(* What is sought stays sought, but for the pair of the tap that moves.     *)
LEMMA SearchStays ==
    ASSUME NEW t \in Taps, OnlyMoves(t), NEW pair, Searches(pair),
           task[t].pc \in {"mutual", "find_match", "insert_match"} => pair # PairOf(task[t])
    PROVE  Searches(pair)'
BY DEF OnlyMoves, Searches, PairOf, Pair

(* A step of a tap that neither seeks nor announces a match.                *)
LEMMA PlainStep ==
    ASSUME SwipeInv, MatchInv, NEW t \in Taps, OnlyMoves(t),
           task[t].pc \in {"idle", "limit", "get_like", "write_like", "next_card"},
           task'[t].matched => task[t].matched /\ PairOf(task'[t]) = PairOf(task[t]),
           UNCHANGED <<tables, contacts, faults>>
    PROVE  MatchInv'
<1>1. UNCHANGED <<likes, matches, contacts, faults>>
    BY DEF tables
<1>2. AnnouncedExists'
    BY <1>1 DEF MatchInv, AnnouncedExists, OnlyMoves, PairOf, Pair
<1>3. \A pair : Known(pair) => Known(pair)'
    BY <1>1, KnownStays
<1>4. \A pair : Searches(pair) => Searches(pair)'
    BY SearchStays
<1>5. ExistingIsKnown'
    BY <1>1, <1>3 DEF MatchInv, ExistingIsKnown
<1>6. MutualIsSought'
    BY <1>1, <1>3, <1>4 DEF MatchInv, MutualIsSought, BothLike, Pair
<1>. QED  BY <1>2, <1>5, <1>6 DEF MatchInv

-----------------------------------------------------------------------------
(* At the start nothing is liked or matched.                                *)
LEMMA MatchInit == Init => MatchInv
BY DEF Init, MatchInv, AnnouncedExists, ExistingIsKnown, MutualIsSought, BothLike, Idle, PairOf

(* A card is shown or taken away.                                           *)
LEMMA MatchCardStep ==
    ASSUME MatchInv, UNCHANGED <<tables, task, contacts, faults>>
    PROVE  MatchInv'
BY DEF MatchInv, AnnouncedExists, ExistingIsKnown, MutualIsSought, BothLike, Known, Announces,
       Searches, PairOf, Pair, tables

(* A tap begins, or goes on without having written a like.                  *)
LEMMA MatchPlainSteps ==
    ASSUME SwipeInv, MatchInv, NEW t \in Taps,
           \/ \E u, v \in Users, action \in {"like", "skip"}, feed \in BOOLEAN :
                  Tap(t, u, v, action, feed)
           \/ CheckLimit(t) \/ GetLike(t) \/ WriteConflicts(t) \/ NextCard(t)
    PROVE  MatchInv'
<1>1. task \in [Taps -> TaskState]
    BY DEF SwipeInv, SwipeTypeOK
<1>2. OnlyMoves(t)
    BY <1>1 DEF Tap, CheckLimit, GetLike, WriteConflicts, NextCard, Return, Goto, OnlyMoves
<1>3. task[t].pc \in {"idle", "limit", "get_like", "write_like", "next_card"}
    BY DEF Tap, CheckLimit, GetLike, WriteConflicts, NextCard
<1>4. UNCHANGED <<tables, contacts, faults>>
    BY DEF Tap, CheckLimit, GetLike, WriteConflicts, NextCard
<1>5. task'[t].matched => task[t].matched /\ PairOf(task'[t]) = PairOf(task[t])
    <2>1. CASE \E u, v \in Users, action \in {"like", "skip"}, feed \in BOOLEAN :
                   Tap(t, u, v, action, feed)
        BY <1>1, <2>1 DEF Tap, Idle
    <2>2. CASE Return(t)
        BY <1>1, <2>2 DEF Return, Idle
    <2>3. CASE CheckLimit(t) \/ GetLike(t)
        BY <1>1, <2>2, <2>3 DEF CheckLimit, GetLike, Goto, TaskState, PairOf
    <2>. QED  BY <2>1, <2>2, <2>3 DEF WriteConflicts, NextCard
<1>. QED  BY <1>2, <1>3, <1>4, <1>5, PlainStep

(* A new mutual like is sought by the tap that completes it.                *)
LEMMA MatchWriteStep ==
    ASSUME SwipeInv, MatchInv, NEW t \in Taps, WriteLike(t)
    PROVE  MatchInv'
<1>. DEFINE edge == <<task[t].from, task[t].to>>
<1>1. /\ task \in [Taps -> TaskState] /\ task[t].pc = "write_like"
      /\ task[t].from \in Users /\ task[t].to \in Users
      /\ likes \in [Users \X Users -> {"none", "like", "skip"}]
    BY CurrentTap DEF WriteLike, TapOK, SwipeInv, SwipeTypeOK
<1>2. OnlyMoves(t) /\ UNCHANGED <<matches, contacts, faults>>
    BY <1>1 DEF WriteLike, OnlyMoves
<1>3. task'[t] = [task[t] EXCEPT !.pc = AfterWrite(t), !.row = "none"]
    BY <1>1 DEF WriteLike
<1>4. task'[t].matched = task[t].matched /\ PairOf(task'[t]) = PairOf(task[t])
    BY <1>1, <1>3 DEF TaskState, PairOf
<1>5. AnnouncedExists'
    BY <1>2, <1>4 DEF MatchInv, AnnouncedExists, OnlyMoves, PairOf, Pair
<1>6. \A pair : Known(pair) => Known(pair)'
    BY <1>1, <1>2, KnownStays
<1>7. \A pair : Searches(pair) => Searches(pair)'
    BY <1>1, <1>2, SearchStays
<1>8. ExistingIsKnown'
    BY <1>2, <1>6 DEF MatchInv, ExistingIsKnown
<1>9. ASSUME faults' = 0, NEW u \in Users, NEW v \in Users, BothLike(u, v)'
      PROVE  Known(Pair(u, v))' \/ Searches(Pair(u, v))'
    <2>1. CASE BothLike(u, v)
        BY <1>2, <1>6, <1>7, <1>9, <2>1 DEF MatchInv, MutualIsSought
    <2>2. CASE ~BothLike(u, v)
        <3>1. task[t].action = "like" /\ (edge = <<u, v>> \/ edge = <<v, u>>)
            BY <1>1, <1>9, <2>2 DEF WriteLike, BothLike
        <3>2. task'[t].pc = "mutual"
            BY <1>1, <1>3, <3>1 DEF AfterWrite, TaskState
        <3>3. PairOf(task'[t]) = Pair(u, v)
            BY <1>4, <3>1 DEF PairOf, Pair
        <3>. QED  BY <3>2, <3>3 DEF Searches, PairOf, Pair
    <2>. QED  BY <2>1, <2>2
<1>10. MutualIsSought'
    BY <1>9 DEF MutualIsSought, Pair
<1>. QED  BY <1>5, <1>8, <1>10 DEF MatchInv

(* A tap that does not see the other like has no mutual like to seek.       *)
LEMMA MatchMutualStep ==
    ASSUME SwipeInv, MatchInv, NEW t \in Taps, CheckMutual(t)
    PROVE  MatchInv'
<1>. DEFINE pc == IF IsMutual(task[t].from, task[t].to) THEN "find_match" ELSE "rate"
<1>1. task \in [Taps -> TaskState] /\ task[t].pc = "mutual"
    BY DEF CheckMutual, SwipeInv, SwipeTypeOK
<1>2. OnlyMoves(t) /\ UNCHANGED <<likes, matches, contacts, faults>>
    BY <1>1 DEF CheckMutual, Goto, OnlyMoves, tables
<1>3. task'[t] = [task[t] EXCEPT !.pc = pc]
    BY <1>1 DEF CheckMutual, Goto
<1>4. /\ task'[t].matched = task[t].matched /\ PairOf(task'[t]) = PairOf(task[t])
      /\ task'[t].pc = pc
    BY <1>1, <1>3 DEF TaskState, PairOf
<1>5. AnnouncedExists'
    BY <1>2, <1>4 DEF MatchInv, AnnouncedExists, OnlyMoves, PairOf, Pair
<1>6. \A pair : Known(pair) => Known(pair)'
    BY <1>1, <1>2, KnownStays
<1>7. ExistingIsKnown'
    BY <1>2, <1>6 DEF MatchInv, ExistingIsKnown
<1>8. ASSUME faults' = 0, NEW u \in Users, NEW v \in Users, BothLike(u, v)
      PROVE  Known(Pair(u, v))' \/ Searches(Pair(u, v))'
    <2>1. Known(Pair(u, v)) \/ Searches(Pair(u, v))
        BY <1>2, <1>8 DEF MatchInv, MutualIsSought
    <2>2. CASE Known(Pair(u, v))
        BY <1>6, <2>2
    <2>3. CASE Searches(Pair(u, v)) /\ Pair(u, v) # PairOf(task[t])
        BY <1>2, <2>3, SearchStays
    <2>4. CASE Pair(u, v) = PairOf(task[t])
        <3>1. IsMutual(task[t].from, task[t].to)
            BY <1>8, <2>4 DEF PairOf, Pair, BothLike, IsMutual
        <3>. QED  BY <1>4, <2>4, <3>1 DEF Searches, PairOf, Pair
    <2>. QED  BY <2>1, <2>2, <2>3, <2>4
<1>9. MutualIsSought'
    BY <1>2, <1>8 DEF MutualIsSought, BothLike, Pair
<1>. QED  BY <1>5, <1>7, <1>9 DEF MatchInv

(* A match that is found or inserted is announced by the tap.               *)
LEMMA MatchFoundStep ==
    ASSUME SwipeInv, MatchInv, NEW t \in Taps, FindMatch(t) \/ InsertMatch(t)
    PROVE  MatchInv'
<1>. DEFINE mine == PairOf(task[t])
<1>1. /\ task \in [Taps -> TaskState] /\ task[t].pc \in {"find_match", "insert_match"}
      /\ matches \in [Pairs -> Nat] /\ mine \in Pairs /\ contacts \subseteq Pairs
      /\ \A s \in Taps : task[s].matched => PairOf(task[s]) \in Pairs
    <2>1. /\ task \in [Taps -> TaskState] /\ task[t].pc \in {"find_match", "insert_match"}
          /\ matches \in [Pairs -> Nat] /\ contacts \subseteq Pairs
        BY DEF FindMatch, InsertMatch, SwipeInv, SwipeTypeOK
    <2>2. mine \in Pairs
        BY <2>1, CurrentTap, PairOfUsers DEF TapOK, PairOf
    <2>3. ASSUME NEW s \in Taps, task[s].matched PROVE PairOf(task[s]) \in Pairs
        <3>1. TapOK(task[s])
            BY CurrentTap
        <3>2. task[s].pc # "idle"
            BY <2>3, <3>1 DEF TapOK, Idle
        <3>3. task[s].from \in Users /\ task[s].to \in Users
            BY <3>1, <3>2 DEF TapOK
        <3>. QED  BY <3>3, PairOfUsers DEF PairOf
    <2>. QED  BY <2>1, <2>2, <2>3
<1>2. OnlyMoves(t) /\ UNCHANGED <<likes, contacts, faults>>
    BY <1>1 DEF FindMatch, InsertMatch, Goto, Rate, OnlyMoves, tables
<1>3. /\ PairOf(task'[t]) = mine
      /\ \/ /\ task'[t].pc = "insert_match" /\ task'[t].matched = task[t].matched
            /\ matches' = matches
         \/ /\ task'[t].pc = "rate" /\ task'[t].matched
            /\ matches'[mine] > 0
            /\ \A pair \in Pairs \ {mine} : matches'[pair] = matches[pair]
    BY <1>1 DEF FindMatch, InsertMatch, Goto, Rate, PairOf, TaskState, tables
<1>4. \A pair \in Pairs : matches[pair] > 0 => matches'[pair] > 0
    BY <1>1, <1>3
<1>5. AnnouncedExists'
    BY <1>1, <1>2, <1>3, <1>4 DEF MatchInv, AnnouncedExists, OnlyMoves, PairOf, Pair
<1>6. \A pair : Known(pair) => Known(pair)'
    BY <1>1, <1>2, KnownStays
<1>7. Searches(mine)' \/ Announces(mine)'
    BY <1>3 DEF Searches, Announces, PairOf, Pair
<1>8. ExistingIsKnown'
    <2>1. ASSUME faults' = 0, NEW pair \in Pairs, matches'[pair] > 0 PROVE Known(pair)'
        <3>1. CASE matches[pair] > 0
            BY <1>2, <1>6, <2>1, <3>1 DEF MatchInv, ExistingIsKnown
        <3>2. CASE ~(matches[pair] > 0)
            <4>1. pair = mine /\ task'[t].pc = "rate" /\ task'[t].matched
                BY <1>1, <1>3, <2>1, <3>2
            <4>. QED  BY <1>3, <4>1 DEF Known, Announces, PairOf, Pair
        <3>. QED  BY <3>1, <3>2
    <2>. QED  BY <2>1 DEF ExistingIsKnown, Known, Announces
<1>9. ASSUME faults' = 0, NEW u \in Users, NEW v \in Users, BothLike(u, v)
      PROVE  Known(Pair(u, v))' \/ Searches(Pair(u, v))'
    <2>1. Known(Pair(u, v)) \/ Searches(Pair(u, v))
        BY <1>2, <1>9 DEF MatchInv, MutualIsSought
    <2>2. CASE Known(Pair(u, v))
        BY <1>6, <2>2
    <2>3. CASE Searches(Pair(u, v)) /\ Pair(u, v) # mine
        BY <1>2, <2>3, SearchStays
    <2>4. CASE Pair(u, v) = mine
        BY <1>7, <1>3, <2>4 DEF Known, Searches, Announces, PairOf, Pair
    <2>. QED  BY <2>1, <2>2, <2>3, <2>4
<1>10. MutualIsSought'
    BY <1>2, <1>9 DEF MutualIsSought, BothLike, Pair
<1>. QED  BY <1>5, <1>8, <1>10 DEF MatchInv

(* The lookup raises only for a pair whose match is known.                  *)
LEMMA MatchRaisesStep ==
    ASSUME SwipeInv, MatchInv, NEW t \in Taps, FindMatchRaises(t)
    PROVE  MatchInv'
<1>. DEFINE mine == PairOf(task[t])
<1>1. /\ task \in [Taps -> TaskState] /\ task[t].pc = "find_match"
      /\ matches \in [Pairs -> Nat] /\ mine \in Pairs /\ matches[mine] > 1
    BY CurrentTap, PairOfUsers DEF FindMatchRaises, TapOK, PairOf, SwipeInv, SwipeTypeOK
<1>2. /\ OnlyMoves(t) /\ UNCHANGED <<likes, matches, contacts, faults>>
      /\ task'[t] = Idle
    BY <1>1 DEF FindMatchRaises, Return, OnlyMoves, tables
<1>3. AnnouncedExists'
    BY <1>2 DEF MatchInv, AnnouncedExists, OnlyMoves, Idle, PairOf, Pair
<1>4. \A pair : Known(pair) => Known(pair)'
    BY <1>1, <1>2, KnownStays
<1>5. faults = 0 => Known(mine)
    BY <1>1 DEF MatchInv, ExistingIsKnown
<1>6. ExistingIsKnown'
    BY <1>2, <1>4 DEF MatchInv, ExistingIsKnown
<1>7. ASSUME faults' = 0, NEW u \in Users, NEW v \in Users, BothLike(u, v)
      PROVE  Known(Pair(u, v))' \/ Searches(Pair(u, v))'
    <2>1. Known(Pair(u, v)) \/ Searches(Pair(u, v))
        BY <1>2, <1>7 DEF MatchInv, MutualIsSought
    <2>2. CASE Known(Pair(u, v)) \/ Pair(u, v) = mine
        BY <1>2, <1>4, <1>5, <1>7, <2>2
    <2>3. CASE Searches(Pair(u, v)) /\ Pair(u, v) # mine
        BY <1>2, <2>3, SearchStays
    <2>. QED  BY <2>1, <2>2, <2>3
<1>8. MutualIsSought'
    BY <1>2, <1>7 DEF MutualIsSought, BothLike, Pair
<1>. QED  BY <1>3, <1>6, <1>8 DEF MatchInv

(* An announced match becomes a pair with contacts.                         *)
LEMMA MatchAnnounceStep ==
    ASSUME SwipeInv, MatchInv, NEW t \in Taps, RateAndPublish(t) \/ Notify(t)
    PROVE  MatchInv'
<1>. DEFINE mine == PairOf(task[t])
<1>1. task \in [Taps -> TaskState] /\ task[t].pc \in {"rate", "notify"}
    BY DEF RateAndPublish, Notify, SwipeInv, SwipeTypeOK
<1>2. OnlyMoves(t) /\ UNCHANGED <<likes, matches, faults>>
    BY <1>1 DEF RateAndPublish, Notify, Goto, Return, OnlyMoves, tables
<1>3. task'[t].matched => task[t].matched /\ PairOf(task'[t]) = mine
    BY <1>1 DEF RateAndPublish, Notify, Goto, Return, Idle, TaskState, PairOf
<1>4. contacts \subseteq contacts' /\ contacts' \subseteq contacts \cup {mine}
    BY DEF RateAndPublish, Notify, PairOf
<1>5. task[t].matched
          => mine \in contacts' \/ (task'[t].pc = "notify" /\ task'[t].matched
                                    /\ PairOf(task'[t]) = mine)
    BY <1>1 DEF RateAndPublish, Notify, Goto, TaskState, PairOf
<1>6. mine \in contacts' => mine \in contacts \/ task[t].matched
    BY DEF RateAndPublish, Notify
<1>7. AnnouncedExists'
    BY <1>2, <1>3, <1>4, <1>6 DEF MatchInv, AnnouncedExists, OnlyMoves, PairOf, Pair
<1>8. \A pair : Known(pair) => Known(pair)'
    BY <1>2, <1>4, <1>5, KnownStays
<1>9. \A pair : Searches(pair) => Searches(pair)'
    BY <1>1, <1>2, SearchStays
<1>10. ExistingIsKnown'
    BY <1>2, <1>8 DEF MatchInv, ExistingIsKnown
<1>11. MutualIsSought'
    BY <1>2, <1>8, <1>9 DEF MatchInv, MutualIsSought, BothLike, Pair
<1>. QED  BY <1>7, <1>10, <1>11 DEF MatchInv

(* A failure: only what exists is still promised.                           *)
LEMMA MatchFaultStep ==
    ASSUME SwipeInv, MatchInv, BotRestart \/ \E t \in Taps : Interrupt(t)
    PROVE  MatchInv'
<1>1. faults' # 0
    BY DEF BotRestart, Interrupt, SwipeInv, SwipeTypeOK
<1>2. \A t \in Taps : task'[t] = task[t] \/ task'[t] = Idle
    BY DEF BotRestart, Interrupt, Return, SwipeInv, SwipeTypeOK
<1>3. UNCHANGED <<matches, contacts>>
    BY DEF BotRestart, Interrupt, tables
<1>. QED
    BY <1>1, <1>2, <1>3
       DEF MatchInv, AnnouncedExists, ExistingIsKnown, MutualIsSought, Idle, PairOf, Pair

(* Every step keeps the invariant of the search.                            *)
LEMMA MatchStepKept == SwipeInv /\ MatchInv /\ [Next]_vars => MatchInv'
<1>. SUFFICES ASSUME SwipeInv, MatchInv, [Next]_vars PROVE MatchInv'
    OBVIOUS
<1>1. CASE UNCHANGED vars
    BY <1>1, MatchCardStep DEF vars
<1>2. CASE \E u \in Users : Browse(u) \/ SwipeStop(u) \/ WhoLikedMe(u)
    BY <1>2, MatchCardStep DEF Browse, SwipeStop, WhoLikedMe
<1>3. CASE \E u \in Users, t \in Taps, action \in {"like", "skip"} :
               FeedTap(t, u, action) \/ \E v \in Users : InboundTap(t, u, v, action)
    <2>1. PICK u \in Users, t \in Taps, action \in {"like", "skip"} :
              FeedTap(t, u, action) \/ \E v \in Users : InboundTap(t, u, v, action)
        BY <1>3
    <2>2. PICK v \in Users, feed \in BOOLEAN : Tap(t, u, v, action, feed)
        BY <2>1 DEF FeedTap, InboundTap, SwipeInv, SwipeTypeOK
    <2>. QED  BY <2>2, MatchPlainSteps
<1>4. ASSUME NEW t \in Taps, Proceed(t) PROVE MatchInv'
    <2>1. CASE Interrupt(t)
        BY <2>1, MatchFaultStep
    <2>. QED
        BY <1>4, <2>1, MatchPlainSteps, MatchWriteStep, MatchMutualStep, MatchFoundStep,
           MatchRaisesStep, MatchAnnounceStep
           DEF Proceed
<1>5. CASE BotRestart
    BY <1>5, MatchFaultStep
<1>. QED  BY <1>1, <1>2, <1>3, <1>4, <1>5 DEF Next

(* With nobody at work on the pair, what is sought has been found.          *)
LEMMA QuietIsMatched == SwipeInv /\ MatchInv => MutualIsMatched
<1>. SUFFICES ASSUME SwipeInv, MatchInv, NEW u \in Users, NEW v \in Users,
                     BothLike(u, v), Quiet(u, v), faults = 0
              PROVE  matches[Pair(u, v)] > 0 /\ Pair(u, v) \in contacts
    BY DEF MutualIsMatched, BothLike
<1>1. Known(Pair(u, v)) \/ Searches(Pair(u, v))
    BY DEF MatchInv, MutualIsSought
<1>2. Pair(u, v) \in contacts
    BY <1>1 DEF Known, Searches, Announces, Quiet, PairOf
<1>. QED  BY <1>2 DEF MatchInv, AnnouncedExists

-----------------------------------------------------------------------------
(* The type of the state, whatever the number of users and taps; with it    *)
(* that nobody is shown to himself or rates himself.                        *)
THEOREM SwipeTypeCorrect == Spec => []SwipeTypeOK
<1>1. SwipeInv => SwipeTypeOK
    BY DEF SwipeInv
<1>. QED  BY <1>1, SwipeInit, SwipeStep, PTL DEF Spec

(* Contacts are given away only between two users who have both liked each  *)
(* other, however their likes, skips and failures interleave.               *)
THEOREM ContactsCorrect == Spec => []ContactsAreMutual
<1>1. SwipeInv => ContactsAreMutual
    BY DEF SwipeInv
<1>. QED  BY <1>1, SwipeInit, SwipeStep, PTL DEF Spec

(* A mutual like has its match, and both users the contacts, once the taps   *)
(* of the pair are over and none has failed, whatever their number and      *)
(* order.                                                                   *)
THEOREM MatchedCorrect == Spec => []MutualIsMatched
<1>1. SwipeInv /\ MatchInv /\ [Next]_vars => (SwipeInv /\ MatchInv)'
    BY SwipeStep, MatchStepKept
<1>2. Init => SwipeInv /\ MatchInv
    BY SwipeInit, MatchInit
<1>. QED  BY <1>1, <1>2, QuietIsMatched, PTL DEF Spec
=============================================================================
