# A TLA+ model of the dating bot project

The repository holds a Telegram dating bot, the payment service behind it, and
three smaller programs. This directory specifies them in TLA+, checks the
specifications with TLC on small instances and proves the most important
properties with TLAPS for every instance. Paths below are relative to the
repository.

## 1. The system

| part | where | state | operations |
|---|---|---|---|
| payment handlers | `dating_payment_botyra/src/application/payment` | domain objects of one call | create, confirm (Stars), create crypto, check crypto |
| database | `.../infrastructure/db` | `payments`, `subscriptions` | one session and one transaction for each call |
| crypto checker | `.../gateways/crypto/checker.py` | list of pending payments of one round | poll every 30 s, check them one by one |
| chain gateways | `.../gateways/crypto/{eth,sol}.py` | one Ethereum account and its nonce, connections | start, balance, sweep, close |
| process | `.../presentation/api/app.py`, `.../grpc/server.py` | lifespan | start and stop of gateways, checker and gRPC server |
| contracts | `ETH_pay`, `sol_pay`, `TON_pay` | balances, owner, treasury | deploy, sweep, administration |
| event publisher | `.../broker/publisher.py` | RabbitMQ queues | publish |
| gRPC service | `.../presentation/grpc` | calls in progress | five calls, each ends with an answer or INTERNAL |
| bot, purchases | `dating_botyra/bot/routers/subscription.py`, `bot/services` | chat, `users.sub_expires_at` | invoice, payment, confirmation, sync |
| bot, swipes | `bot/routers/{swipe,match}.py`, `common/services/swipe_actions.py` | `likes`, `matches`, conversation state | like, skip, match, limit of free swipes |
| bot, profiles | `bot/routers/profile.py`, `common/db/crud/profiles.py` | `profiles`, `photos`, conversation state | form, confirm, delete |
| rating | `common/services/rating_engine.py`, `workers/rating_consumer.py` | `ratings`, queue `dating.rating` | recompute, in the bot and in the consumer |
| cache comparison | `cash_types/app` | Redis items and dirty set, Postgres items | read, write (three strategies), flush, reset |
| load generator | `cash_types/load_generator.py` | operations left, answers awaited | reset, workload, flush |
| broker benchmark | `RabbitMQ_vs_Redis/bench` | queue, counters | produce, consume, drain |
| online store | `online_store_transactions/app` | orders, items | place order |

How they interact. The bot calls the payment service over gRPC; the service
keeps the truth about subscriptions and the bot a copy of the end date, fetched
before every swipe and after every purchase. In the payment service the gRPC
calls and the checker are coroutines of one event loop which share nothing but
the database and the chains. A coroutine can be overtaken by the others at each
`await`: between selecting the payment and selecting its subscription lie two
remote calls. Swipes call the same database from concurrent updates of
Telegram, and reach the rating consumer through RabbitMQ.

What is hard: the same payment checked twice at a time, deadlines that pass
during a check, failures between a sweep and the commit that records it, an
answer that is lost after its effect, the copy of the end date, and, in the
other programs, check-then-insert of matches, limits checked before they are
used up, ratings saved by two recomputations at once, caches filled by a late
reader, a flush that stops half-way, runs of a benchmark that share a queue, and
sweeps that travel as messages while the treasury changes. `PROJECT.json` lists
each hazard at its line.

What makes the parts correct:

- payments: money before access, access before news; the two rows of a payment
  agree; no payment fails early, each is decided; one payment, one period;
- bot: what it says is true in the service, what it grants is backed by it;
- swipes: one match for a mutual like, the free limit, a rating that catches up;
- caches: no stale item for ever, no acknowledged write lost, a workload that
  starts from the seed;
- benchmark: what is counted as lost was lost, and every run ends;
- gateways: one sweep for each check, no gap in the nonces, no gateway closed
  under a check;
- contracts: no money created or lost, all of it collected by a treasury.

## 2. Plan

Done in this order: `PaidAccess`, `PaymentService`, `PaymentProperties`,
`PaymentProofs`, `SubscriptionBot`, `SwipeMatch`, `SwipeProofs`,
`CacheStrategies`, `LoadExperiment`, `BrokerBenchmark`, `ProfileRating`,
`DepositWallets`, `WalletsProofs`, `BenchProofs`, `CacheProofs`,
`ChainGateways`, `GatewayProofs`, `MCShop`, `BotProofs`, `RatingProofs`. Every
safety property that a passing run checks now has its theorem. What is left:

1. the whole purchase as the user sees it, from choosing a plan to "activated",
   as an abstract specification that `SubscriptionBot` implements (`PaidAccess`
   says what the service promises; the bot's promise is in invariants only);
2. as an action property, that a cache item stops being `exposed` only when
   cache and table agree on it again;
3. two hazards no property covers: two first messages of one user, which both
   insert the row (`common/db/crud/users.py:28`), and events of an expiry that
   are published before the commit (`subscription/handlers.py:39`, in a worker
   that no container runs).

## 3. The modules

**PaidAccess** is what the service promises about one purchase: `Pay`, then
`Open`, then `Announce`, with no step back.

**PaymentService** is the service. Rows are functions of the payment:
`payment`, `deadline`, `subscription`, `expires` (each payment has a
subscription row of its own, created with it). `handler[t]` is the coroutine
`t`: its program point, the payment it works on, the fields of its domain
objects it has set and the columns its commit will write. One action is the
code between two awaits:

| code | actions |
|---|---|
| `CreatePaymentHandler`, `CreateCryptoPaymentHandler` | `CreatePayment`, `CreateCryptoPayment` |
| `ConfirmPaymentHandler` | `ConfirmPending` or `ConfirmSettled`, `ReadSubscription`, `SaveFirst`, `SaveSecond`, `CommitSucceeded`, `PublishSucceeded`, `PublishActivated` |
| `CheckCryptoPaymentHandler` | `CheckSettled`, `CheckExpired` or `CheckLive`; `BalanceSufficient` or `BalanceShort`; `Sweep` or `SweepFails`; then as above, or `CommitFailed` |
| `crypto_payment_checker` | `ListPending`, then the check actions with `t = Checker` |
| an exception or a cancelled call, a restart | `Interrupt`, `Restart` |
| the world | `Tick`, `Deposit`, `Charge`, `SweepMined`, `SweepDropped` |

How the session saves is modelled because the races depend on it. The identity
map of a session is weak, so `save()` selects the row again; a commit writes
just the columns in which that fresh row differs from the domain object
(`Changed`); the second `save()` flushes the first row, whose lock is then held
until the transaction ends (`HoldsRow`). `save()` of the two rows happens in
different orders in the two handlers (`FirstSaved`). The isolation level is
READ COMMITTED, so a transaction that waited for a lock writes its columns over
the newer row.

The two chains differ in one thing that matters: an Ethereum node accepts a
sweep of an empty wallet, Solana's preflight rejects it (the deposit account
does not exist or is empty).

**PaymentProperties** states the properties, **PaymentProofs** proves the ones
that hold for every instance.

**SubscriptionBot** puts the bot in front of the service: `chat` is where each
Stars purchase stands for the user, `subExpires` is `users.sub_expires_at`,
`sync` what a running synchronisation has fetched but not stored. It reuses the
service's actions (`CreatePayment`, `Charge`, `ConfirmPending`, `Proceed`,
`Interrupt`) and adds what the bot does at the same time. A purchase for crypto
goes through the same chat: `ShowAddress` creates the payment and shows its
address, `TapCheck` is the button under it. When the service's handler ends,
`Heard` is what the bot makes of the answer (`ServiceProceeds`), and an error
leaves the button where it is. `ServiceAlone` is what happens without the bot:
the clock, deposits, sweeps and the checker. **MCBot** says who makes which
purchase; **MCShop** sells, in one behaviour, either for Stars or for crypto.
**BotProofs** holds the proofs.

**SwipeMatch** is `apply_like_or_skip` and the two handlers that call it.
`likes`, `matches` and `contacts` are the tables and what was sent; `card` is
the candidate in a user's conversation (in Redis, so it survives a restart),
`inbound` the cards of "who liked me", whose buttons carry their target.
`task[t]` is the handler of one tap; aiogram runs each update in a task of its
own and nothing isolates the updates of one user. A tap goes through

    CheckLimit (feed only), GetLike, WriteLike | WriteConflicts,
    CheckMutual, FindMatch | FindMatchRaises, InsertMatch,
    RateAndPublish, Notify, NextCard (feed only)

where each is one session or statement of the code, and any of them may raise
(`Interrupt`). The choice of the city and gender is part of `Browse`; the model
covers one day, so the window of the limit does not move; a subscription does
not change. **MCSwipe** adds the symmetry, **SwipeProofs** the proofs.

**ChainGateways** is what `PaymentService` takes for granted about the chains:
how the gateways come up, which nonce a sweep gets, and what becomes of it when
the node's answer is lost. `check[c]` is one call of
`CheckCryptoPaymentHandler`, made by the checker (`Polls`) or over gRPC;
`settings` is what is configured, well or badly (a malformed address of either
chain ends the start of the process), `lifespan` how far the process has come up or
down, `pool` and `sent` what the nodes have taken, `executed` what they have
done, `nonce` how many transactions of the one Ethereum account were executed.

| code | actions |
|---|---|
| `lifespan` of `app.py`, before `yield` | `StartEth`, `StartSol`, `CreateChecker`, `StartServer` |
| ... and after it | `StopServer`, `GraceEnds`, `CancelChecker`, `CloseGateways`; `Crash` |
| the checker's loop, the gRPC call, `_ensure_available` | `PollPayment`, `CallCheck` |
| `has_sufficient_payment` | `ReadBalance` |
| `sweep`, up to the signed transaction | `PrepareSweep`, `PrepareFails` |
| `send_raw_transaction` for each of `tx_candidates`; `send_transaction` | `SendEth`, `SendSol` |
| the nodes | `PayUser`, `Mine`, `Forget`, `LandSol` |

The second candidate carries the nonce of the first, which is why a lost answer
does not sweep twice. **GatewayProofs** holds the proofs.

**ProfileRating** is the form of a profile and the row in `ratings` that comes
with it. `job[j]` is a coroutine of the bot or of the rating consumer, which
handles up to `prefetch_count` events side by side:

| code | actions |
|---|---|
| `my_profile`, "create" and "restart", the form's handlers | `ShowProfile`, `StartForm`, `FillForm` |
| `confirm`, `create_profile` | `Confirm`, `GetData`, `ClearForm`, `InsertProfile` or `InsertRefused`, `InsertPhoto` |
| `delete_profile_handler` | `PressDelete`, `DeleteProfile` |
| `apply_like_or_skip` | `Swipe`, `WriteSwipe`, the recomputation of both users, `PublishSwipe` |
| `on_swipe_event` | `TakeEvent`, the recomputation of both users |
| `recompute_rating_for_user` | `LoadRow`, `CountLikes`, `SaveRow` |
| an exception, restarts | `HandlerRaises`, `BotRestarts`, `ConsumerRestarts` |

A commit writes only the columns that changed since the row was loaded, so two
recomputations can leave a mixture. A photo that was found with its profile
makes the deletion fail: SQLAlchemy sets its `profile_id` to NULL, which the
column refuses. `behind` are the users whose last save was of an overlapped
recomputation, or whose tap failed before it; `RatingSettles` and
`CombinedMatches` speak of the others, and a later clean save takes a user out.
`RatingSettles` waits for the coroutines of the bot only: what the queue holds
and the consumer is doing makes no difference. **RatingProofs** holds the
proofs.

**CacheStrategies** is the service that compares cache strategies; its handlers
are plain functions, so each runs in a thread of its own and a step is one Redis
command or one transaction. `req[a]` is what thread `a` is doing, and
`FlushTask` is `flush_forever`, which runs inside the event loop: while it
flushes, no request begins and no answer leaves (`LoopIsFree`). `self._flush_lock`
is held at the program points `Locked`.

| code | actions |
|---|---|
| `CacheStrategy.read` | `Get`, `Select`, `Fill` |
| `CacheAsideStrategy.write`, `WriteThroughStrategy.write` | `Upsert`, then `Evict` or `Store` |
| `WriteBackStrategy.write` | `Set`, `SAdd`, `SCard` |
| `WriteBackStrategy.flush`, `flush_forever` | `SMembers`, `FGet`, `FUpsert`, `SRem`; `Wake` |
| `reset` | `Clear`, `Truncate` |
| a failing command, a restart | `Refused`, the second disjunct of `Continue`; `RestartService` |

A value is the number of its write. `acked` is the last write a client was told
of, `epoch` the last write a reset may have dropped. `exposed` marks the items on
which the code keeps no promise: a read that missed has stored a row that was
overtaken, a reset has cut into a request, or a command failed between the
database and the cache. What repairs such an item (a later eviction, a current
SET) takes it out again. The properties speak of the other items: they say that
nothing else than these overlaps and failures does harm. The report in
`cash_types/results` neither promises nor excludes the overlaps, so they are no
disagreement. **CacheProofs** holds the proofs, those of the load generator too.

**LoadExperiment** puts `load_generator.py` in front: `phase` is where its
`main()` is, `awaited` the threads whose client waits.

**BrokerBenchmark** is `bench/core.py` over both brokers. `run[r]` holds the
counters of a run, `queue` is the one queue all runs use, `held` and `unacked`
what each of its consumers has been handed. `Config` is what the runs were asked
for: the target and the consumers, one in every script, any number over HTTP
(`RunRequest`). The scripts start one run after the other, the HTTP API does not
wait; `shared` are the runs that overlapped. A connection that closes gives
RabbitMQ's messages back to the queue, those of all consumers of the run, and
loses what one consumer had popped from Redis.

**DepositWallets** is the factory and the wallets on three chains. Ethereum and
Solana sweep in one transaction (`SweepEth`, `SweepSol`), TON in three messages
(`OrderSweep`, `ReceiveSweep`, `TransferJettons`). A message names the treasury
of the moment it was ordered, and the wallet pays whom it names (`Recipient`).
`collected` is history: how much the sweeps ordered while each address was the
treasury have moved; for TON, messages carry that address as `ordered`, which no
action but this history reads. **WalletsProofs** and **BenchProofs** hold the
proofs.

**MCServices** and **MCTaps** put modules that share no state into one run: a
variable chooses at the start which of them is at work, and the others stay in
their initial states. The state spaces are added, not multiplied.

## 4. What is checked

| run | instance | shows |
|---|---|---|
| `payment_races` | one Ethereum and one Stars payment, the checker and one gRPC coroutine, one fault | types; the rows' agreement; no early failure; a bounded grant; refinement of `PaidAccess` |
| `payment_checker` | an Ethereum and a Solana payment, only the checker, two faults, fair | the rows tell the same story; a settled payment is final; swept money is accounted for; every payment is decided |
| `bot_purchases` | two users with a purchase each for Stars, or one with a purchase for crypto, one gRPC coroutine and the checker, one fault (a call or a restart), fair | the bot never claims or grants what the service has not activated; a charged purchase is activated if nothing fails |
| `swipe_taps` | two users, one subscribed, three taps at a time out of four, one failure or restart; or one profile and one user without, two coroutines and a consumer, three updates, one fault | contacts only after two likes; every mutual like is matched and told; the score a profile is sorted by is that of its columns, and catches up with the likes |
| `services` | the cache: three strategies, two items, two threads, batches of one, two workloads, one fault; the benchmark: two runs of two producers and one or two consumers, one fault; the contracts: a wallet on each chain, two parties, two units; the gateways: a poll and a gRPC call, one address on each chain, two faults | nothing acknowledged is lost, reads see it, the cache agrees with the table; a workload starts clean and ends stored; dirty items are flushed; losses are real, exact if undisturbed, and runs end; money is accounted for and goes to the treasury of the moment its sweep was ordered; a check sweeps once, nonces have no gap and gateways outlive their checks |
| `one_plan`, `paid_in_time`, `bot_delayed`, `bot_renewal` | as above | disagreements 1 to 4 below |
| `swipe_duplicate`, `swipe_limit` | two and three users, two taps | disagreements 5 and 6 |
| `profile_again` | one user, one coroutine, no fault | disagreement 7 |

Bounds, and why they are enough. `Price = 2` with deposits of one or two parts
gives short, exact and repeated payments, `MaxPaid` stops at the price so that
a swept wallet can be told from a full one. `Timeout = 1` and `MaxTime = 3` put
deposits and checks before, at and after the deadline. `PlanDays = 2` is the
shortest period still running one tick later, so prolonging and starting anew
differ. Two handlers are the smallest race; the proofs cover any number. One
fault interrupts every point of one call, two also the call that repairs it.

In `swipe_taps` four taps are the fewest that lead to the exception of a
duplicate match (two likes at once, a skip, a like). Taps and subscribed users
are symmetric; the run has no liveness property, so this is sound. The free
limit is one instead of five, and for the limit a third user is needed: a
second card.

In `services` three requests are the fewest that show a stale cache (a read, a
write, a read); write-back, which has more program points, gets two, which show
a version lost by a flush. After an interruption one more request follows
(`Later`), and the second workload sends none (`Further`): its start is what is
looked at. A batch of one with two items leaves an item for the next flush. Two
runs of the benchmark, the second with a smaller target, show leftovers, and
two producers an odd quota. When runs follow each other the first has two
consumers, whose messages come back to the queue interleaved, and three
messages, more than one consumer holds; runs that overlap have two consumers
each and send a message each, for what overlaps is then who takes it. Two checks and two faults let one check lose an
answer while the other reads the nonce; one of the two is a poll, so that a
shutdown meets both sorts. Two units and two orders let TON's sweeps overtake
each other. In the ratings only one user fills in the form (`Applicants`); three
updates are two swipes and a change of one of them.

Fairness (`Fairness`, `BotFairness`). The event loop runs every coroutine that
can go on, the chain clients and the database answer or raise, the checker's
loop is `while True` around an `except Exception`, and time passes. There is no
fairness on users, deposits, mining or gRPC calls. `CryptoDecided` therefore
rests on the checker alone: a payment that is never paid fails when the clock
has passed its deadline. In the bot `Confirm` is strongly fair since the one
modelled coroutine is sometimes busy with another purchase.

In the cache service some thread runs, or the event loop wakes the flush task
(`ExperimentFairness`); which thread, and what the generator does, is left open.
`DirtyIsFlushed` excepts a flush task that has died of an exception, which the
code lets happen. In the benchmark the event loop lets some run go on, the
deadlines pass, and every call that `run_benchmark` and its producers make to
the broker returns or raises (`BenchFairness`): a `publish` that hangs would
hold up a run, whose deadline is looked at between two calls only. Nothing is
assumed of the consumers: they may hang or die, and `RunsEnd` holds because the
drain has a deadline and cancels them. A service that is not
started enables no fair action.

Properties that hold only without concurrent checks (`OneOutcome`,
`SettledForGood`, `SweptIsSettled`) are checked for the checker alone. With a
gRPC call beside it TLC refutes each; `one_plan` in section 5 shows how.

## 5. Disagreements between the code and what it says

1. `OnePlanPerPayment`: two checks of one payment select it as pending, both
   sweep, and the second prolongs the subscription the first has activated.
2. `PaidInTimeIsNotFailed`: the user has 15 minutes to pay, but the deadline is
   looked at before the balance, so a payment made in time and looked at late
   fails, with the money left in the deposit wallet.
3. `DelayedIsActivated`: after a failed confirmation the bot promises an
   activation within a minute; nothing in either program retries it.
4. `ToldActiveHasAccess`: the second purchase of a user makes two active rows,
   the query for the active one raises, and the bot stores "no subscription".
   The menu refuses a user with an active subscription, but an older menu
   message, or two invoices, do not.

5. `OneMatchPerPair`: two mutual likes at once both find no match and both
   insert one; the helper that orders the ids "for uniqueness in the database"
   has no constraint behind it. From then on the lookup raises for the pair.
6. `FreeSwipesAreLimited`: a tap on a new card, begun while an earlier tap has
   not written its row, passes the limit the earlier one is about to use up.
   Answers in "who liked me" are not limited by the code and not counted here.
7. `ConfirmGivesProfile`: deleting a profile leaves its row in `ratings`, whose
   `user_id` is unique, and `create_profile` inserts a new one; a user who has
   deleted his profile and is told to create one gets an error, for ever.

## 6. What is proved

Every safety property of a passing run, invariant or action property, is a
theorem, and so is the refinement. The proofs hold for all values of the
constants that satisfy the assumptions of the modules; the assumptions say that
sorts are disjoint, sentinels are nobody's name, numbers are natural, batch
sizes and prices positive, and that sets which are counted are finite.

### The payment service (`PaymentProofs`)

From `PaymentsAssumption`, `NumbersAssumption` and `TasksAssumption` (the calls
are a finite set):

- `TypeCorrect`, `SettledTogetherCorrect`, `NeverFailedEarlyCorrect`;
- `Implementation`: `Spec => AccessFollowsMoney`, the refinement of `PaidAccess`;
- `GrantBoundedCorrect`: races over one payment prolong its subscription at most
  once for each handler;
- of the checker alone, that is under the hypothesis `Tasks = {}`:
  `OneOutcomeCorrect`, `SettledForGoodCorrect` (an action property) and
  `SweptIsSettledCorrect`. The hypothesis is needed: in the instance of
  `payment_races`, where one gRPC call runs beside the checker, TLC refutes each
  of the three.

None of the properties is inductive. `Inv` adds what a handler may rely on
between two awaits (`StateOK`): past the balance check its payment is funded; a
handler about to fail a payment saw the deadline pass; and, the heart of it, a
success about to be committed either carries the activation in its dirty
columns or the row is active already. The last holds across other handlers'
commits because no step deactivates a subscription or lets time, deadlines or
the money received run backwards (`Monotone`): lemma `StateKept`. `RowOK` says
of each payment what its rows and its wallet imply, `TellsTheTruth` what was
published and answered. Each action has a lemma; three general ones
(`WorldStep`, `HandlerStep`, `LocalStep`) reduce it to the handler that moves.

Wallets are in `Inv` because the balance is what the check sees and the money
received is what the property speaks of: `wallet[p] <= paid[p]`.

`RaceInv` counts. `Racing(p)` are the handlers that work on `p` and have not
passed their commit. A handler can join them only while the payment is pending,
so once it is settled the set only shrinks, and the periods already granted plus
one for each of them stay within one for each handler. `SoleInv` says of the
checker alone that nobody settles the payment it works on behind its back, so
its commit writes both rows, and that a sweep without a failed call belongs to a
payment that succeeded or is about to.

### The bot in front of it (`BotProofs`)

`BotTypeCorrect`, `ToldActiveCorrect`, `AccessIsBackedCorrect`,
`BotImplementation` and `BotGrantBounded`, for any number of users, purchases
and calls. A step of bot and users is a step of the service or only counts a
failure (`BotStepsService`), so all that is proved of the service's steps holds
of the whole system: this is how the refinement and the bound on races carry
over. `BotInv` adds that a Stars payment has at most one confirmation under way,
that what a sync has fetched and not yet stored stays backed (an active
subscription stays active, and a Stars payment's end date is set once), and that
"activated" is said of active subscriptions only.

### Swipes and ratings (`SwipeProofs`, `RatingProofs`)

`SwipeProofs`, from `SwipeAssumption`:

- `SwipeTypeCorrect` and `ContactsCorrect`, from `SwipeInv`: a tap past its
  write has its like in `liked`, one past `check_mutual_like` has both;
- `MatchedCorrect`, from `MatchInv`: without failures a mutual like is known
  (contacts sent, or announced by a tap that will send them) or sought by a tap
  that has written its like and not looked yet. The write comes before the
  look, so the tap that completes the mutual like is such a tap. The two other
  parts close the gaps: a match that exists is known (a tap whose lookup raises
  leaves nobody untold), and what is announced exists.

`RatingProofs`, from `RatingAssumption` (people and consumers are finite):

- `RatingTypeCorrect` and `CombinedCorrect`, from `TableInv`: the rating session
  writes the columns that changed, so the scores could come from two
  recomputations; a recomputation in which nothing went stale holds the row as
  it is in the table;
- `RatingSettlesCorrect`: when the bot's recomputations are done, every row that
  no lost race has left behind counts the likes its person has. `Settling` says
  why nothing falls between bot and consumer: a row that is not behind counts its
  likes, or a coroutine is still due to count them, and a recomputation that is about to
  save an old count is followed by another one.

### Cache comparison (`CacheProofs`)

From `CacheAssumption` and, for the experiment, `LoadAssumption`, for any number
of items, threads, requests and faults:

- `CacheTypeCorrect`: with the rest of the type, that one thread at a time is
  inside the flush lock, through exceptions and restarts;
- `AckedWriteKeptCorrect`: no acknowledged write is lost. `CacheInv` says of
  every version answered, or about to be answered, that it is `Safe`: its item
  is exposed, or the version is owed nothing after a reset, or it is in the
  table, or, under write-back, it is in the cache and its id is dirty and not
  `Doomed`, that is, not among the ids a running flush is about to remove. A
  flush dooms an id only after storing what the cache holds of it. The gap
  between SET and SADD is closed by the lock: such a write is the latest
  (`RequestKept`), and no flush runs until it is dirty. Lemma `ContinueStep`
  covers both ends of a command, going on and failing after its effect;
- `CacheAgreesCorrect`: `AgreeInv` adds that cache and table agree on a doomed
  id, which is what lets a flush take it off the dirty set;
- `ReadSeesAckedWriteCorrect`: `ReadInv` follows a read and says of each copy it
  may still be served from that it is not older than the acknowledged writes the
  read began after (`Served`);
- `LoadTypeCorrect`, `WorkloadStartsCleanCorrect`, `FlushStoresAllCorrect`: a
  reset takes no lock, so these rest on who else may be running. `ExperimentInv`
  says that of an undisturbed experiment all requests are ones the generator
  awaits (`Undisturbed`), so none is left when it resets, and that after the
  flush that ends a workload nothing is dirty (`AllFlushed`).

### Broker benchmark (`BenchProofs`)

From `BenchAssumption` (finite producers and consumers), for any number of
consumers in each run:

- `BenchTypeCorrect`: with the rest of the type, that no consumer holds more
  than its broker hands out;
- `LossCorrect`: a result counts nothing as lost that was processed. `CountersOK`
  relates the counters to the set of messages processed: a redelivered message
  is counted twice but is in the set once (`Cardinality(s) <= received`), what a
  failed publish has put into the queue is issued and not sent, and a finished
  run counts no more. `UnseenBound` turns the difference of two counters into
  the size of a set;
- `LossExactCorrect`: a run that shares the queue with nobody counts exactly what
  was lost. With several consumers the messages are processed in any order, so
  `LossInv` says of each that it is in one place at a time and there once: in the
  queue, with one consumer, or processed (`Spread`, `Once`), and that nothing
  but the run's own messages is anywhere. `Apart` is why the last holds: a run
  that is over has left nothing with its consumers, and what they gave back was
  purged when this one began;
- `QuotaCorrect`: the producers' shares, rounded down with the remainder dealt
  to the first ones, add up to the target. `QuotaInv` says that partial sums of
  what the producers have still to send exist and close at the target with what
  the run has sent (`Remaining`), so no recursive sum is needed. That nothing is
  due when everybody is over (`NothingDue`) is shown with `LeastNat`, the
  least-element principle, derived from the library's theorem on well-founded
  minima. It does the work of the induction theorems whose operator parameter
  no backend can instantiate.

### Contracts and gateways (`WalletsProofs`, `GatewayProofs`)

`WalletsProofs`, from `WalletsAssumption` (deposits and parties are finite, a
wallet is nobody's address):

- `WalletsTypeCorrect`: with the rest of the type, that no account is overdrawn.
  The amount of a TON sweep is the caller's, so this rests on the jetton
  contract's refusal (`Payable`);
- `TreasuryCorrect`: each address holds exactly what the sweeps ordered while it
  was the treasury have moved. Not inductive alone, since a message decides who
  is paid long after it was sent: `Recipients` adds that every message under way
  names the treasury of the moment it was ordered;
- `MoneyCorrect`: no step creates or destroys money. The accounts are added up
  with a fold; that it adds, and changes by what one account changes, is again
  shown with `LeastNat`, by induction on the size of the set.

`GatewayProofs`: `GatewayTypeCorrect`, `SweptOnceCorrect`, `NoNonceGapCorrect`
and `GatewayOutlivesChecksCorrect`, from `GatewaysInv`: of a
check's two candidates the pool holds one at a time, and only until its nonce is
executed (`PoolOK`); no nonce is executed twice (`ExecutedOK`); a nonce that a
check has read is the next after those in the pool and stays so while other
checks send theirs (`NonceOK`); a check runs only between start and close of its
gateway, and before the server is up only the checker does (`LifespanOK`).

### Only model-checked

The liveness properties (`CryptoDecided`, `ChargedIsActivated`,
`DirtyIsFlushed`, `RunsEnd`): liveness under fairness is out of the prover's
reach. And the properties of section 5, which do not hold.

## 7. What is not modelled

The transaction hash and deposit address columns, fees and keys. The expiry
worker: it is in no container image's command, and its dependency container is
never initialised, so it cannot expire a row. The TON gateway
(`gateways/crypto/ton.py`), whose method at line 36 is mis-indented: the file is
not valid Python and nothing imports it. `REFUNDED`, which nothing sets.

Of the ratings, bios, photos beyond the first, the bonus for subscribers and the
part of matches in the behavioural score, which move a score the same way as
likes do. The toggle of visibility, which touches one column nobody else writes
(its message says "visible" when the profile has just been hidden). The first
message of a user, which two updates may both insert: one of them fails and the
next one finds the row. The feed's query, which is an assumption about the cards
of `SwipeMatch`.

The metrics of the cache service, whose counters are read by nobody but the
report, the random choice of the load generator (any choice is allowed), rates,
sizes and latencies of the benchmark, gas and rent of the contracts, the scripts
that write reports. The bot's HTTP API, which imports functions that do not
exist and does not start. The online store, whose requests are single
transactions. Generated, vendored and built code.
