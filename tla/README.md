# SignalR.E.A.C.H: verification project

TLA+ models of the parts of SignalR.E.A.C.H in which money, credit and paid
work are at stake, TLC runs over small instances of them, and TLAPS proofs of
the most important facts for every instance. Paths below are relative to the
repository root (`src/` in `PROJECT.json`).

## 1. The system

The repository is a self-hosted AI endpoint ("REACH") and everything around it.

| Part | Where | State it keeps | Operations that change it |
|---|---|---|---|
| Credit ledger | `RCH/service/store.mjs`, `plus-sqlite.mjs` | balances in USD and tokens, debts, their RCH parts, the plan, three tables of holds | reserve, settle, release, mark uncertain; grant; credit |
| Model gateway | `RCH/service/model-gateway.mjs`, `supabase-store.mjs` | the running count, locals of each handler, calls to a remote store | one handler per HTTP request, with an await at every store and model call |
| Payments | `RCH/service/payments/`, webhooks in `server.mjs` | `payments`, `payment_reversals`, plan and balance | record a payment, record a refund or dispute, answer or refuse the notification |
| RCH redemption | `treasury-redemption.mjs`, `redemption.mjs`, `chain-finality.mjs` | `redemptions` | start, submit or replace a hash, verify, credit, the 30-second tick |
| Checkout intents | `server.mjs`, `store.mjs`, `payments/stripe.mjs`, `payments/paypal.mjs` | `subscription_checkouts` | reserve, make or read the provider's page, attach, replace what ended |
| Sign-in | `server.mjs`, `store.mjs`, `email.mjs` | `flows`, `challenges`, `email_challenges`, identities of accounts, `sessions` | ask, prove a wallet or an e-mail, exchange, link, prune |
| API keys, eligibility | `api-keys.mjs`, `eligibility.mjs`, `operator-keys.mjs` | keys | create, revoke, check |
| Postgres twin of the store | `supabase/migrations/*.sql` | the same tables, row locks | the same operations as SQL functions |
| Contracts | `RCH/contracts/*.sol` | redeemed IDs, vesting, sale stock | redeem, buy, withdraw |
| Relay, request path | `server/reachd/chat.py`, `support.py`, `limits.py`, `cache.py` | concurrency gate, circuit breakers, daily budgets, cache; buckets and lockouts | chat and support requests, one thread each |
| Relay, the rest | `server/reachd/*.py` | settings, publishing, analytics, a browser engine | configuration |
| Studio crews | `studio/agent/team-runner.cjs`, `team-links-loop.cjs`, `run-control.cjs`, `agent-net.cjs` | jobs, controls, mail, results of a run | schedule, pause, resume, stop, review, complete |
| Studio message queue | `studio/agent/team-message-queue.cjs`, `studio/main.mjs` | messages of a conversation, runs | judge, steer, launch, cancel, send now, restart |
| Studio, the rest | `studio/` | one agent's conversation, stores, audit chain, windows | tool calls, files, views |
| SimpleRAG panel, VS Code extension, tray, website, installers, scripts | `src/`, `copilot/`, `vscode/`, `SignalREACH-website/`, `docker/`, `tools/` | page and editor state | user interface and packaging |

How they interact. The gateway calls the ledger over the store interface: an
in-process SQLite transaction, or one HTTP call to Postgres that can time out.
Webhooks of Stripe and PayPal, and the redemption tick, add credit to the same
wallets the gateway holds credit from; refunds and disputes take it back while
requests run. A checkout makes the page whose invoice the webhooks record: the
Plus decision looks its intent up. The redemption code reads an Ethereum RPC. The
relay and the Studio are separate programs that share no state with the account
service; in the Studio, the message queue starts, steers and waits for the runs
the crew scheduler executes.

The account service comes first, because that is where a wrong interleaving
costs somebody money and where tests are weakest: the SQLite tests run one
operation after another, and the chain, provider and store mocks answer in
order. What makes each part correct:

* Ledger: no operation mints or loses credit; a period never promises more than
  its requests; credit from redeemed RCH, which opens API access, is really
  there; a key is billed once, in one way; doubtful work is never given back.
* Gateway: every path through `catch` and `finally` leaves the count exact and
  the hold resolved; a metered provider is never paid twice for one key; a late
  store call cannot hit the next request's hold; every HTTP request ends.
* Payments: the balance is what the rows say, whatever the order, the number
  and the split of notifications; a late invoice shortens nothing; a period
  that was returned in full gives no access; no refund is lost.
* Redemption: credit only for what is final on the canonical chain; a hash that
  may still pay is never displaced; what is final is credited in the end.

* Checkout: one subscription at a time can charge an account; what was paid is
  credited to its plan.
* Sign-in: an identity never changes hands; a session belongs to the account that
  proved itself; only the latest wallet challenge, and the latest of our own codes,
  proves; the limits hold for our own codes (for Supabase's neither does, section 6).
* Relay: the gate counts the slots in use, whichever way a request ends; a breaker
  hears only of its own upstream; what a budget counts exceeds it by what is in flight
  only (it does not count streams, section 6).
* Crews: no paid turn begins on a paused control; a paused turn goes on; the run
  ends, not before helpers are done, and with a result of everybody unless cancelling
  a helper threw (section 6).
* Message queue: a message is delivered once, or stays, and again only if it stayed
  stored when it was delivered; a restart pays nothing.

Hard behaviours are listed one by one, at their line, in `PROJECT.json`
("hazards"), with the properties that watch them.

## 2. Modules

| Module | What it models |
|---|---|
| `Credit` | arithmetic of one wallet: debit with the RCH trigger, refund, deposit that repays debt first, reversal, measured settlement |
| `Holds` | abstract specification: the life of one (account, key) pair |
| `Ledger` | `AccountStore` and `PlusSqliteLedger`: 13 request and usage operations, grants, plan end, arriving and reversed credit; implements `Holds` |
| `CreditProofs` | lemmas about `Credit` and about sums over finite sets |
| `LedgerProofs` | theorems about `Ledger` |
| `Gateway` | concurrent handlers over a store that keeps the promise of `Holds` and a wire that delays, answers late or loses calls |
| `GatewayProofs` | theorems about `Gateway` |
| `Payments` | webhooks, decisions and the two `apply` functions for one account |
| `PaymentsProofs` | theorems about `Payments`, `Redemption` and `Chain` |
| `Chain` | external: the Ethereum chain as an RPC shows it |
| `Redemption` | submissions and the tick over `Chain` |
| `Checkout` | the handler of a subscription checkout in several tabs, the account's intent, the hosted pages, invoices and plan |
| `CheckoutProofs` | theorems about `Checkout` |
| `SignIn` | flows, wallet challenges, e-mailed codes with their limits, identities, sessions, pruning |
| `SignInProofs` | theorems about `SignIn` |
| `Relay` | request threads over the gate, breakers, fallbacks, cache and budgets |
| `RelayProofs` | theorems about `Relay` |
| `Team` | one crew run: scheduler, members, their controls, one helper, the user's buttons |
| `TeamQueue` | the message queue of a conversation and the runs it meets |
| `StudioProofs` | theorems about `Team` and `TeamQueue` |
| `MCLedger`, `MCGateway`, `MCPayments`, `MCRedemption`, `MCCheckout`, `MCSignIn`, `MCRelay`, `MCTeam`, `MCTeamQueue` | small instances for TLC |

### Correspondence with the code

**Ledger.** One transaction of the store is one action. An operation that
throws or replays a stored answer changes nothing and is a stuttering step. A
row of `request_reservations`, `reservations` and `plus_requests` is
`req[a][k]`, `res[a][k]` and `plus[a][k]`; the columns kept are those some
later decision reads. `usd[a]` and `tok[a]` are the columns `usd_prepaid`,
`usd_debt`, `rch_usd` and `prepaid`, `debt`, `rch_tokens`. The database trigger
`consume_rch_credit` is part of every debit (`Spend`). Time appears as
`plan[a].live`. `PLUS` requests are asked first, in the order of the code.
The three tables are compared on every reservation as the code compares them.

**Gateway.** Each `await` of `handle` is a value of `pc`: `reserving`,
`upstream`, `settling`, `resolving`. `dispatched` and `attempted` are the
code's flags (`dispatched`, `settlementAttempted`), `active` its running count.
`Fail` is the `catch` block, `Uncount` the `finally` block. A store call is an
element of `wire` until it is applied (`StoreOpens`, ...), refused or lost;
`GiveUp` is the adapter's timeout and may come before or after the call is
applied. `Crash` is a restart. `holder`, `sent` and `troubled` are history.

**Payments.** A provider object is in `outbox` until the provider has seen an
acknowledgement; an acknowledgement may be lost, so a recorded notification
comes again. `BasicDecision`, `PlusDecision` and `TopUpDecision` keep the order
of the checks in `payments/core.mjs` and `payments/plus.mjs`. `paid[p]` and
`taken[x]` are the `status` (and applied amount) of their rows. `Consume` stands
for requests, `GrantByHand` for the operator's tool.

**Redemption.** `pc[p]` is the await a submission, or the tick, is at;
`job[p]` its locals. `canonical`, `finalized`, `recheck` are the three reads
of `finalizedReceipt`; what follows is the `goal` the reader had. `queue` is the
list the tick read at its start, so each entry may be stale when its turn comes.
Burn mode judges the receipt before it looks at finality, treasury mode looks
at finality, judges, and looks again, as in `redemption.mjs` and
`treasury-redemption.mjs`.

**Checkout.** `pc[t]` is the await a tab's request is at. `row` is the account's row
of `subscription_checkouts`; `Kept` is the condition under which
`reserveSubscriptionCheckout` returns it instead of replacing it. The ID of an
intent is the idempotency key of its page, so `page[i]` is what the provider made
for intent `i`, whoever asked first, and `ref` is `None` or `i`. `Ended` is what
`canReplaceCheckoutSession` and `readCheckout` accept; `asking`, `reading` and
`rechecking` are the awaits before it, and `again` the second round. `Fail` loses a
call or stops the service at any await, with or without the page made. Pages are
paid, renewed and cancelled by the customer at any time, and the invoices wait in
`invoices`; `Notify` is the webhook with the decision of Basic or Plus and, for
Plus, the look-up `PlusSqliteLedger.checkout` (`Binds`). The price look-up of a Plus
checkout, an await that only refuses, is folded into `Start`; the plan it looked at
before is looked at again by `Reserve`. Stripe keeps idempotency keys for a day and
PayPal for three, longer than the clock runs.

**Sign-in.** One store transaction is one action; a page's request that awaits a check
between two of them is `page[p]`: `signing` (`verifyWallet`), `checking`
(`mailer.verifyCode` of Supabase), `stored` (between `createEmailChallenge` and
`verifyEmailChallenge`). `flow`, `asked` and `code` are the rows of `flows`,
`challenges` and `email_challenges`; a Supabase code is `pending` while only the map
`supabaseEmail` knows it, and gets its row, and meets the limits, when it was entered.
The histories `newest` and `issued` record what was asked for and sent, of either kind
(`Request`), whether or not a row was made. `wallet` and `email` are the columns of
`accounts`. `link-wallet` and `link-email` open a flow bound to the session's account
(`LinkFlow`). A row may lapse at any time (`Lapse`); only the e-mail limits read the
clock. `proved`, `used`, `newest`, `issued` and `exchanged` are history.

**Relay.** `at[r]` is the stage of thread `r`: `admitted` after the budget check,
`waiting` at the gate, `calling` its upstream, `falling` back when it cannot be
reached, `reading` an answer without a slot (a non-streamed answer gives its slot back
first), `probing` and `streaming` a stream, `retelling` a stream to the fallback,
`supporting` in `support.execute`. `circuit[r]` is the breaker the thread will report
to, which the code changes in two functions. `lost` is history: the slots that no
thread gives back any more (section 6). A stream ends without being counted for its
key (`StreamEnds`), as in the code. In `Reading` an upstream or a client decides how
long a thread stays. `active` is the gate's count, with the `max(0, ..)` of the code.

**Team.** `stage[a]` is where an agent's job is: queued (`new`, `mail`, `queued`), at
one of the four gates where the driver waits while its control is paused, `running` a
turn, in `review`, or done. What a promise reaction does is a micro step; replies,
timers and the user's clicks happen only when none is pending (`Pending`), as on the
event loop. `sched` is the await of `_linksRun` and `run`. One model turn, with its
tool calls, is one step from `running` to `turned`, and a message read within it is
`Receive`. A message of another agent (`Send`), of the user (`Tell`) or carried by the
Nurse (`Handoff`) wakes a member; the first two queue a helper that had completed once
more (`again`, `team-message.cjs:115-135`), `Send` also after a completion. A handoff
of the user wakes a member past `MaxTurns`, by one job each
(`team-links-loop.cjs:120-123`); `guided` counts them. `broken` says what a cancelled
helper broke: `CloseFails` is the throw out of `_linksRun`.

**TeamQueue.** `queue` and `item` are the stored queue and its messages (`state`,
`hold`, the run they were written for); its ids are unique, so a message has one
place; `routing` are the calls of `route` that have not gone on; `launching` and
`launched` the await of `drain`; `starting` the awaits of `runTeam`. A message is
delivered when the code saved it in the history, and removed from the queue by a later
save: between the two Studio may end (`Restart` while a dispatch returns,
`DiesApplying`) or the first save may throw after its effect (`RegisterFails`, which
leaves a registered run, `dead`, that never begins). `kept` counts the deliveries
after which the message stayed stored. `RouteFails` is the `.catch` of `route`.
`Restart` keeps the store and forgets the rest.

Definitions whose comment begins with "Slip:" are not part of the model. Each is
a plausible programming error for the definition after it (a dropped check, an
off-by-one), used to show that a property notices it.

## 3. Runs

| Run | Question | Instance | Result |
|---|---|---|---|
| `ledger` | do the three billing modes keep their promises together? | 1 account, 2 keys, 2 grants, a limit of 1, holds of 2, usage below and above the hold, reversals | `RchBacked`, `PeriodWithinLimit`, `PlanAllowanceBounded`, `UsdConserved`, `PromiseKept` hold |
| `ledger_reversal` | is debt always credit that was spent? | units of 1 | `DebtIsSpentCredit` is violated (section 6) |
| `gateway` | lost, late and unanswered store calls, aborts, crashes | 2 requests, a metered and a per-request key, room for 1, fairness | `NoStrayCall`, `OneGeneration`, `CapacityExact`, `EndedIsResolved`, `EveryRequestEnds` hold |
| `payments` | notifications in any order and number | a top-up, 2 Basic and 2 Plus invoices, 4 reversals, a plan by hand | `TypeOK`, `CreditMatchesRows`, `TopUpNet`, `AcknowledgedIsRecorded`, `FullReversalEnds`, `PaidPeriodKept` hold |
| `redemption` | two submissions and the tick on a reorganizing chain; is a final redemption credited? | treasury mode, 3 transactions (one useless), a block hash, 1 outage or restart, fairness | `CreditedIsFinal`, `NoBurnDiscarded`, `FinalIsCredited` hold |
| `checkout` | can two tabs make the account pay twice? | 2 tabs, Basic, Plus and PayPal, 2 intents, intents and periods of 2, times 0 to 5, Plus on offer or not | `OneSubscriptionCharges`, `NoPaymentWasted` hold |
| `sign_in` | whose session is it, whatever is proved in whichever order? | 2 flows, 2 wallets, an address, 2 challenges and 2 codes, 2 pages, limits of 1 and 2 codes, times 0 to 2 | `SessionIsProved`, `CodesRationed`, `IdentityIsFinal`, `ReplacedProofIsVoid` hold |
| `relay` | do gate, breakers and budgets stay exact on every path? | 3 threads, 2 slots, a free alias that falls back to the bridge, 4 kinds of request, fairness | `SlotsExact`, `OvershootBounded`, `BreakerJudgesItsOwn`, `SlotsComeBack` hold |
| `team` | the user's clicks and messages against the scheduler | 2 members, a helper, 2 slots, a wake-up, a review and a message of the user | `TypeOK`, `SlotsRespected`, `InterruptionIsResumed`, `CompletionIsAnswered`, `PauseHolds` hold |
| `team_live` | does a run end that nobody leaves paused, and with nobody at work? | the same without reviews, a message of an agent instead of the user's, fairness | `EndedIsQuiet`, `RunEnds` hold |
| `team_spin` | does the scheduler come to rest? | 1 member and the helper | `SchedulerRests` is violated (section 6) |
| `team_queue` | are messages lost, delivered twice or paid for by a restart? | 2 messages, 3 runs, 1 restart or failed write | `QueueTypeOK`, `Accounted`, `RecoveryPaysNothing`, `HeadIsServed` hold |

The type invariants of `Ledger`, `Gateway`, `Redemption`, `Relay`, `Checkout` and
`SignIn` are proved for every instance (section 4) and not checked again.

### Bounds, and why they are enough

* One account: no operation of the ledger or of payments reads two accounts.
* Two keys: every interaction between holds is pairwise (the last place of a
  period, the last credit, the same grant); a third key only repeats it.
* Two grants: a hold of an older plan settled under a newer one.
* Amounts up to 3 with a ceiling of 2 or 3: below, at and above a hold; a credit
  that repays a debt in part; a balance at its ceiling.
* Gateway: two requests make two attempts at one key, or one at each, and room for
  one makes the limit bite. A crash or a retry uses a request up.
* Payments: the reversals of the top-up exceed it together; two Basic invoices
  arrive in either order, one is refunded in two parts, and two Plus
  subscriptions collide. `MaxTime` bounds the clock and `MaxConsumed` the use of
  credit.
* Redemption: a block that is mined and orphaned, and another hash that takes its
  transaction up, shows each order of a reorganization and a read. A hash is never
  mined twice. `MaxOutages` bounds failed calls and restarts. Burn mode, several rows
  and an RPC that remembers orphans are in the model and covered by `PaymentsProofs`,
  which bounds nothing.
* Checkout: two tabs race over one intent; `MaxIntents` of 2 gives a page and its
  replacement; `MaxTime` of 5 lets an intent expire (2), its page be paid late, the
  period (2) pass, and a second page be made and paid. The proofs have no bounds.
* Sign-in: two flows compete for an identity or for the limits; with two challenges or
  codes one replaces the other; two pages let one prove while the other waits. Two
  wallets and an address give an account both kinds of identity; `Attempts` is 2. With
  a window of 2, `MaxTime` of 2 lets a code leave its window. Two codes meet the
  cooldown and the limit of an address; that of the whole service takes more codes
  than the run has, and is left to the proof.
* Relay: three threads for two slots make one wait; one failure opens a breaker
  (`Threshold`), one retry, one token of budget: the next failure, attempt or token
  repeats it.
* Team: two members and a helper for two slots make each of them wait for another;
  `MaxTurns` of 2 is one wake-up, `MaxCycles` one review, `Handoffs` one message of an
  agent, `Guidance` one of the user, which the code does not bound. Members are
  interchangeable. `team` has the message of the user, which reaches a member and a
  helper like that of an agent, and `team_live` that of an agent, which may come after
  a completion. `team_live` has no reviews, which end by their own budget.
* TeamQueue: two messages have an order and can overtake; three runs are one that
  is replaced, one launched and one started by hand; `MaxFaults` is 1:
  a restart, or a write that fails.

`CHECK_DEADLOCK FALSE` is set in every run, since each may stop legitimately:
the keys, grants, requests, provider objects or block hashes of the instance are
used up, and a system at rest has nothing to do.

### Fairness

`gateway`: a handler that can run does (`Continue`); a fetch to a model ends,
because the caller's disconnect and the operator's deadline abort it
(`UpstreamEnds`); a store call is answered or `AbortSignal.timeout` fires
(`GiveUp`). Nothing is assumed of the store itself.

`redemption`: the interval timer fires again and a pass that has begun goes on
(one weak-fairness conjunct for the tick). Nothing is assumed of clients, of
the chain, or of finality. Failed calls and restarts are bounded: a store or RPC
that fails for ever credits nothing, and the tick prunes sign-in rows in the
same `try`, so a permanent error there would stop it as well.

`relay`: a thread that is not in a read goes on (weak fairness of its other steps):
the gate's wait, `support.execute` and the writes to clients have timeouts or bounds
in the code. Nothing is assumed of reads: their timeouts are for one read each, a
stream has no limit ("There is no timeout", `handler.py:1409`), and the browser
engine's chat none at all (`chat.py:493`), so an upstream that trickles holds its slot
for as long as it likes. `SlotsComeBack` says in its premise that none keeps its slot
so for ever.

`team_live`: the event loop runs (`MicroStep`); a provider call and a tool time out,
and the user answers questions (`Answers`); the grace timer fires (`GraceOver`). The last
two are strong, because a click of the user makes micro steps pending, which
disables them for a moment. Nothing forces the user to resume anything: `RunEnds`
says so in its premise.

## 4. Theorems

All hold for every value of the constants under the named assumptions of the modules
(`AmountsAssumption`, `NamesAssumption`, `ChainAssumption`, `RedemptionAssumption`,
`RelayAssumption`, `CheckoutAssumption`, `GatewayAssumption`, `PaymentsAssumption`,
`SignInAssumption`, `TeamAssumption`, `TeamQueueAssumption`): amounts are natural
numbers, holds and credits are positive, an operator grants plans of the known kinds,
the placeholder values are not members of the sets they stand beside, and the sets of
keys, threads, tabs and codes are finite.

* `LedgerProofs!TypeCorrect`. Balances, debts and RCH parts stay natural and a
  period's count never passes the limit. The subtractions need the guards
  (credit is sufficient, the plan's tokens are sufficient) and lemmas on
  `Credit` (`CreditProofs`: `SpendWallet`, `ReturnWallet`, `DepositWallet`,
  `TakeBackWallet`, `SettleUsdWallet`).
* `LedgerProofs!ProvenanceKept`. `RchBacked` is not inductive alone: a release
  returns the RCH part recorded in the row, so the invariant (`ProvenanceInv`)
  also says that a row records at most as much RCH as it took (`HoldsBacked`).
* `LedgerProofs!PeriodBounded`. By the cardinality of the set of open included
  rows: a reservation adds one when `Remaining > 0`, a settlement moves one from
  running to completed. A completion may count in an older period than the
  current one, so `PeriodInv` also says that every included row names a grant.
* `LedgerProofs!OneTable` and `LedgerProofs!LedgerKeepsPromise`. The ledger
  implements `Holds` under `HoldStatus`; the refinement needs `OneTablePerKey`,
  without which a step in one table would be hidden by another.
* `PaymentsProofs!OnlyFinalIsCredited`, `OnlyUselessIsReplaced` and
  `RedemptionTypeCorrect`, all from one inductive invariant, `SafeInv` (theorem
  `Safe`). A handler acts on what it read several awaits ago, so the invariant says
  for every place of a handler what its reads still mean: a final block stays final,
  since no reorganization goes below the tag (`FinalStays`); what a receipt was found
  to hold is a fact about its block (`EvidenceHeld`); and the hash being verified is
  the row's, or is a final transaction that redeems nothing (`CurrentOrUseless`). The
  last case cannot reach the crediting step, because a transaction is canonical in one
  block only (`CreditSound`). The proof has one lemma for each kind of step and one,
  `JobKept`, for everybody who waits. It covers burn and treasury mode, lagging RPCs,
  restarts and failures at once; the runs could only take these one or two at a time.

* `RelayProofs!SlotsCounted`, `BreakersJudgeTheirOwn`, `TypeCorrect`, from
  `IInv == TypeOK /\ Calls /\ SlotsExact`. The type of `active` and `lost` needs the
  exact count (a slot lost is a slot held until then), and a breaker's report
  needs `Calls`: a thread reports to the breaker of the alias it called.
* `RelayProofs!OvershootIsBounded`. The bound of the property is not inductive: it
  follows from `Headroom`, spent + most * (threads in flight) < limit + most * (all
  threads), where a thread is in flight from the budget check to the count of its
  answer. It bounds what the budget counts; streams are not counted (section 6). A
  refused or failed request only returns headroom.
* `CheckoutProofs!OneCharges`, `NothingIsWasted` and `TypeCorrect`, all from
  `Invariant`. The heart is `OthersEnded`: every intent but the present one
  has ended, since the one way to replace an intent is the ID that was found to
  have ended (`Held`), and what has ended stays so (`EndedStays`), which is also why
  the answer may be used after an await. What charges, and what was billed for a
  running period, has not ended, so it is the present intent, and its page
  was stored before it was shown (`StoredFirst`).

* `GatewayProofs!NoStrayCalls`, `GeneratesOnce`, `CountIsExact`, `EndedAreResolved`
  and `TypeCorrect`. A call may be on the wire long after its handler gave up, so
  the invariant is about the wire: calls that resolve a hold are under way only for
  requests that own it (`Owns`); a release is the only call of its request, so
  when the row is free again nothing older can hit it; and while a request's own
  reserve call is under way it is not yet the holder. `MeteredOnce` adds that a
  metered key that was dispatched is never free again. The count is the
  cardinality of the set of running requests.
* `SignInProofs!SessionsAreProved`, `IdentitiesAreFinal`, `OnlyLatestProves`,
  `CodesAreRationed` and `TypeCorrect`. The invariant: identities are held by one
  account, which keeps the one it was created with (`Identities`); a flow's account
  holds all that was proved on it (`Bound`); an open challenge or code is its flow's
  latest; and while the service sends its own codes, every one that is still in the
  window has its row (`Counted`). From this the rows that a limit counts are at least
  as many as the codes it is about, by an injection.
* `PaymentsProofs!NothingIsLost`, `PlansArePaid`, `BalanceIsExplained`, `RefundsAreExact`,
  `ReturnedGivesNothing`, `PeriodsAreKept` and `TypeCorrect`. The invariant: a
  reversal's row comes after its payment's and without a row nothing was taken
  (`RowsInOrder`); a plan not by hand is the one an applied payment granted
  (`PlanIsPaid`); the balance is the sum of the rows. A notification writes one row, so
  each of the sums it is part of changes by one summand (`SumsAfterRow`,
  `RefundsAfterRow`); the rest is what the decisions compute from those sums. That a
  period is kept needs `PlanIsPaid`: a reversal of another payment finds another
  version.
* `LedgerProofs!UsdIsConserved` and `AllowanceBounded`, with the same sums. For the
  first each operation moves one wallet by what it changes in one row; the settlement
  above the hold and into debt is the case that needs arithmetic. For the second the
  set of open holds of the current grant (`Drawn`) changes together with what is left
  of it, and a grant that is new is drawn on by no hold yet.
* `LedgerProofs!OutcomesAreFinal` says what the abstract specification is good for: a
  charged key is final in all three tables. `Gateway` takes its store's actions from
  `Holds`, which `Ledger` implements.
* The lemmas these rest on are in `CreditProofs`: `SumChanged` and those before it
  (`SumPicked`, `SumWithout`, `SumSame`). A sum of the community modules is a fold,
  defined by recursion over sets; the induction theorems of the library cannot be used
  (they take an operator). The lemmas go by the least counterexample instead: if a sum
  were wrong for some finite set, then for one of least cardinality (`LeastSet`, from
  `WFMin` on the naturals), whose fold is one step from a smaller set.
* `StudioProofs` on `Team`: `TypeCorrect`, `PausesHold`, `RunsEndQuietly`,
  `SlotsSuffice`, `CompletionsAreAnswered`, `InterruptionsAreResumed`. The type
  invariant needs `StagesFit` (a member waits only for a turn it has left, or for one
  that a handoff of the user gives it: while one is in its inbox, its turns are fewer
  than `MaxTurns` + `guided`). `Phases` says where the scheduler is and who can no
  longer be at work then: nobody once it is quiet, all members with a result once it
  no longer accepts, unless cancelling a helper threw (`broken`), which only happens
  in a run that was declared complete. A slot is counted by the cardinality of the
  agents at work, to which each way of admitting adds no more than is free (`Room`).
  `CutOff` says that whoever is cut off was stopped, superseded or paused, which is
  why the driver of a paused one waits instead of ending.
* `StudioProofs` on `TeamQueue`: `QueueTypeCorrect`, `MessagesAreAccounted`,
  `RecoveryIsFree`, `TheHeadIsServed`, from `QueueInv`. Its parts: a dispatch and the
  start of its run belong together, and only the run a message was written for can
  have taken it back meanwhile (`Launches`); a message is in one place (`Placed`);
  what the Nurse carries is queued, being steered, and for a run that has not finished
  (`Guided`); what a queued message waits for exists, be it a judgement, a packet or a
  launch (`Awaited`); what a restart found stays held back (`HeldSince`); and the head
  was looked at whenever it could have become free (`HeadSeen`). Deliveries are
  counted against `kept`: a message that is still stored was delivered as often as it
  was kept, or is being launched or steered once more. `QueueLaunches` is the step
  shared by the four callers of `drain`.

With these every invariant and every safety property of an action that a run checks is
proved for every instance, and so is the refinement. Model-checked only are the liveness
properties (`EveryRequestEnds`, `FinalIsCredited`, `SlotsComeBack`, `RunEnds`), which are
out of reach of TLAPS, and the two properties that the code violates.

## 5. What is left out, and why

* Request parsing, prices, streaming and the model catalog in the gateway; the
  signature checks and event mapping of the providers; the call data, quotes and
  configuration checks of redemption: data on which no property depends. What a
  rotated quote signer does is in section 6.
* Chains that count confirmations instead of a finalized tag.
* Checkout: top-up pages, which keep no intent; the window after which PayPal
  forgets a key (the code refuses 71 hours after expiry).
* Relay: the per-address and global buckets and the lockout table, which only
  refuse before a slot is taken; content filters; the browser engine.
* Team: the order of the job queue, the Nurse's judgement of a message (in
  `TeamQueue`), more than one helper, `maxRounds`; and a message to an unpaused helper
  that is in review, for which the code makes a second driver
  (`team-message.cjs:168`). The inside of a turn (`agent-loop.cjs`) is one step.
* Message queue: of the saves that may throw, those of `runTeam` and `route` are modelled,
  those of `drain` (lines 97-102) are not.
* Sign-in: cryptography (a signature or code is right or wrong), the limit per
  connection and the sign-up signals, which only refuse or record. API keys and
  eligibility: single transactions over one table.
* The Postgres twin: same operations under row locks. `Gateway` already treats
  the store as remote.
* The parts of section 1 without a module: see the status and the note of each in
  `PROJECT.json`.

## 6. Where the code and its documents differ

`ledger_reversal`: `RCH/payments.md` says of a reversed top-up "credit already
spent becomes debt". The code turns into debt whatever the free balance cannot
cover, also credit that a running request merely holds. If that request is
released, the hold returns to the balance and the debt stays: the account has
credit, has debt, was charged nothing, and every paid request is refused until
the next deposit. TLC's trace: top-up of 1, reserve 1, refund 1, release.

`team_spin`: `team-links-loop.cjs:293` says "Await already-paid work (event-driven, no
polling)". With the crew paused and work queued, or with a paused helper, the loop at
lines 303-305 goes round without awaiting anything that can happen, in
microtasks for ever, and the main process stops answering.

Met while modelling, in the models as the code has them, without a run of their own. The
properties of the runs leave these cases out, and say so:

* `chat.py:117-120` says a key that is over its allowance "should not buy another
  completion first: that is the difference between a budget and a bill". A streamed
  answer returns at line 1182, before the count of line 1292, so a key that streams is
  refused nothing and overspends without bound. `OvershootBounded` bounds what the
  budget counts.
* A test says "Gate slot MUST be released even on streaming request failure"
  (`tests/test_reachd.py:1175`). A stream that already fell back when it connected
  (lines 519-538), and whose fallback gives no answer, keeps its slot: `chat.py:815`
  gives it back only `if not fallback_used`, and `json.loads` at line 834 then raises
  for a body without SSE lines. In `Relay` the slot goes to `lost`: `SlotsExact`
  counts such slots, and `SlotsComeBack` says that the relay frees up unless all are
  lost.
* `email-sign-in.md:15-17` says "Requesting a new code cancels the previous one", and
  names the limits: "one code a minute and five an hour per address"; "A refused
  request sends nothing". With codes from Supabase a request makes no row:
  `server.mjs:251` keeps every code that was asked for, so a code for one address
  still proves it after the flow asked for another, and line 250 sends codes without a
  look at the limits, which meet a code only when it was entered.
  `ReplacedProofIsVoid` and `CodesRationed` are about wallet challenges and our own
  codes.
* `team-links-loop.cjs:41` says that a completion "is reported as successful team
  completion". `agent-net.cjs:387` names an undeclared variable when it cancels a
  queued helper. If one is queued when a member completes the run, the throw leaves
  `_harvest` and the member counts as stalled; if a message queued a finished helper
  again after the completion, it leaves `_linksRun` and the run ends as done with no
  results. `CompletionIsAnswered` and `EndedIsQuiet` except these runs (`broken`) and
  no others.
* A test says guidance "is delivered once and removed only after application"
  (`studio/test/team-message-queue.test.cjs:28`). The history and the queue are two files:
  where Studio dies between the two saves, or the first throws after it wrote, the message
  is in the history and still queued, and the next launch, or after a restart "Send now",
  delivers it again. `Accounted` allows one more delivery for each such time (`kept`).
* Breaker and budget are checked before the wait for the gate. A fallback is called
  whatever its own breaker says. After a fallback made while connecting gave no
  answer, control may still reach the report of a success (`chat.py:815` to 1168),
  which clears the fallback's breaker: `BreakerJudgesItsOwn` is about whose breaker it
  is, not about what was answered.
* The slot of a non-streamed answer is given back before its body is read.
* `team-runner.cjs:712`: the team's paused flag is recomputed only when a control
  changes, so a crew that works again may still count as paused.
* `team-runner.cjs:605`: a stop that comes before the run's stop signal exists does not
  resolve it, so a wait for it goes on.
* `team-links-loop.cjs:51`: the grace after a completion does not end peers that are
  paused or wait, so a completed run waits for them.
* `main.mjs:1531`: `runTeam` looks at the paused run, awaits its endpoint, and stops the
  run even if it was resumed meanwhile. It registers the new run (line 1725) before it
  saves the task (line 1734): if that throws, the dead run blocks the conversation's queue
  until it counts as paused and another takes its place.
* `team-message-queue.cjs:110`: a stopped run that finishes late takes a message back
  that is being launched (`overtaken` in `Accounted`); guidance applied to a run that
  is then stopped counts as delivered; cancelling a blocking head does not drain
  what is behind it (`excused` in `HeadIsServed`).
* `store.mjs:337` answers "Wait for it to expire", but a PayPal checkout after a card
  intent, or without Plus on offer one for another price, is refused for ever: only
  an intent of the same provider is ever replaced. `plus.md` leaves these to operators.
* A right Supabase code entered within a minute of another for the address is refused by
  the cooldown (`store.mjs:473`) although Supabase has consumed it, and wrong codes are
  counted by Supabase and not by the service.
* A release near the ceiling of a balance fails (`store.mjs:301`); a market budget
  counts expired intents (`store.mjs:648`); a transaction dropped by the network has no
  receipt, so its hash can never be replaced (`treasury-redemption.mjs:225`); rotated
  quote signers make an honest earlier transaction unverifiable (line 192). In `Ledger`
  and `Redemption` these are operations that change nothing.

## 7. Plan

Done: `Credit`, `Holds`, `Ledger`; `Gateway`; `Payments`; `Chain`, `Redemption`;
`Checkout`; `SignIn`; `Relay`; `Team`; `TeamQueue`; and the proofs of section 4. What
a next step would take up, most important first:

1. API keys and eligibility.
2. The lock order of the Postgres twin against the same abstract specifications.
3. The inside of a Studio turn: the agent loop, its patch approval, stores written
   by temporary file and rename, the audit chain.
4. The contracts: redeemed IDs, vesting and sale accounting.

## 8. Running

`tlc -config MCLedger.cfg MCLedger` and likewise for the other runs
(`MCLedgerReversal`, `MCTeamLive` and `MCTeamSpin` are configurations of the module
their name begins with), each under four minutes with two workers; `tlapm
LedgerProofs.tla` and likewise for the other proof modules.
