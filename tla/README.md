# A TLA+ development for scoopdope

scoopdope is a learning platform: a NestJS backend (`apps/backend`) on PostgreSQL and Redis, a Next.js frontend
(`apps/frontend`), and Soroban contracts on the Stellar network (`contracts/`) for the BST token, credentials,
governance, grants and a liquidity pool. This directory holds TLA+ modules translated from that code, the TLC
configurations that check them on small instances, and proofs for TLAPS.

Run, in this directory:

    tlc -config MCTokenLedger.cfg MCToken        # any cfg with its MC module, see "Runs"
    tlapm AchievementProofs.tla                  # any module of proofs, see "Proofs"

## Inventory

| Component | State | Operations | What is hard | What makes it correct |
|---|---|---|---|---|
| Token ledger `contracts/token/src/lib.rs` | balances, allowances, supply, burn statistics, lock, admin | SEP-41 operations, `mint_reward` | counter and balances written by separate helpers; the cap shared by five issuers; the lock | supply is the sum of the balances, within the cap; nothing moves without a cause |
| Token vesting, same file | schedules of two generations, a counter per beneficiary | create, claim, modify | rounding, boundary ledgers, the admin moving the end between claims | never more than granted, nothing before the cliff, waiting costs nothing, no schedule is lost |
| Token airdrops `airdrop.rs` | campaigns, claims | create, claim, recover | many claimants of one total; the expiry boundary | never more than the total; what was reported unclaimed stays unclaimed |
| Governance `contracts/governance` | proposals, upgrades, votes, timelocks | propose, vote, execute, approve | one counter and one vote key for two kinds of items; balances that move during a vote | results belong to recorded votes, are final, and only majorities take effect |
| Liquidity pool `contracts/liquidity_pool` | reserves, shares | add, remove, swap | every amount is rounded; empty and one-sided pools; negative amounts | nobody's share loses value by what others do |
| Grants `contracts/grants` | grants, milestones | apply, decide, set, release, report | two ways to pay, milestones that are set anew | no more is paid than was set, and only to approved grants |
| Shared contract `contracts/shared` | roles, code history, versions, call records, pause flag, multisig | initialize, upgrade, rollback, migrate, assign, call, pause, sign | history against versions; two definitions of `upgrade`; `initialize` may run again | one history entry per upgrade; what breaks the books is accounted for |
| Enrollments service `apps/backend/src/enrollments` | table `enrollments` | enroll, unenroll, upgradeVersion | awaits between read and write; the on-chain call between two saves; compensation | every row anchored; compensation removes its own row only |
| Waitlist service `waitlist` | table `waitlist_entries` | join, leave, promoteNext on `enrollment.removed` | positions read, then written; removal and compaction apart; stale entries | nobody is overtaken or dropped; positions 1 to n; places exceeded by overlap only |
| Stellar service `stellar` | pending counter, issuer's sequence number, balance cache | submit with retries, shut down | lost answers, one sequence number for concurrent calls, the status of an answer nobody reads | every call counted, applied as often as it was tried at most, reported if accepted |
| Stellar indexer `stellar` | event cursor in the shared cache | poll, handle | overlapping polls, swallowed failures, full pages, a cache filled behind its back | no event passed over; the cache ends up right |
| Credentials, KYC `credentials`, `kyc` | tables without unique key | issue, issueBundle, submit, webhook | three callers, two ledger calls before the row | rows and rewards backed by the ledger, gates respected, one per subject |
| Progress, bundles `progress`, `bundles` | progress, purchases | record, purchase | a chain of awaits that anything may interrupt; saved before it is done | what was completed is certified, what was bought is enrolled |
| Streaks `streaks` | three fields of the user row | recordActivity | midnight between two steps; others save their copy of the row | no streak without its days |
| Certificates `certificates` | table without unique key | issue | compensation of a mint that fails | no pending row stays in the way |
| Webhooks `webhooks` | deliveries, in-memory queue | publish, drain, retry | the timer races the queue and itself; a crash loses the queue; deleted webhooks | at-least-once delivery; every delivery decided |
| Email `email` | queue table | enqueue, process | replicas read the same rows and save copies over each other | at-least-once delivery; every mail decided; twice only for a reason |
| Live sessions `live-sessions` | sessions, reminders sent | create, update, cancel, cron | runs overlap each other and the instructor | a reminder noted was mailed to all |
| Batch jobs `batch` | jobs with counts | create, run, recover | recovery of jobs that still run | every job comes to a verdict that accounts for its items |
| Offline progress `apps/frontend/src/hooks/useSyncProgress.ts` | list in localStorage | record, sync | the list is replaced at the end of a sync | no report is forgotten |
| Authentication, users `auth`, `users` | refresh and reset tokens, user row with backup codes | refresh, reset, use a code, ban | check and use apart; stale copies of rows saved | a secret is good once; a ban stays |
| Coupons, payouts, subscriptions | counters, payouts, tiers | check out, run, receive | limits checked before an await, pages that fail, events out of order | limits hold up to the overlap; a payout is for what the period holds |
| Forums, assignments | counters of a post, grades of a submission | vote, answer, review, override | counters and rows saved apart, computed from old rows | counters and grades agree with votes and reviews |
| Certificate, credential metadata, reputation, analytics, buyback, badges, nft, royalty, scholarship contracts; content services; rest of the frontend | registries, rows | CRUD | | not modelled, see below |

The parts meet in few places. Contracts call each other inside one atomic transaction (governance reads token balances
and calls `upgrade` of its targets; grants call `transfer_from`). The backend calls contracts through the Stellar
service, one transaction per call. Backend services share the database, call each other (a report of progress calls the
bundles, credentials and streaks services) and send each other events in one process (`enrollment.removed`,
`progress.completed`); production runs several replicas, so handlers interleave at every await whatever the process.

## Modules

| Module | Models | Builds on |
|---|---|---|
| `TokenLedger` | the SEP-41 core of the token contract | |
| `Token` | vesting and airdrops, and the whole contract's `Spec` | `TokenLedger` |
| `TokenIssuance`, `TokenRefinement` | abstract specification of what a holder relies on; the contract implements it | `Token` |
| `Upgradable` | what `contracts/shared` does to the code, versions and governance of a contract | |
| `Governance` | the governance contract with the token ledger and the contracts it upgrades | `TokenLedger`, `Upgradable` |
| `LiquidityPool`, `Grants` | those contracts | |
| `Contracts` | composition | `Governance`, `LiquidityPool`, `Grants` |
| `Enrollments`, `Waitlist` | the two services, composed in the latter | |
| `Credentials`, `Progress` | `CredentialsService` with `KycService`; `ProgressService` and `BundlesService` calling it | |
| `Streaks`, `Certificates` | those services | |
| `Achievements` | composition: what a report of progress sets off | `Progress`, `Streaks`, `Certificates` |
| `Outbox` | abstract specification: at-least-once delivery | |
| `Webhooks`, `Mail` | those services, each an implementation of `Outbox` | instances of `Outbox` |
| `LiveSessions`, `Batch`, `Indexer`, `OfflineProgress` | those services and the hook | |
| `Delivery` | composition: what reaches others unasked | the six above |
| `LedgerCalls`, `Accounts`, `Commerce`, `Community` | transactions of the Stellar service; auth and users; coupons, payouts and subscriptions; forums and assignments | |
| `Services` | composition | the four above |
| `Sums` | facts about sums over finite sets | |
| `TokenProofs` | theorems about the token contract and its refinement | `TokenRefinement`, `Sums` |
| `GovernanceProofs`, `ContractProofs` | theorems about governance; about the pool, the grants and their composition | `Contracts`, `Sums` |
| `DeliveryProofs`, `AchievementProofs`, `WaitlistProofs`, `ServicesProofs` | theorems about those compositions | `Delivery`, `Achievements`, `Waitlist`, `Services` |
| `MC...` | model values and symmetry for TLC | |

Operators whose comment begins "Faulty variant of" belong to no specification. Each is the definition it precedes with
a plausible mistake, and shows that the property it is paired with in `PROJECT.json` notices it.

Variables that begin their comment with "history" are not in the code: they remember what happened (posts made,
activity, overlaps, faults) so that a property can speak of it, and guard an action only where a bound says so.

### Compositions with a focus

`Contracts`, `Achievements`, `Delivery` and `Services` put modules together that share neither a row nor a call in what
is modelled of them. Their interleavings would multiply the states and show nothing, so a behaviour has a `focus`, the
module that moves; the others stay in their initial state. Each property speaks of one module, except
`QueuesKeepThePromise`, which is one of each queue. Where modules do share state or calls they are truly interleaved:
`Waitlist` with `Enrollments`, `Governance` with `TokenLedger`, `Progress` with `Credentials`.

### Contracts

A Soroban invocation is atomic: a failed assertion, a missing authorisation or a checked operation that overflows
reverts every write. So each entry point is one action, its guards are the assertions of the function and of the
helpers it calls, and `require_auth(a)` means that the action exists for every `a`. Storage keys are variables, named
in the declarations. The ledger sequence number is a variable `ledger` that `CloseLedger` increases. Amounts are
unbounded integers in TLA+, with `I128Max` in the guards where the code uses checked arithmetic on values it does not
bound otherwise.

`Token` has two initial states: `Init` is a contract that was never called, `DeployedInit` one that is initialised.
They differ because `initialize` sets the supply counter to 0 and airdrops can be created and claimed before it. Only
the statements about the supply need `DeployedInit`.

`TokenIssuance` has three steps (`Grant`, `Retire`, `Exchange`) and no entry points. `ImplementsIssuance` says that
mints, rewards, vesting claims and airdrop claims are grants, burns are retirements, both transfers are exchanges and
everything else is a stutter.

`Governance` extends `TokenLedger`, so that the balances read by `vote` are the ledger's, and moves of tokens happen
between any two votes. Vesting and airdrop claims are, for the voter, mints. The call of a target's `upgrade` is the
last step of `execute_upgrade`; if the target refuses, the whole invocation reverts, which is the absence of a step.
The target is a contract of the pattern of `contracts/shared`, module `Upgradable`. The governance contract calls its
one-argument `upgrade`; everything else that changes a target comes from elsewhere and is an intervention: `initialize`
once more, `set_governance`, `upgrade` and `rollback` by the address named there, and the admin's `upgrade` of two
arguments. Anyone can become the admin by `initialize`, so each of them may happen at any time, and `touched` remembers
which kinds did. (The crate has two functions named `upgrade`; the model has both.)

`LiquidityPool` keeps the books as the code does, which moves no tokens yet. Amounts have either sign, because only
`swap` asks for a positive one, and `Quotient` divides towards zero as `i128` does. `borrowers` remembers who provided a
negative amount. The square root of a first provision is
any number that `IsRoot` accepts; that Newton's iteration of the code (`Sqrt`) computes it is an assumption TLC
evaluates for 0 to 1000. `Grants` sees the token contract as a `treasury` that others change at will (`Refund`): the
lesser of the admin's balance and the allowance.

### Backend services

A handler is a record in a function (`task[t]`, `visit[v]`, `call[k]`, ...): `at` names the await it is suspended in,
the other fields are its local variables. One action runs from one await to the next, so every interleaving of the
database statements of several handlers is a behaviour, within a process or between replicas. A handler that throws
becomes idle. One course, student, post, session or user is modelled where several share no state.

`repo.save` writes the entity it is given: an update when a row with its id exists, an insert otherwise; `repo.remove`
deletes by id. This is why a handler that keeps an entity across an await can bring a removed row back, or undo what
another changed. TypeORM's update is two statements: it selects the row and then writes the columns in which the entity
differs from it, so that a save that lands in between leaves columns of both. The submissions of `Community` and the
user's streak (`Streaks`) have both statements as actions, because their properties relate columns that two requests
write; `gradesTorn` and `torn` remember a mixture. Elsewhere a save is one action, since the mixture reaches nothing that
the properties tell apart:

- one column is all that the properties look at, and it is either written or kept: `transactionHash` of an enrollment
  (without upgrades), the reminders of a session, the KYC status, `completedAt` of progress and bundles, a certificate;
- two handlers that hold a copy of the row at a time are exempt already: coupons, posts, users (`Accounts`);
- in the two queues the verdict is one column. Attempts and time of a row may come from another copy, which counts
  attempts that were made as well and falls due as well; only that the attempts of a row stay within the limit, a
  clause of `DeliveryTypeOK`, may fail by four saves of one row that overlap, where the row is tried once more;
- batch jobs and subscriptions are written by `update` of named columns.

 A crash, or a statement the database refuses, is an action of its own (`Abort`,
`CrashWebhooks`, `DropBatch`, ...); what is lost is the handler and its process memory, never the database.

A ledger call either returns once its transaction was applied, or throws, and then it may have been applied all the
same. `Credentials` takes this from `LedgerCalls`, which models how it comes about: the shared sequence number, the
answer that is lost, the retries, the status of the answer that is not looked at. A call of `issueCredential` submits
one transaction whose hash it returns, and before it another one when the fallback had to be used; `onLedger` and
`fallbacks` count them apart.

`completedAt` of an enrollment is set by no code of the repository although bundles and certificates wait for it; the
external actions `MarkCompleted` and `Complete` stand for whoever does.

`Outbox` promises that an item is reported done only if the receiver took it and given up only after `MaxAttempts`
tries; it does not promise that a verdict is final, because a copy in flight may put an item back. Webhooks and mails
both implement it: `QueuesKeepThePromise`, with the refinement mappings `WebhookOutbox` and `MailOutbox`.

## Runs

| Run | Instance | Shows |
|---|---|---|
| `token_ledger` | 2 addresses, amounts 0 to 2, cap 3, one spender, one campaign, 3 ledgers | supply is backed; airdrops and recovery; refinement of `TokenIssuance` |
| `token_vesting` | 1 beneficiary, grants of 3, cap 3, both generations, 6 ledgers, 0 or 3 steps, from deployment on | four statements on vesting |
| `token_lock` (violated) | as above, smaller | one `mint_reward` leaves the lock set |
| `contracts` | 2 holders, 2 items, 3 ledgers, cap 2, 2 interventions; 2 providers, amounts -2 to 5, fee 1/4, reserves to 8; 2 grants of 2 milestones, treasury to 3 | tallies, majorities, finality, single installation through interventions at the target; shares keep their value; grants pay what was set |
| `governance_timelock` (violated) | 1 item | the expiry is what the proposer chose |
| `enrollment_rollback` | 1 user, 3 handlers, no capacity, no crashes | compensation removes its own row only, and all rows end anchored |
| `waitlist_races` | 3 users (2 waiting, 1 enrolling), 2 handlers, 1 place, 1 crash | nobody is overtaken or dropped, however handlers interleave, and promotions that overlap exceed the place by one |
| `waitlist_serial` | 3 users who enroll, join, upgrade, leave and unenroll, 1 handler, 1 place | positions stay 1 to n |
| `enrollment_unanchored` (violated) | as above | a promotion leaves an enrollment that is never anchored |
| `achievements` | 1 bundle of 2 courses, one behind KYC, 2 handlers, 1 fault; 4 midnights; 3 certificate calls | credentials are sound, promises kept, streaks real, no ghost certificates |
| `delivery` | 2 webhooks, a run of the retry timer beside the queue; 2 mails in 2 processes, 2 sweeps, polls, syncs and job runs each; 1 crash or restart each | at-least-once delivery, its four liveness properties, and what overlapping runs cannot lose |
| `services` | 2 requests at a time, 1 that may die | ledger calls accounted, secrets spent once, limits, tallies and grades |

Why these bounds are enough to be interesting:

- Token ledger: two addresses give both a transfer and a transfer to oneself; cap 3 with amounts of 2 makes the cap
  refuse; `I128Max` 4 makes burn statistics overflow; amount 0 is refused everywhere but in `approve`. Two claims of
  2 exceed a campaign of 2, and the campaign may expire at each ledger.
- Vesting: with 3 steps over 4 or 5 ledgers the step duration rounds down to 1, so that all steps complete before the
  end; over 1 or 2 ledgers it is 0. Grants of 3 under a cap of 3 make the claim of the second generation wait for a
  burn, and `I128Max` 6 makes the larger products overflow. A schedule can be modified at every ledger.
- Contracts: two items are one of each kind or two of a kind; a voting end at ledger 1 and a timelock at ledger 2
  leave each boundary on its own; the cap of 2 lets one holder outvote the other after a transfer, of 2 at a time,
  since less decides nothing. Two interventions are every pair of them, such as another governance and its rollback.
  Reserves up to 8 round in every entry point, get unbalanced by swaps, and empty by withdrawals of all shares and
  swaps against a pool without any; a fee of 1/4 is visible at that scale. Amounts of -2 provide
  first, are refused afterwards or withdraw shares from a pool that others have provided to. Two milestones, set three
  times, can be released, reported on, set anew and paid again.
- Enrollment: three slots are an enroll whose anchoring failed, an unenroll and a second enroll: the shortest history in
  which a row other than the failed one stands in the table when the compensation runs.
- Waitlist: two handlers already produce duplicate positions, double shifts and stale entries; `MaxDrift` stops the
  shift of a position below 0, `MaxPosition` a join above 3. Every race of two handlers is in; more add length.
- Achievements: two handlers, two reports, one purchase and one more call of issue reach every overlap of two issues of
  one subject; a bundle of two courses completes in two reports that may overlap; two KYC events approve and then
  reject. A milestone at 2 days is paid, lost and reached again within 5 days.
- Delivery: 2 attempts are a retry and a last attempt; a batch limit of 1 (2 for mails) lets one run starve what is
  behind it, `MaxConcurrent` 1 makes deliveries queue; one webhook may be edited or deleted at any point and one is
  kept; a run of `retryPending`, the queue and a new publication overlap (two such runs beside the queue are only in
  the proof of the refinement, which has any number). Three items in chunks of 2 give a full and a partial chunk,
  and one restart finds a job that is dead, slow or done. Three ledgers with at most two transfers and pages of one
  event make pages end early; two polls pass each other. The clock of the sessions passes both reminder windows.
- Services: 4 attempts as in the code; three calls let a third transaction disturb the retry of the first; the limit of
  a coupon, of reset tokens per hour and of a page are 2 and are each reached and overrun by an overlap; three
  completions over pages of 2, and one that comes late, disappear or enter between pages. Four events of a subscription
  are a checkout, a payment that is late, one that is made, and the end, in any order and more than once.

Bounds are constants that name what they bound, listed with their comments in the modules (`Max...`, and `Beneficiary`,
`Spender`, `StepCount`, `Enroller`, `Joiner`, `Upgrader`, `RowId`, `EntryId`, `EditedHook`). `MaxSupply`, `I128Max`,
`MaxPosts`, `MaxSends`, `MaxConcurrent`, `SweepTake`, `MailTake`, `ChunkSize`, `PageLimit`, `BatchSize`, `MaxUsage`,
`ResetLimit`, `MinimumLiquidity` and the fee are the code's own limits, scaled down; `Attempts` is the code's. Deadlock
is not checked: every system here may rest, because nobody has to call it. Symmetry is used in runs without liveness
properties only, and over handlers, addresses and other values no definition tells apart.

The runs check one type invariant for the token, the contracts and the deliveries. `Waitlist!TypeOK`,
`AchievementsTypeOK`, `ServicesTypeOK` and, for vesting, `CounterMatchesSchedules` hold on the same instances and were
left out of the runs for the sake of what says more; the first and the last one are proved.

### Fairness

Only `Delivery` assumes fairness, and only of what the code schedules itself (`WebhookFairness`, `MailFairness`,
`BatchFairness`, `IndexerFairness`):

- timers fire: `setInterval` of `retryPending`, the mail queue's safety timer, the indexer's interval. Weak fairness is
  enough because the timers call their function whether or not the last call has ended;
- what is awaited ends: a post, a mail or an item is answered, throws or times out, and the save behind it is tried;
- time passes: `nextRetryAt` falls due, the 30 seconds of a cached balance end.

Nothing is assumed of users, chain events, crashes or refused saves; the bounded faults may come at any point. So
`DeliveriesSettle`, `MailsSettle`, `JobsSettle` and `BalanceCacheConverges` hold through them, with the exceptions they
name. The contracts and the other services have no liveness properties: a contract is only ever called by users, and
no handler is obliged to run again after a failure.

## What the properties leave out, on purpose

The code takes few locks, so that much is true only as long as requests do not overlap, or none dies. A property then
says exactly what breaks it, by a history variable, instead of being checked on an instance too small to overlap:

- `CredentialsAreSound` has two rows, or two transactions of either kind, only after an overlap (`contended`) or a
  fault; one of each kind is what a call whose fallback was used leaves without any. That rows and rewards are backed by
  the ledger and all of it is behind the KYC gate holds without exception. `PromisesAreKept` exempts faults:
  `updateProgress` saves a bundle as completed before its credential is issued and never looks at it again.
- `DeliveriesSettle` assumes that fewer rows of deleted webhooks are waiting than a run reads: nobody settles those, and
  a query that returns nothing else starves the rest.
- `NoEventIsSkipped` exempts events whose handler threw and those a full page cut off: the cursor passes them.
- `ReportsSurvive` exempts reports added while a sync runs, which the sync overwrites.
- `JobsSettle` exempts jobs put back by a replica after their verdict, and those of a process that died: they become
  `pending`, a state from which no code picks jobs up.
- `CallsAreAccounted` says that a call is applied twice only after a lost answer, and that a hash may be for a refused
  transaction only if another call of the issuer disturbed it or an answer was lost.
- `OversoldByOverlapOnly` bounds by how many promotions that overlap exceed the places: fewer than there are handlers,
  over any number of promotions. It speaks of the promoted, not of those who enrolled by themselves.
- `UpgradesInstallOnce` says which part of a target's books each kind of intervention breaks: `initialize` once more
  sets the version back, another governance address upgrades and rolls back by itself, the admin's own upgrade leaves
  no history. What none of them breaks is said without exception.
- `SharesKeepTheirValue` exempts, of one clause, pools to which a negative amount was provided: two negative amounts
  have a root, so a first provision of them mints shares and takes from both reserves. From reserves above zero on the
  value of a share does not fall whatever the signs.
- `StreaksAreReal` and the instructor's grade in `TalliesAndGradesAgree` exempt a save that was mixed with another.
- In `LimitsHold` a payout of a run during which completions come and go is for as many as the period held, not for
  which: pages by offset may count one twice in the place of one that came late. The tier clause states what the code
  does with statuses other than `active`, which free the tier for good; no document says what it should be.
- `SecretsAreSpentOnce`, `LimitsHold`, `TalliesAndGradesAgree`, `RemindersAreKept`, `SentOnceAlone` and
  `NoGhostCertificate` name the overlap or the fault after which they do not hold, and bound the damage where there is
  a bound (a limit is exceeded by less than the number of overlapping requests).

Others are restricted by the instance, because the code breaks them otherwise:

- `AnchoredAtRest` is checked without crashes, upgrades and promotions: the first two break it as the code is written,
  the third is the violated run.
- `PositionsAreContiguous` is checked for requests served one at a time. Two promotions at once shift the queue twice;
  and once nobody has position 1, promotions stop.
- Capacity is not claimed of `enroll`, which does not look at it.
- `GrantsAreKept` speaks of the second generation: `create_vesting` replaces a schedule of the first.
- `GrantsPayWhatWasSet` counts what the admin has set, repetitions included: `set_milestone` makes a paid milestone
  payable again.

Behaviour that is in the models and that no property judges, because the repository states no intention: live balances
as voting power let tokens vote twice after a transfer; two approved upgrades of one target execute in either order;
vesting grants are not reserved against the cap, so that claims wait once it is reached; `recover_unclaimed` reports
the same amount as often as it is called; a user who leaves the waitlist during a promotion is enrolled all the same;
`unenroll` during the anchoring is undone by the second save of `enroll`.

## Findings

`PROJECT.json` lists them with their lines. Three have a violated run: the lock of `mint_reward`, the timelock of
upgrades, and promotions that are not anchored. The others were met while translating and need no run: capacity that
`enroll` ignores; `rollback` that governance cannot call; certificates that wait for a field nobody sets, whose mint
calls a method that does not exist, and whose table lacks the unique constraint a comment relies on; the status of
`sendTransaction` that is not looked at; four attempts where three are documented; `mint_reward` called with two of its
three arguments; the referrer paid at every repeated report; learning paths that nothing completes; the minimum
liquidity that the pool does not keep; the second release of a grant that its status forbids; and milestones paid twice
after being set anew.

## Proofs

Theorems hold for all constants that satisfy the named assumptions of the modules, which TLC evaluates in the runs. The
assumptions say what a running system gives: limits are natural numbers (`ResetLimit` and `Attempts` not 0), windows of
a session are in order, and the addresses, providers, milestones, callers, requests, buyers and users are finite sets,
of any size. Every invariant and every action property that a passing run checks is stated by a theorem;
`PROJECT.json` lists them under "theorems".

A component's proof has the same parts everywhere: an inductive invariant, a lemma that the initial states satisfy it,
a lemma per action that a step keeps it, one that the property follows, and a theorem that joins them for the
specification. The invariants were checked by TLC on the instances of the runs before they were proved. What each adds
to the property is what a step needs to know and no property says.

`TokenProofs`: vesting, airdrops, types, supply and refinement of the token contract. `IInv` is the type invariant
with `VestingInv` and `AirdropInv`:

- every schedule has `start <= cliff < end`, `start` not after the current ledger and a positive total, so that the
  divisors are positive and the vested part lies between 0 and the total;
- schedules exist below their counter only, so that `create_vesting_v2` writes to a free key;
- claims imply that the cliff is past, which survives `modify_vesting_v2` because the cliff is never modified;
- campaigns exist below the campaign counter only, so that a new one replaces none; and a campaign that was reported
  as recovered has expired, which is what makes its claimed amount final.

Monotonic vesting rests on lemmas about integer division: a quotient is monotonic in its numerator and at most the
total when the part is at most the whole. `GrantsAreNeverLost` is an action property from the same invariant.
`SupplyStaysBacked` and `ImplementsIssuanceSpec` speak of the sum of the balances. `Sums` shows what that needs of
`MapThenSumSet`: a sum changes by what one entry changes. Its two inductions, over the size of subsets and over the
subsets, are stated with sets and well-founded minima, because an induction theorem over predicates cannot be used.

`GovernanceProofs`: all four statements about the governance contract. Ids of items and of votes are below the one
counter, so that an item starts without ballots; proposals and upgrades are apart, so that a key of a vote belongs to one
item; an expiry is the one its upgrade was proposed with, and later than the end of the vote. `TalliesMatchBallots`
counts ballots by the cardinality theorems, `UpgradesInstallOnce` relates the history, version and code of a target to
the upgrades that were executed, as far as `touched` lets it. `VerdictsAreFinal` is the action property from the same
invariant.

`ContractProofs`: the pool and the grants, alone and in `Contracts`. Each entry point of the pool divides once per
amount, downwards; the lemmas show that reserve times shares does not fall for a provision and a withdrawal, nor the
product of the reserves for a swap, and multiply the two sides. Amounts are any integers and `Quotient` rounds towards
zero; a case is a sign. The invariant `PoolBooks` has two parts: `SharesAddUp`, the total is the sum of the providers'
shares, which holds whatever was provided and from which the types follow, and `Solid`, reserves behind shares are
above zero and the square of the total is within their product, as long as there are no `borrowers`. `SharesAreSafe`
follows from both. `GrantsAreCovered` is about a sum again: what a grant paid and what its open milestones promise.
Releasing moves an amount from one side to the other, setting a milestone adds to both what was promised and what is due.

`DeliveryProofs`: the invariants of the six delivering services and the refinement of `Outbox`.

- Indexer: what a poll has read is all there was up to the ledger it will move the cursor to (`PollIsHonest`).
- Offline progress: a sync that nothing interfered with is alone, and every report on the list was posted, is on the
  copy it works through, or among those it puts back.
- Live sessions: every copy of the row, in a sweep or in a request, lists only labels mailed to all; without a race
  there is one run, and it has mailed only those it has passed.
- Batch: counts of a run add up to the items it has passed; a verdict is the last word of its run.
- Mail and webhooks: a row, in the table or in any stale copy, claims no attempt that was not made and no success that
  was not one, and gives up only after all attempts. Saving such a copy over a newer row is a step of `Outbox`, which
  is why both queues implement it whatever their runs overwrite. `MailsArriveOnce` adds that an undisturbed mail has
  one copy, and the row or that copy says whether it has arrived.

`AchievementProofs`: streaks, credentials and certificates, for any number of overlapping requests. `StreakInv` says of
every copy of the row that each of its days is in the history and not to come; activity and time only grow, so that a
copy may be saved at any time; and its last day is one of activity even where columns were mixed. `CredentialInv` has
three parts:

- `Typed`: which fields a handler has is determined by where it is, which most steps need;
- `SoundInv`: a handler past the transaction of its hash leaves it behind, and one let through the gate was approved
  (`Known`); as long as one handler at a time works on a subject and nothing fails, the number of its transactions and
  rows is known exactly from where that handler is (`Alone`, `Exact`);
- `PromiseInv`: while handlers run, a promise is not kept but owed. A purchased bundle is enrolled or a handler has the
  course on its list; a completed bundle or course has its row or a handler is on its way to it. Each step either keeps
  a promise or hands it to the same handler's next state (`Handoff`). A credential that is found instead of issued
  keeps the promise as well, which is where both parts meet.

`CertificateInv` says that a pending row is the work of one call that is at the mint, unless one died.

`WaitlistProofs`: enrollments and the waitlist. `NobodyIsOvertaken`, `NobodyIsDropped` and the types hold of any
interleaving. So does `PromotionsOversellByOverlapOnly`: a promotion counts when the
promoted are fewer than the places, and all other handlers may have counted before it; from there each can only take
what it is under way for (`PlaceInv`, `UnderWay`). The other three theorems have hypotheses on the constants, which are
the ones the run of the property makes by its instance, because without them the code breaks the property and TLC shows
how:

- `ConfirmedEnrollmentsStay` assumes no version upgrades (`Upgrader = {}`). An upgrade saves the row it has read; if the
  anchoring of that row ends meanwhile, the save undoes it. `RowsInv` says that the row an enroll request works on is
  its own and not anchored in the table.
- `RollbackSettles` assumes the same and no capacity, hence no promotions, which are never anchored. It holds as long
  as no request has died (`aborts = 0`), rather than where none can: a row that is not anchored is an enroll
  request's (`OwnedInv`).
- `QueueHasNoGaps` assumes one request at a time (`OneAtATime`) and that none dies, because one that dies between a
  removal and the shift of the others leaves a gap. `QueueInv` says for every point of a handler that the positions are
  1 to n, but for the one it has just removed (`Line`, `Gap`).

`ServicesProofs`: the four services of the backend.

- Ledger calls: an operation's attempts applied or still queued (`Spent`) are fewer than the attempt its call is at; a
  call nothing disturbed has the issuer and the queue for itself and the next sequence number.
- Accounts: of a secret no two requests worked on there is one holder; a refresh token is exchanged after it was
  revoked (`RefreshFits`), a reset token that was used is marked or its request is about to (`ResetFits`), and what the
  one editor of the row will save has no code and no ban that the row has not, less the code it uses (`RowFits`).
  A reset token to be created is counted from its check on.
- Commerce: unless an edit races, uses granted and checkouts that found the coupon valid stay below the limit plus the
  buyers; a run of payouts has counted no more than the period has held since it began and, unless it missed a page or
  a row, all before its offset; a checkout completes once among the events of a subscription, so that events in order
  decide the tier (`PaidBy`).
- Community: a request alone with a post holds the counters and the answer that the tables will have after its save
  (`PostingFits`), a vote at a time (`VoteMoves`); one alone with a submission saves a grade that agrees with the
  reviews (`GradingFits`), before and between the two statements of its save. Cardinality theorems count the votes.

Only model-checked: the four liveness properties `DeliveriesSettle`, `MailsSettle`, `JobsSettle` and
`BalanceCacheConverges`, since fairness, and `ENABLED` with it, are out of the prover's reach; and the runs that are
violated. That Newton's iteration computes the square root stays an assumption that TLC evaluates: it is a recursive
function, and the proofs use only what `IsRoot` says.

## Not modelled

- Certificate, credential metadata, reputation, analytics, buyback, badges, nft, royalty, scholarship and token
  restriction contracts: registries whose entry points write one record each and have no caller here; staking and the
  governance voting library: functions no entry point calls. Of the shared contract: roles, call records, pause and
  multisig.
- Content services (courses, quizzes, search, notifications, cohorts and others): create, read, update and delete of
  single rows. Queries, DTO validation, formatting, metrics, PDF, IPFS, OAuth, and payments' calls of Stripe.
- The frontend but for its offline queue: components that render what the API returns. They are most of the
  repository's lines, and the reason why the modules cover a small part of them.
- Of modelled services, what the components' notes in `PROJECT.json` leave out.

## Plan

1. Prove more: the types of `Achievements` and `Services`, whose bounds on histories their invariants do not state yet;
   `AnchoredAtRest` and `ConfirmedStays` for instances with upgrades, stated of the rows no upgrade works on; that the
   supply is what mints, rewards and claims add up to, less the burns.
2. Model more: the rest of the shared contract (pause, call records, multisig); refunds beside enrollments; the two
   statements of a save in the queues and the enrollments; Grants on the allowances of `TokenLedger` instead of a
   treasury.
