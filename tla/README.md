# Formal verification of town-api

TLA+ models of the town-api server, TLC runs that check them on small
instances, and TLAPS proofs for all instances. Everything is translated from the
code: the SQL triggers under `drizzle/` (the last definition of each function
counts), the repositories, the services and the routes under `src/`.
`PROJECT.json` maps each definition to its lines, lists the runs, the mutants
that show each property can fail, the findings, the hazards and the theorems.

## 1. The system

A Fastify server over PostgreSQL. Server processes keep no state between
requests; everything lives in rows, and concurrency is the concurrency of
transactions at READ COMMITTED. Requests read, await several times and then
write, so what was read may be stale when it is used; a request also keeps the
time it read at its start. What protects the data are BEFORE triggers (guards),
unique keys, `ON CONFLICT DO NOTHING`, single statements such as
`UPDATE ... WHERE consumed_at IS NULL`, and row locks. Nothing is scheduled
inside the server: ballots open and close, alerts resolve and rows are pruned
when a request comes by; one job, started from outside, expires memberships.

| component | state | operations | hard | model |
|---|---|---|---|---|
| civic process, confirmation to mandate | `civic_processes`, two ledgers, confirmations, proposals and revisions, contributions, eligible actors, tokens, votes, mandate | confirm, propose, revise, withdraw, contribute; freeze; lazy opening and closing; vote | counting triggers, repeated ballot cycles, late votes, secrecy (a vote has no voter) | `CivicBallot` |
| civic process, action to archive | action updates, evidence, answers, verification, dispute resolutions | post or claim, mark ready, post evidence, answer, resolve a dispute | two thresholds at once, stale reads, an operator beside the members | `CivicOutcome` |
| civic transactions | row locks | guards `FOR SHARE`, advances `FOR UPDATE`, token and proposal rows | lock upgrade, deadlock, lost counts | `CivicTransactions` |
| mandate contestation | contestations | file, resolve | a window measured from the planned close of a lazily closed ballot | `CivicContestation` |
| identity and set-up | accounts, e-mail codes, grants, ceremonies, passwords, passkeys, actor | request a code, complete it, set the password, register the passkey | one-time rows used once, an older one beside a newer, expiry against use | `AccountSetup`, `OneTimeRows` |
| recovery | recovery codes, grants, ceremonies | request, verify, register anew | proofs of before the recovery, suspension in between | `AccountRecovery` |
| sessions | sessions with idle and absolute ends, credentials | sign in, visit, rotate, sign out, change password, step up, add and revoke passkeys, suspend, recover | rotation twice, revocation against a request that has already resolved its session | `Sessions` |
| passkeys | credentials with counters, challenges | options and verification of four ceremonies, rename, revoke | a challenge answered twice, a counter that falls back | `Passkeys` |
| rate limits | counters by subject and window | read, work, charge | check and charge apart, windows that end | `RateLimits` |
| membership | entitlement, source events | activate, renew, cancel, resume, expire, provision, finalise | late events, a ledger that answers repeats | `Entitlements` |
| billing through Stripe | customer links, checkout attempts, webhooks | checkout, webhook events, expiry job | late, repeated and reordered events; requests cut off | `StripeBilling` |
| Google Play and community | purchase links, the actor's community | purchase, acknowledge, bind, commit, finalise | retries, two owners of one purchase, binding of what is paid | `GooglePlay` |
| administrative memberships | audit, pilot cohort | grant, extend, cancel | reads without locks, beside providers and other operators | `AdminGrants` |
| signals and discussions | photos, signals, submissions, confirmations, discussions, contributions, media | upload, publish, submit, confirm, discuss, fetch, hide | a rolling limit under a lock, statements without a transaction | `MemberSignals`, `Discussion` |
| moderation | accounts, content, audit records | suspend, ban, reinstate, hide, restore | lock order over two accounts, moderators who lose their rights | `Moderation` |
| operators | operator rows, bootstrap script | grant, change, revoke, bootstrap | a script killed half-way and run again | `PlatformOperators` |
| monitoring | samples, alerts, attestations, bounded tables | view, acknowledge, attest, append and prune | recording nobody waits for, views out of order | `Monitoring`, `BoundedLogs` |
| inbox and process views, HTTP schemas, configuration, operations | | | | not modelled (section 7) |

How they interact. The entitlement row is changed by three senders (Stripe,
Google Play, operators), all through the transitions of `Entitlements`; identity,
membership and local eligibility decide, through `evaluateCivicAccess`, whether
an account may take part, and `actors.status` whether an actor is listed as a
voter: to the civic modules this is `ChangeAccess`. Suspension, recovery and
credential changes end sessions inside their own transaction. A published signal
provisions its civic process (a trigger). The console resolves disputes and
contestations and moderates content. No component calls another asynchronously;
they share rows.

What makes each component correct is listed as hazards in `PROJECT.json`, at the
line where each bites, with the properties that would catch it.

## 2. The modules

```
CivicLedger             edges, rows and keys of the two ledgers
  CivicStages           the abstract process: stage, cycle, ledger
  CivicBallot           confirmation .. mandate, one committed transaction a step
  CivicOutcome          action .. archived, every write split in check and insert
CivicTransactions       the same transactions, lock by lock
CivicContestation       the mandate contested
OneTimeRows             codes, grants and ceremonies: used once, expiring, revoked
  AccountSetup          from the first e-mail code to an active account
  AccountRecovery       from a recovery code to the new passkey
AccountLifecycle        the abstract account
Sessions  Passkeys  RateLimits
Entitlements            the entitlement row, its transitions and its event ledger
  StripeBilling  GooglePlay  AdminGrants
MembershipPromise       the abstract membership
MemberSignals  Discussion
Moderation  PlatformOperators  Monitoring  BoundedLogs
MemberAccount           one member: set-up, recovery and passkeys, one clock; the rate limits
Community               signals, discussion and contestation, one clock
Platform                moderation, operators, monitoring and the bounded tables
CivicBallotProofs       the ballot, from its types to the mandate
CivicOutcomeProofs      closed stages, records, moves, the archive
CivicTransactionsProofs what is held and read under locks, thresholds, votes, deadlock
MemberAccountProofs     one-time rows, recovery, passkeys, the refinement of the account, limits
SessionsProofs          revocation, rotation, credentials, freshness
MembershipProofs        rows, events, the promise, and what each of the three senders owes
CommunityProofs         the rolling limit, photos, discussions, contestations
PlatformProofs          records and locks, operators, alerts, the bounded tables
MC...                   instances for TLC
```

A module maps to one service or repository family; its actions carry the names
of the functions they translate. A variable is a table, or the part of it that
anything depends on; a request in flight is a record with its step, the time it
read and the rows it has read.

**The grain** follows the transactions. Where the code holds a row lock from its
first read to its commit, the whole transaction is one step. Where it runs
statement by statement, each statement is a step, and other requests, a clock
tick, or the end of the request (`Lose`, `Stop`, `StopServer`, the bootstrap
script's death) may come in between. So most of what is checked is whether a
statement still does the right thing with what an earlier one has read.

**Civic process.** `CivicLedger` has the ten edges of
`civic_process_transitions_supported_paths` and the uniqueness key behind
`ON CONFLICT DO NOTHING`: the edges of the ballot write the ballot cycle, the
others the column default 1. `CivicBallot`'s steps are committed transactions: a
route's statement with its BEFORE trigger (guard) and its AFTER trigger
(`AdvanceWhen`). Opening and closing may be run by any reader. A vote is two
steps, because the request keeps the cycle it read: it may arrive after the close
or in a later cycle. `CivicOutcome` splits every write in `PassRouteChecks` and
the insert under the table's guard; it starts with the ledger of a process whose
mandate was decided in one of the given cycles. `CivicTransactions` takes locks
one at a time (`share` in guards, `update` in advances), lets a statement see what
is committed when it runs, and ends any member of a deadlock; it says what the
atomic steps of `CivicBallot` rest on. `CivicContestation` keeps of the ballot
only what a contestation reads.

**Accounts.** `OneTimeRows` is what codes, grants and ceremonies share.
`AccountSetup`, `AccountRecovery` and `Passkeys` use every request's own time, so
late requests meet expired, consumed, revoked and superseded rows; a row may not be
revoked before it was created, which aborts some. `Sessions` resolves a session
without locks and works with the row it read. `RateLimits` has a record for each of
the limiters, with the buckets it reads, in which order, and when it charges
them; what a day counts is compared with the attempts its quarters count, a finite set of
pairs. `AccountLifecycle` is the abstract account (in order, complete when active,
closed for ever).

**Memberships.** `Entitlements` translates each transition as a *verdict* (applied,
replayed, stale, rejected) over the locked row, and the ledger that answers
repeated events. The three senders instantiate the same operators. In
`StripeBilling` Stripe is external: an event, once sent, may be delivered several
times, late and in any order. In `GooglePlay` a client repeats a request that was
cut off; Google is external. `MembershipPromise` is the abstract membership: while it runs its time does not shrink,
who leaves keeps access until that time, it ends no earlier than the time it was entered
or renewed for, and a purchase that waits for its community becomes a membership for
exactly the time paid for.

**Community and console.** `MemberSignals` publishes under the lock of the account
row and counts rows of the last day back from the request's own time.
`Discussion` has no transactions at all. `Moderation` takes its row locks one by
one, foreign keys' locks included, and writes civic content in three statements, as
the code does. What a request holds follows from how far it has come in its plan of locks. `PlatformOperators` includes the bootstrap script, which may stop
after any statement and be run again. `Monitoring` records after it has answered;
`BoundedLogs` is the insert, select and delete that all pruned tables share.

### Abstractions

* Texts, links, reasons, copy and most answers are left out. The kinds of an action
  update are two (only the claim is exclusive). A payload hash is the payload.
* Time is abstract, with the order of the code's constants kept: a window, a
  cooldown and a lifetime are one or two ticks. Rows keep their times.
* Cryptography is what it decides: whoever holds a code or a key can answer with
  it, and may also answer wrongly.
* A vote row carries a fresh id and no voter, as in the table.
* In `CivicBallot` the access check of a route other than the vote happens with its
  insert (`CivicOutcome` has it split everywhere); tokens in `CivicTransactions` are
  minted for every actor, since the list of voters is the subject of `CivicBallot`.
* An entitlement is never suspended or closed: no handler calls these transitions.

### The composites

`MemberAccount`, `Community` and `Platform` put together components that share no
rows: their specification is the conjunction of the components', and the properties that
speak of several of them are stated there, for the runs and for the theorems alike.

For TLC such a conjunction would only multiply the components' states. The MC modules
(`MCAccounts`, `MCSessions`, `MCMemberships`, `MCCommunity`, `MCPlatform`,
`MCProgress`) therefore choose at the start, with `part`, which
component runs; the others stay as they begin, so the state spaces add up.
`MCAccounts` extends `MemberAccount`, `MCMemberships` `Entitlements`, `MCSessions`
`Sessions`, `MCCommunity` `Community` and `MCPlatform` `Platform`: their runs evaluate the
assumptions and check the very definitions the theorems name. A part whose bounds differ
from the others' is an instance of its own beside them; in `MCSessions` the parts differ in
the operations that are requested.
One property is asked of all parts that owe it: `EventsMoveOnce`, for instance, of
Stripe, of Google Play (twice) and of operators. Where a component needs two
instances (many requests and no clock, or one request and a clock) both are parts.

## 3. The runs

| run | instance | distinct states | shows |
|---|---|---|---|
| `ballot_voters` | three actors, one of whom is suspended and reinstated; clock 2 | 247 k | voters, tokens, the frozen ballot and the mandate in every interleaving of requests |
| `ballot_cycles` | two actors, clock 5: two failed quorums and the voting of a third ballot | 48 k | the ledgers over many cycles, late votes, the refinement of `CivicStages` |
| `outcome` | three actors, one with changing access, two writes in flight, threshold two, after a second ballot | 551 k | answers, claims, evidence and a resolution against the moves to verification and the archive |
| `locks` | three connections, two actors | 180 k | each transaction comes out as if it were one step; who can be in a deadlock |
| `accounts` | set-up, recovery, three parts of passkeys, three kinds of limiter (windows of two lengths); two requests each | 537 k | one-time rows, limits, challenges, and the refinement of `AccountLifecycle` |
| `sessions` | credentials changing, the endings of sessions of each kind, freshness; one account, two keys | 722 k | revocation, rotation, freshness |
| `memberships` | two subscriptions; events delivered twice; a binding; a disputed purchase; two grants | 435 k | one entitlement row under every sender, and the refinement of `MembershipPromise` |
| `community` | two accounts publishing, photos kept longer than a day; one discussion; two filing contestations in two cycles | 1.17 M | the rolling limit, photos, what belongs to whom, contestations |
| `platform` | two kinds of moderation, bootstrap, two grants at once, alerts, three writers of a bounded table | 939 k | records, locks, what is over, the bound |
| `progress` | a ballot of two, one membership, two views, two publications | 90 k | what must eventually happen |
| `dispute_stays` | as `outcome` | violated | section 4 |
| `grant_provider` | as `memberships`, the grants only | violated | section 4 |

**Bounds.** Every counter has a named bound in the guards: `Max...` for times,
rows, events, deliveries, requests begun and records. Two requests at once suffice for
a check that is stale when used; `locks` and `BoundedLogs` have three, because a
deadlock beside a bystander and a row deleted by somebody else's prune need them.
Thresholds of five are two: what matters is one actor more and one fewer, a tie, a
strict winner, a quorum that fails and one that holds after a failed one. Lifetimes of
one tick and a clock of two or three meet each row before, at and after its end, used by
a request that began before it. Two codes, grants or ceremonies give a superseded one
and a new one; in set-up and recovery two codes come with one ceremony, and two
ceremonies with one code. Three events of two subscriptions give an old subscription's
end after a new one's start, and two deliveries a repetition after something else.
`MaxChanges` bounds the ledger of the operators' part to two changes by operators,
provider or job; `FewRecords` bounds what no other write of `CivicOutcome` looks at,
updates without a claim and evidence, to one and two.

Deadlock checking is off: processes end, clocks stop at their bound, and a server with
no requests rests. Waiting for one another is a property of its own
(`VotingNeverDeadlocks`). Symmetry is used for interchangeable
accounts, requests, photos and keys, never in `progress`.

**What the properties are about.**

* `NothingIsSpentTwice`, `OldProofsOpenNothing`: each step of
  set-up and recovery is paid for by one row that is live in the same transaction; a
  newer row ends the older; a recovery closes every door that was open before.
* `LimitsHold`: what a limiter reserves before its work is within its limit, and what it
  charges after it overshoots by no more than the requests that were under way and the
  charges that were never made; a day counts no attempt that its quarters do not.
* `SessionsHoldValidCredentials`, `NothingOutlivesRevocation`,
  `OneLiveSessionPerSignIn`, `FreshnessIsEarned`: a session lives no longer than the
  account's status and the credential it came from; no session that was read before
  a revocation is revived or rotated after it.
* `RecordsAgree`, `EventsMoveOnce`, `KeepsThePromise`: rows satisfy their CHECK
  constraints in every interleaving, an event moves a membership once however often it is
  delivered, and time that is paid for is not lost to an event decided on older facts.
* `RoutesKeepTheirRules`: what each route owes to the others: access within what Stripe
  has sold, one owner of a purchase, audits of changes, a community that stays.
* `RollingLimit`, `PhotosMatchSignals`, `RowsBelongTogether`, `ContestationsAreAnswered`:
  the limit of a day holds though the count and the insert use old times; photos, media
  and filings belong to whom they should, and no photo is attached twice; a decision on a contestation is permanent and nobody's
  filing is refused as too early for ever.
* `ModerationIsRecorded`, `ClosedStaysClosed`, `BufferStaysBounded`: audit records tell the
  rows, a moderator who was suspended changes no more rows, no race restores a closed
  account or a revoked operator, and a bounded table exceeds its bound only by the appends
  under way and the prunes that failed.

**Refinements.** `ImplementsStages` and `MovesAsPromised`: the detailed process is one of
`CivicStages` (identity on the shared variables). `ImplementsLifecycle`: the set-up
services implement `AccountLifecycle`, with the credentials read off the rows.
`KeepsThePromise`: under the mapping of a row to a phase and an end, all three senders
implement `MembershipPromise`.

**Fairness** is stated in `MCProgress` and in the modules it instantiates, and nowhere
else. For ballots: time passes and somebody keeps reading the process; members promise
nothing. For memberships: a webhook request that has begun goes on (weak), and the
external job is run again and again and finds what it looks for often enough
(strong, because webhooks take the row away in between). For alerts: somebody keeps
looking at the console; requests may still be lost. For publications: a request under
way goes on, since PostgreSQL grants a lock that is free.

## 4. Disagreements found

Two are runs of their own, because they change what a member or an operator is told.

* `dispute_stays`: an operator's resolution does not keep a process in verification;
  later answers archive it, even with the other outcome.
* `grant_provider`: an operator's grant checks the source of the membership before its
  transaction; what Stripe activates in between becomes an administrative membership.

The others are stated as properties in their modules, next to the code they speak of.
Each is violated in the instance of section 3, except where a larger one is named; none
of them is among the properties of a passing run.

| property | code | violated in | what |
|---|---|---|---|
| `ThresholdIsOfPublishedProposals` | drizzle/0054_civic_secret_ballot.sql:327 | `MCCivicBallot` | The trigger counts every row of civic_proposals for the process, the withdrawn ones included, so deliberation can open while fewer proposals are published than the threshold; docs/CIVIC_PROCESS_GOVERNANCE_V1.md:65 says "CIVIC_PROPOSAL_THRESHOLD = 5 published proposals". |
| `PreviewCountsTheVoters` | src/db/repositories/civic-ballot.ts:6 | `MCCivicBallot` | countCivicBallotEligibleActors counts civic_ballot_eligible_actors over all ballot cycles, so after a failed quorum the preview's eligibleVoterCount is the sum of several snapshots; test/civic-process.integration.test.ts:892 expects "expect(ballotPreview.eligibleVoterCount).toBe(eligibleActorIds.length)" of the frozen ballot. |
| `OnlyEscalatedDisputesAreResolved` | src/routes/platform.ts:2966 | `MCCivicOutcome` | The route and the insert check neither the stage nor the 14 days, so an outcome can be recorded before verification has begun; the comment at src/db/repositories/civic-verification.ts:285 says "an operator records a stalled (14-day-escalated) verification dispute's outcome". |
| `ConcurrentProposalsAllSucceed` | drizzle/0054_civic_secret_ballot.sql:317 | `MCCivicTransactions` | Each insert holds the process row FOR SHARE (drizzle/0051_civic_proposals_lifecycle.sql:142) when its AFTER trigger asks for it FOR UPDATE, so two concurrent inserts can wait for each other and PostgreSQL aborts one, which the route answers with a 500; test/civic-process.integration.test.ts:554 says "advances once when five proposals arrive concurrently and closes proposals" and awaits all five. |
| `OneLiveCode` | src/ceremony/email-verification/service.ts:358 | `MCAccounts`, `Setup` | requestEmailVerification looks for the latest code, revokes the active ones and creates the new one in three statements outside a transaction, and no unique index limits active codes, so two requests at once each create a code and both can be used; README.md:332 says of a resend "invalidates prior active `verify_email` challenges". |
| `LastSeenNeverMovesBack` | src/ceremony/repositories/account-sessions.ts:332 | `MCSessions`, its part `presence` with two requests, only `visit`, `MaxTime <- 2` | touchAccountSession computes last_seen_at and idle_expires_at from a row it read before and updates without comparing them, so of two concurrent touches the older can write last; assertAuthenticatedAtUnchangedByTouch at src/ceremony/repositories/account-sessions.ts:687 says "last_seen_at must not move backward". |
| `LimitIsExact` | src/ceremony/email-verification/service.ts:243 | `accounts`, part `limits` | The request for an e-mail code reads the counters and charges them in separate statements without a lock, so concurrent requests are admitted beyond the limit; README.md:351 says "email: 3 / 15 minutes, 5 / 24 hours". |
| `LiveSubscriptionBlocksCheckout` | src/billing/checkout-service.ts:121 | `MCMemberships`, `Subscriptions` | Only the entitlement row is looked at (and Stripe only for the subscription that row names), so until invoice.paid has been processed a second checkout is allowed beside a live subscription; the comment at src/billing/checkout-service.ts:57 says "existing active/cancelling subscriptions block Checkout with domain error codes". |
| `EverySessionHasItsAttempt` | src/billing/checkout-service.ts:160 | `MCMemberships`, `Subscriptions` | The attempt is inserted, and marked failed, in the same transaction that calls Stripe, so a failure after Stripe's answer rolls it back and leaves a session with no row; the comment at src/billing/checkout-service.ts:59 says "Attempt row is persisted before Stripe is called so partial failures reconcile". |
| `RetriesKeepTheCustomer` | src/billing/customer-service.ts:63 | `Subscriptions` with `MaxCustomers <- 2` | The billing reference from which the idempotency key is made is generated anew on every attempt whose link was not committed, so a retry creates another customer; the comment at src/billing/customer-service.ts:28 says "retries after partial failure return the same customer". |
| `SupersededCancellationIsStale` | src/billing/webhook-processor.ts:682 | `Deliveries` with `MaxEvents <- 5`, `MaxDeliveries <- 1` | The effective time of a subscription event is the time the request is processed, so a cancellation delivered after the resumption that superseded it is applied; README.md:644 says "`expire`/`schedule_cancellation` for a superseded state → `stale`". |
| `RetryIsReplayed` | src/membership/google-play/provision-paid-pending-binding.ts:138 | `Binding` with `Period <- 2`, `MaxTime <- 2` | The payload that is hashed holds the time of the request, so the retry is rejected as payload_hash_mismatch and the purchase stays unacknowledged; the comment at src/routes/google-play.ts:253 says "Provision is durable; fail closed so the client can retry (replay + re-ack)". |
| `FinalisationFailsOnlyAsDocumented` | src/membership/finalize-after-community-bind.ts:30 | `Binding` with two tokens, one request, `Period <- 1`, `GrantPeriod <- 1`, `MaxTime <- 3`, neither community Madrid | The source event of a finalisation is named after the account and the community only, so the finalisation of a second purchase is rejected as payload_hash_mismatch; docs/membership-foundation.v1.json:415 lists under rejectsWhen only "proposed access_until does not match the entitlement access_until" and four other reasons that do not hold here. |
| `EligibilityIsSetOnce` | src/membership/community-commitment-service.ts:110 | `MCMemberships`, `Binding` | The commitment writes the actor's community and keeps local_eligibility_verified_at, whatever community that was verified for; the comment at src/membership/bind-service.ts:27 says "Set-once for non-owners: a different community throws LOCAL_ELIGIBILITY_ALREADY_BOUND". |
| `AcknowledgedIsDurable` | src/membership/google-play/provision-paid-pending-binding.ts:138 | `MCMemberships`, `Binding` | readExistingProvisionOutcome answers replayed for an event that the ledger holds as rejected when the same payload comes again, and replayed is acknowledged; docs/membership-foundation.v1.json:109 lists "rejected purchase" under neverWhen. |
| `BansNeverDeadlock` | src/routes/platform.ts:1500 | `MCPlatform`, `Locking` | Hiding a contribution locks the contribution, then through foreign keys the operator's account and last its author's, whatever their ids, so a ban of the operator by the author can deadlock with it and be aborted; the comment at src/routes/account-moderation.ts:175 says "Lock owner + target in deterministic id order to avoid deadlocks". |
| `CivicContentKeepsWhoAndWhy` | src/routes/platform.ts:2564 | `MCPlatform`, `Locking` | The civic content routes call the repository outside a transaction, so its FOR UPDATE lock ends with the SELECT and two hides both find the row visible: the later one overwrites who and why; the comment at src/db/repositories/civic-content-moderation.ts:17 says it "mirrors the existing signals/discussion-contribution hide pattern exactly", where src/db/repositories/signals.ts:92 says "if already hidden, leaves who/when/why untouched". |
| `CivicAuditTellsTheContents` | src/routes/platform.ts:2574 | `MCPlatform`, `Locking` | The audit event of civic content is a statement of its own after the update has taken effect, so it can be missing or in another order than the changes; the comment at src/routes/platform.ts:195 says "Mutating actions write `platform_audit_events`". |
| `BootstrapNeverFails` | src/platform/run-bootstrap-platform-owner.ts:359 | `MCPlatform`, `Bootstrapping` | The script never creates a passkey, and transitionAccountState refuses to activate an account without one (src/identity/repositories/accounts.ts:160), so on a new address the script ends with ACTIVE_REQUIRES_ACTIVE_PASSKEY before it marks the owner or grants the operator; its comment at src/platform/run-bootstrap-platform-owner.ts:34 says "create (or upgrade) an active email+password account, mark is_owner, and grant platform operator role_admin by default". |
| `ActiveHasPassword` | src/platform/run-bootstrap-platform-owner.ts:199 | `MCPlatform`, `Bootstrapping` | The old password is revoked in one statement and the new one inserted, after its hash is computed, in another, without a transaction: a script that stops between them leaves an active account without a password; the message at src/identity/repositories/accounts.ts:182 says "Active account requires an active password credential". |
| `EveryGrantIsAudited` | src/routes/platform.ts:2453 | `MCPlatform`, `Staffing` | The grant takes effect before the audit is written, and a repetition answers already_active without an audit; the comment at src/routes/platform.ts:195 says "Mutating actions write `platform_audit_events`". |
| `EveryContestationReportsPending` | src/routes/platform.ts:2878 | `MCCommunity`, `Contesting` | The console resolves a contestation to upheld or rejected, and GET mandate reports that status (src/routes/civic-mandate.ts:349); the description of the route to contest says at src/routes/civic-mandate.ts:369 "that review is not implemented yet, so every contestation reports status "pending" for now". |
| `ExtensionsNeverShorten` | src/platform/services/memberships.ts:361 | `Granting` with `MaxTime <- 0`, `MaxUntil <- 3`, `MaxChanges == 4` | The activation accepts any end when the row is cancelling: an extension decided before another one and a cancellation shortens the membership, although memberships.ts answers at src/platform/services/memberships.ts:357 "Extended accessUntil must be strictly later than the current accessUntil." |
| `RepeatedGrantsAreAccepted` | src/platform/services/memberships.ts:214 | `MCMemberships`, `Granting` | The retry is compared with the entitlement's current end, not with the grant's: after an extension the repeated grant is refused with the message at src/platform/services/memberships.ts:216 "Idempotency key reuse must repeat the original grant accessUntil.", which it did. |
| `CohortWasGranted` | src/membership/transitions/shared.ts:176 | `MCMemberships`, `Granting` | The ledger answers a repeated event 'replayed' even when it was rejected, and the handler goes on to insert the cohort row; src/membership/madrid-pilot-access.ts:12 calls the tag "written alongside the admin entitlement grant". |
| `SamplesAreSpaced` | src/platform/services/record-uptime-observation.ts:42 | `MCPlatform`, `Viewing` | The latest sample is read and the new one inserted in two statements, so that two views at once both insert; src/platform/repositories/uptime-samples.ts:17 says of the throttle "Minimum gap between persisted samples (status views are opportunistic)." |
| `KeepsTheNewest` | src/platform/repositories/technical-errors.ts:71 | `MCPlatform`, its part `logging` | The deletion is by the ids that were selected before it: rows inserted in between are deleted although they are the newest; src/platform/repositories/technical-errors.ts:9 says "Keep only the newest N rows so the buffer stays bounded." |
| `PublishesImmediately` | src/routes/member-signals.ts:480 | `MCCommunity`, its part `publishing` | The next position of the community is read under a lock of the account only, and (community_id, position) is unique: of two members who publish at once one fails; src/routes/member-signals.ts:398 says "Publishes immediately (no pending_review approval queue)." |
| `MediaGetAttached` | src/routes/discussion-session.ts:561 | `MCCommunity`, `Talking` | The contribution and the mark on its medium are two statements without a transaction, and the medium is served only when it is marked: a request that is lost in between leaves it unreachable for good; src/routes/discussion-session.ts:490 says "Optionally attaches a previously uploaded mediaUploadId owned by the same account for this signal". |
| `HiddenIsFiltered` | src/db/repositories/discussion-session.ts:162 | `MCCommunity`, `Talking` | The lookup of a contribution by its id does not look at hidden_at, so that its medium is still streamed to participants; docs/civic-surface-foundation.v1.json:187 says "Hidden contributions (hidden_at IS NOT NULL) are filtered from participant reads". |
| `CountsOnlyRise` | src/ceremony/passkey-management/service.ts:655 | `MCAccounts`, `Racing` | A reauthentication compares the counter with the row it read before its transaction and does not compare it again under the lock, so of two at once the lower counter can be written last; src/ceremony/contract/document.ts:473 says "repeated or decreasing positive counters are rejected". |
| `BackedUpIsMonotonic` | src/ceremony/passkey-authentication/service.ts:364 | `Signing` with `Backups <- BOOLEAN` | The new backup state is computed from the row that was read before the transaction, so a late ceremony writes back an older one; README.md:443 says "`backed_up` is monotonic and never downgraded". |

## 5. The proofs

`CivicBallotProofs` is about `CivicBallot`, for every finite community, all positive thresholds,
all windows and any number of cycles (assumptions `ActorsAssumption`,
`ThresholdAssumption`, `WindowAssumption`). The bounds that keep a run finite,
on the clock and on the cycles, are constants too, and arbitrary in the proofs.

* **Typing** (`BallotTyped`, `BallotTypeCorrect`). `Typed` is the type invariant
  and the finiteness of votes and consumed tokens; without it a count is not
  known to be a number. The types of the rows (`ProposalRows`, ...) are transparent
  in this module (`USE DEF`).
* **Ledger** (`LedgerNeverBlocksForever`). `LedgerInv`: a row of the current
  cycle, or of an edge that is taken once, leaves from a stage of lower rank than
  the present one, and no row is of a later cycle. The bare property is not
  inductive: it says nothing of the edges the process has yet to reach. The
  failed quorum lowers the rank but raises the cycle, which is where the column
  added by 0054 is needed.
* **Timeline** (`TimelineIsComplete`). `EveryMoveHasItsEvent` compares two numbers; the
  invariant behind it says which event is whose: one of each transition, and the
  opening one, so that a step adds a transition and its event or neither.
* **Refinement** (`BallotImplementsStages`). Every step maps to a move of
  `CivicStages`, its key free, or to a stutter.
* **One vote per token** (`OneVotePerTokenAlways`). Votes carry no voter, so the
  counts are compared: a cast adds a vote with a fresh id and a token that was
  not consumed, in the same cycle.
* **Voters** (`SnapshotIsPermanent`, `TokensAlwaysFollowSnapshot`). From
  `LedgerInv`: while a process deliberates its cycle is not yet frozen, so a
  freeze can only add voters to a new cycle; `TokenInv` states the tokens of
  every cycle, past and future.
* **Frozen ballot** (`BallotStaysFrozen`). `FreezeInv`: since the first freeze
  every proposal is frozen, withdrawn or absent, and the stages that write
  proposals are behind.
* **Closed vote** (`ClosedVotingStaysFinal`) follows from typing alone: the
  guard's two comparisons, stage and cycle, are what it needs.
* **Mandate** (`MandateAlwaysCounts`). `MandateInv`: a mandate exists only past
  the vote, and every vote is for a frozen proposal. That a leader exists at all
  is a minimum over the naturals (`SomebodyLeads`), by well-foundedness.

`CivicOutcomeProofs` is about `CivicOutcome`, for every finite community, every threshold and
any number of writes in flight (`OutcomeAssumption`).

* **Typing** (`OutcomeTypeCorrect`), with at most one claim of responsibility: the unique
  index is looked at by the insert, not by the route.
* **Closed stages, permanent records** (`ClosedStagesStayFinal`, `RecordsAlwaysStay`): a
  write in flight is arbitrary, so both rest on the guards of the inserts alone and not on
  what the routes have checked.
* **Moves** (`MovesAlwaysAsPromised`): marking ready and the answer that completes a
  threshold are the only steps that move, each along an edge whose key is free.
* **Archive** (`ArchiveAlwaysAgrees`). `ArchiveInv`: before the archive neither threshold is
  met and neither edge into it is on the ledger. The bare property is not inductive: it does
  not say that an answer that completes a threshold finds the other one unmet. One answer
  raises one count by one (`AnswerCounts`), so it decides alone.

`CivicTransactionsProofs` is about `CivicTransactions`, for any finite number of
connections and actors, all thresholds and quorums (`TransactionsAssumption`).

* **Locks.** `LocksTaken`: what a connection holds is exactly what the statements it has
  passed have taken. From it, an update lock of a row is alone on that row
  (`ExclusiveIsAlone`, `RowIsAlone`), which is the reason for the next part.
* **Reads** (`ReadsHold`). What was read under a lock is still so: the stage behind a
  guard, the count behind an advance, the cycle behind a vote. A step of another
  connection that would change it needs a lock it cannot have.
* **Thresholds and votes** (`NoThresholdIsMissed`, `NoCommittedVoteIsLost`,
  `NothingMovesAfterTheFreeze`). Between two commits the stage agrees with the rows
  (`ThresholdsHold`): a stage is left by the commit that reaches its threshold, so the
  number of rows is below it while the stage lasts. The bare property is not inductive,
  because it says nothing of a count that was taken and not yet acted upon. A
  revision or withdrawal under way holds its proposal's row, and the freeze, which asks
  for every live row, waits for it (`FreezeWaits`); once it has committed no live row is
  left for anybody to move.
* **Deadlock** (`VotingDoesNotDeadlock`). Proposing and contributing ask for an upgrade
  of a lock they share, so a deadlock of them cannot be excluded (section 4). `InDeadlock` asks
  for a *smallest* set whose members all wait for one another. A vote, an opening or a
  closing that waits holds at most its token (`WaitingBallotHoldsLittle`), which only a
  vote of the same actor wants (`OnlyVotesWantTokens`). So what the others of the set wait
  for is held by the others: without the vote it is a deadlock still, and the set was not
  a smallest one.

`SessionsProofs` is about `Sessions`, for all numbers of requests, finite sets of passkeys
and all time limits (`SessionsAssumption`). `SessionInv` is four parts: typing, with the
lifetime that a rotated row inherits from the first of its chain; every row that is not
revoked suits the account as it is *now* (`Valid`); no two live rows of one sign-in
(`Alone`); freshness only as old as a proof (`Earned`). A request in flight works with a
row it read before; the invariant says next to nothing of it, so the four theorems rest
on what the statements compare when they run, not on what was read.
`EndedSessionsStayEnded`, `CredentialsStayValid`: a revocation, a password change, a
recovery or a suspension ends its rows in the step that changes the account
(`OldRowsKept`), and no later step revives one. `RotationsDoNotFork`: a rotation adds its
row only in the step that revokes a live predecessor. `FreshnessIsNeverMade`: a touch
or a rotation copies a time, and only a proof of presence writes one.

`CommunityProofs` is about `Community`, for every limit, length of the day, voting window and
number of members, photos, media and requests (`SignalConstants`, `CommunityAssumption`).

* **Rolling limit** (`RollingLimitHolds`). The property speaks of every window of a
  day's length, the code counts one: back from the time of the request, which may be
  older than rows that are already there. `RequestsFit` says that a request past its
  count still has room in its own window, because it holds its account's row and all
  others that would insert for the account wait. That one window suffices is
  `WindowsStayWithin`: a later window that the new row falls into is a part of what
  was counted, since the count has no upper end.
* **Photos** (`PhotosAlwaysMatch`). The lock is of the account and the photo is looked up
  before it; what keeps a photo with one signal is the unique key the insert meets, and the
  status is written in the same transaction. Uploads under way have photos of their own
  (`UploadsAreNew`).
* **Types** (`SignalsTypeCorrect`). The next position is a maximum plus one. That a finite
  set of numbers has a maximum (`HasMax`) is shown by the well-foundedness of strict
  inclusion: the number with the fewest numbers above it has none.
* **Discussion** (`RowsAlwaysBelongTogether`). No statement of a discussion is in a
  transaction, so the invariant says what each request may still rely on of what it has
  read: a visible session stays the one session of its signal, a confirmation is never
  taken back, and a medium that was found to be the author's and free may by now be
  somebody else's, which is why the key is met again by the insert. Each table only goes on in
  one direction; a request is looked at once for all steps of the others.
* **Contestation** (`RowsAlwaysBelongTogether`, `ContestationsAlwaysAnswered`). A filing that
  found its window open asked before it closed, and the voter list it is compared with is
  of a cycle that was decided and does not change. It needs a voting window of at least one tick.

`MemberAccountProofs` is about `MemberAccount`, for any number of requests, passkeys, codes and
renewals, all lifetimes and windows (`MemberAssumption`).

* **Tables of one-time rows.** What an `UPDATE ... WHERE consumed_at IS NULL` does to a
  table of `OneTimeRows` is stated once: closing, spending and superseding rows neither
  revive a row nor change what it is for, and time only makes live rows fewer
  (`Closing`, `Spending`, `Superseding` and the lemmas beside them).
* **Used once** (`NothingIsEverSpentTwice`). `SetupInv`, `RecoveryInv` and `SigningInv`
  say which row paid for each step taken, that at most one grant and one ceremony are live,
  and that a live grant is for the step that is due. The bare properties are not
  inductive: they do not say that a row that was spent stays the row that paid. A request in
  flight is only known to work with rows that exist and a time that is past; that the row it
  read is spent, expired or superseded by now is decided by the statement that uses it.
* **Old proofs** (`OldProofsNeverOpen`). The step that completes a recovery closes codes,
  grants, ceremonies and sessions of the account in one transaction; a counter is compared
  with the locked row at sign-in (a reauthentication is not, section 4).
* **Refinement** (`SetupImplementsLifecycle`). Every step of the set-up maps to a step of
  `AccountLifecycle` or to a stutter, with the credentials read off the rows. It needs
  `SetupInv`: an account is activated only with the password and passkey the lifecycle asks for.
* **Limits** (`LimitsAlwaysHold`), for any choice among the limiters of the code, any limits,
  any length of a day, any finite number of requests at once and any number in all. `LimitsHold`
  speaks of counters alone; the invariant counts the requests in flight too. `WorkIsCounted`:
  work done, and work that is paid for in advance, is within the counter, the charges that
  are lost and those that are to come. `ReservationsFit`: a reserved counter is within its
  limit. `AdmissionsFit`: the requests that found room are work to come, and each looked when
  the charges made were below the limit. `DaysFollow`: a day is charged after its quarter, by
  every limiter that has both, so what a day is about to count its quarters have counted. Every
  step of a request is shown to be a transfer (`Balanced`): what it takes from one of these
  accounts it adds to another; that a transfer keeps the invariant is proved once
  (`BalanceKeeps`).

`MembershipProofs` is about `Entitlements` under each of its senders, for any number of accounts,
subscriptions, deliveries, purchases and keys, every period and every clock
(`SendersAssumption`): `Senders` is the disjunction of the specifications of `StripeBilling`,
`GooglePlay` and `AdminGrants`, each with any number of requests at once.

* **Rows and ledger** (`RecordsAlwaysAgree`). A verdict of `applied` and the mutation that
  follows it give a row that satisfies the CHECK, whatever the input
  (a lemma for each transition); the ledger is asked before it is written.
* **Events** (`EventsAlwaysMoveOnce`). A step changes at most one row, by an input that the ledger does
  not know yet. No sender writes a row otherwise: the lemma of each sender says so of every action.
* **Promise** (`PromiseIsKept`). The refinement of `MembershipPromise`, step by step for each
  sender. What has to be carried is that an input in flight or an event that is sent asks for no end
  before its own time of effect, so that an activation that is late does not give less than what is
  running; the transitions compare times of effect (`stale`), not times of delivery.
* **Access sold** (`AccessIsAlwaysSold`). The end that an activation in flight has read is within
  what Stripe has opened for its subscription (`SalesHold`), and stays so: periods only grow
  (`SalesGrow`), and no event but an activation gives a row a later end (`TransitionEnds`). So an
  activation may be applied as late as it likes.
* **Owners and communities** (`OwnersAlwaysAcknowledge`, `CommunityAlwaysStays`). Whoever is linked
  to a purchase, or is about to acknowledge it, is the account in the ledger entry of its token, and
  the ledger has one entry for a token (`OwnersHold`), so that of two accounts that
  present one purchase only the first gets as far as the acknowledgement. A community is written under
  the lock of the row, by a statement that looks again at whether the member pays.
* **Audits** (`AuditsAlwaysOfChanges`). A request that is about to audit has its entry in the ledger as
  applied, no record of that event is there yet, and no other request is about to write one
  (`AuditsHold`): only the request that put the entry there audits it, not one that repeats it.

`PlatformProofs` is about `Platform`, for any number of accounts, operators, requests, writers, components
and rows (`LogAssumption`, `PlatformAssumption`).

* **Locks** (`ModerationAlwaysRecorded`). What a request holds is the part of its plan that
  it has come through, no two hold locks that clash, and what it holds for update still is as it
  found it (`JobsHold`): a step of another request that writes a row holds it too, or writes civic
  content, which nobody holds. A moderator's own row is among what is held, so that nobody moderates
  after being suspended.
* **Records** (`RecordsHold`). The property speaks of every prefix of the records; a new record
  leaves what the earlier ones say (`SaidBefore`) and says itself what its row became (`SaidLast`).
* **Order**. Of requests that wait for each other in a circle, one wants the last account;
  its holder wants a later one still (`AccountsAreOrdered`). The plan's order is what makes a lock that is
  wanted later than those that are held (`PlansHold`). With requests that hide content it is not
  true (section 4, `BansNeverDeadlock`).
* **Operators** (`ClosedAlwaysStays`). The row of an operator is never removed, so a request that saw one
  updates and keeps the revocation, unless it is a grant that saw it. Past its password
  statement the bootstrap knows the account's factors to be complete, whatever the member and a
  moderator do beside it.
* **Alerts** (`ClosedAlwaysStays`). A view that has found an alert knows of which component it is and
  no more; that it writes over no closed one is the condition of its `UPDATE`.
* **Bounded tables** (`BufferAlwaysBounded`), for any set of writers, also an infinite one, any retention and any
  number of appends. `BufferInv`: what a writer keeps after its selection is no more
  than the retention, and the writers that have inserted and not yet pruned are finitely many.
  `BufferStaysBounded` is then a count: an insertion adds one row and one writer under way,
  a deletion leaves at most the rows that were kept and those of the others under way, and a
  prune that fails leaves its row, which is counted until the next deletion.

**Only model-checked.** Liveness (all of `progress`: `EveryBallotEnds`, `ElapsedMembershipsExpire`,
`WorkSettles`) is outside TLAPS's reach. `RoutesKeepTheirRules`
is the conjunction over the parts of the run; the rules in it are proved one sender at a
time (`MembershipProofs`), and the types of the senders' own tables are left to TLC.

## 6. Plan

1. `CivicBallot` and `CivicOutcome` in one process, so that the initial ledger of
   `CivicOutcome` is shown and not assumed; `MovesAsPromised` covers the moves only.
2. Two kinds of sender at one entitlement row in one instance (now: an operator beside
   a reduced provider, in `AdminGrants`).

## 7. Not modelled

* **Inbox and process views**: a read model and a last-viewed time that nothing reads
  back into a decision.
* **HTTP schemas, OpenAPI, configuration, logging**: declarative, no state.
* **Operations**: the connection pool, the graceful shutdown, the migration ledger, the
  seeds and deployment scripts; they change state once, by one process, before or after
  the server serves requests. The bootstrap of the first owner is modelled.
* **The inbox of Google's real-time notifications**: it stores messages under a unique
  key and nothing in the code consumes them yet.
* **Security events** that ceremonies append: written, never read by a decision.
* **Communities**: rows of the seed, constants to every model.
* **WebAuthn and e-mail delivery**: external; what they decide is an input.
