# Stellar API: a verification project

TLA+ models of the parts of this API where several requests, background jobs and
staff actions write the same rows: the byte economy (bounties and downloads),
the ratio policy, invites and registration, password recovery, community
leadership, link health, inactivity, rank progression, remote images, forums and
votes. TLC checks each model on small instances, TLAPS
proves the theorems listed below for every value of the constants.
`PROJECT.json` maps each definition to the lines it models and lists runs,
mutants, findings, hazards and theorems.

    tlc -workers 2 -config MCInvites.cfg MCInvites   # any run: its cfg, its module
    tlapm Invites_proofs.tla                         # any *_proofs module

## 1. The system

The API is an Express server over PostgreSQL through Prisma. State lives in the
database; the processes keep none that matters between requests. There are two
sources of concurrency:

- HTTP handlers. Each runs its statements one by one, awaiting each, so any two
  requests interleave at every `await`. Writes that belong together are in an
  interactive transaction (`prisma.$transaction`) at the default isolation,
  READ COMMITTED.
- Jobs. `app.ts` starts one timer per job (ratio policy daily, invite expiry
  hourly, invite grants daily, inactivity, rank progression, link health, remote
  images, ...). A job walks a batch of rows and writes each with what it read
  some statements before.

The code's discipline against the races is the *claim*: an `updateMany` whose
WHERE clause repeats what an earlier read saw, whose row count says whether the
writer won, and which holds the row's lock until the commit. Most of the
properties here ask whether a claim pins enough.

### Components

State and operations of each component; `PROJECT.json` "components" has the
sources. M = modelled, P = partly, - = not modelled (why: section 8).

| | component | state | operations |
|-|-----------|-------|------------|
| P | Balances and ledger (`ratio.ts`) | `User.contributed`, `User.consumed`, `EconomyTransaction` | `debitBalance`, `decrementFloored`, credits |
| P | Requests and bounties (`requestLifecycle.ts`) | `Request`, `RequestBounty`, `RequestFill`, `RequestVote` | create, addBounty, fill, unfill, delete, toggle a vote; text edits and reads |
| M | Download grants (`downloads.ts`) | `DownloadAccessGrant`, `Consumer`, `Contribution.ratioExempt` | grant, reverse, set exemption |
| M | Ratio policy (`ratioPolicy*.ts`) | `RatioPolicyState`, `User.canDownload` | evaluate on download, daily sweep, staff override |
| P | Invites (`invite*.ts`) | `Invite`, `User.inviteCount`, `User.canInvite` | send, re-send, cancel, withdraw, expiry sweep, staff edits, grants |
| P | Registration and accounts (`auth.ts`) | `User`, `InviteTree`, `AccountRecovery`, `SiteSettings.maxUsers` | register, request and use a reset, sign in; password change, sessions |
| P | Community leadership (`communityLeadership.ts`, `routes/api/communities`) | `Community.leaderId`, offer, curators, log | offer, withdraw, answer, staff PUT; the other columns |
| M | Link health (`linkHealth*.ts`) | link status and uptime columns of `Contribution` | probe, report, WARN sweep |
| M | Inactivity (`inactivity*.ts`) | stamps and `disabled` on `User` | daily sweep, sign-ins, staff writes |
| P | Rank progression (`rankProgression*.ts`) | `UserRank`, `RankPromotionRule`, `User.userRankId` | sweep, staff writes of ranks, levels and rules; deleting a rank |
| P | Remote images and assets (`remoteImage*.ts`, `assetSweep.ts`) | `RemoteImage` queue, `Asset` | register, lease, import, sweep, prune; uploads |
| P | Forums (`forum.ts`) | `Forum`, `ForumTopic`, `ForumPost` and their last-post pointers | topics, replies, deletes, trash; counters, polls, notes |
| - | Donors | perks and their end | grant, expiry |
| - | Contributions, releases, groups, tags | catalogue rows | create, edit, merge |
| - | Comments, wiki, rules, collages, bookmarks, friends | content rows | CRUD |
| - | Reports, staff inbox, private messages, notifications | message and report rows | claim, resolve, append |
| - | Reputation, standing, statistics, top 10, CRS history | derived | read-time aggregates, snapshots |
| - | IRC, announce, feeds, stylesheets | tokens, external pushes | polls, documents |
| - | Install, settings, bans, dev tools, log checker, HTTP surface | configuration | reads, one-time writes |

### How they interact

- Bounties and downloads move the same two `User` columns, write one ledger and
  wait for each other's `User` row locks. `Economy` composes both.
- A download starts an evaluation of the ratio policy in the background; the
  policy's `canDownload` in turn gates downloads and invites. `RatioPolicy` has
  the ratio figures as inputs that may move at any time; `DownloadGrants` has
  the gate as a free answer. Each of the two is checked with the other's
  influence over-approximated.
- Registration claims an invite and writes the inviter into the invite tree.
  Disabling or revoking an inviter lapses the invites they have out.
- A seat is an enabled account: registrations, staff creations, re-enabling and
  the inactivity sweep move it. `Seats` has the last as `Disable`.
- An image URL in any stored text keeps its `RemoteImage` row and its asset
  alive; `RemoteImages` has all content as one set of references.
- The invite gates read standing, ratio watch, registration status and
  capacity; in `Invites` a send may be refused at any time for those.

### What is hard here

| behaviour | where it bites | properties |
|-----------|----------------|------------|
| a balance read several statements before its debit | `ratio.ts` `debitBalance` | `NoOverdraft`, `LedgerExplainsBalances` |
| fill, bounty, unfill and delete of one request at once | the claims of `requestLifecycle.ts` | `ContributedIsEarned`, `ConsumedIsPledged`, `FillPaidInFull`, `ImplementsBountyEscrow` |
| rows locked in different orders | refunds of two deletes; two members downloading from each other; a delete's refunds beside a download | `OnlyRefundsDeadlock`, `DeadlocksOverSecondRow`, `OnlyRefundsAndGrantsDeadlock` |
| a reversal after the exemption it was granted under has changed | `downloads.ts` | `BalancesMatchGrants`, `BytesConserved` |
| an evaluation that decides on a row staff have rewritten since | `claimTransition` | `EvaluationsMoveLegally`, `WatchJudgedOnItself`, `OverrideWins` |
| several actors ending one pending invite | `expireLapsedInvite`, `claimCancellation`, `registerUser` | `InvitesConserved`, `InviteReturnsToInviter` |
| an inviter read before a re-send, used after it | `registerUser`, the expiry sweep | `TreeFollowsInvites`, `InviteReturnsToInviter` |
| a job that must come to every row | `ratioPolicyJob.ts`, `inviteExpiryJob.ts`, `linkHealth.ts`, `inactivityJob.ts` | `RatioDisableLifts`, `WatchEnds`, `LapsedInvitesEnd`, `SuspectLinksSettle`, `DormantMembersGo` |
| a count made before the row it makes room for | `registerUser`'s seats | `SeatsNeverOversold` |
| a reset token used, superseded and revoked at once | `resetPasswordWithToken` | `RetiredTokensSetNothing` |
| a form that writes back what it showed minutes ago | staff `PUT /communities/:id` | `OffersAreTheLeaders`, `HandoffsHappened` |
| a compare-and-swap retried with old evidence | `writeLinkState` | `SegmentOpenWhilePass` |
| a batch decided early and written late, mail in between | `inactivityJob.ts` | `NobodyIsDisabledUnwarned` |
| rules stranded by a later edit of the ladder they climb | `evaluateRankChange` | `RanksSettle` |
| a leased queue whose workers die and whose rows are pruned | `remoteImage.ts` | `OneImportAtATime`, `PendingRowsSettle` |
| a reply to a post that is being deleted | `createPost`, `deletePost` | `LiveTopicsHavePosts`, `LastPostsAreLive` |

The whole list, line by line, with the hazards that no property covers yet, is
`PROJECT.json` "hazards".

## 2. Modules

    Sums             totals as cardinalities
     ├─ Sums_proofs         lemmas about totals
     ├─ Accounts            balances, ledger, User row locks
     │   ├─ RequestEscrow   bounties           ──implements──> BountyEscrow
     │   │   └─ RequestEscrow_proofs
     │   ├─ DownloadGrants  grants, reversals
     │   │   └─ DownloadGrants_proofs
     │   └─ Economy         both of the above on one set of accounts
     │       └─ Economy_proofs
     └─ Invites             invites, their sweep and grants, registration
         └─ Invites_proofs
    RatioPolicy             watch, disable, override
     └─ RatioPolicy_proofs

    Seats            registration's seat count       RankProgression  promotion
    Recovery         password resets                 RemoteImages     image imports, sweep
    Leadership       a community's leader            Forum            topics and pointers
    LinkHealth       link status and uptime          RequestVotes     votes of a request
    Inactivity       the inactivity sweep

    Site             nine components that share no state, side by side:
     │               DownloadGrants, Seats, Recovery, Leadership, LinkHealth,
     │               Inactivity, RemoteImages, Forum, RequestVotes
     ├─ MCSite              their instances for TLC
     ├─ Members_proofs      seats, recovery, leadership, inactivity
     └─ Content_proofs      downloads, links, images, forums, votes; all types

`MC<X>` instantiates `<X>` for TLC. A step of `Site` is a step of one component
that leaves the variables of the others alone, and theorems about `Site` hold for
every interleaving of the nine. `MCSite` and `MCProgress` check several components
in one run, the first for safety, the second for liveness, by *scenes*: a
behaviour of `MCSpec` plays one component and leaves the others at rest in one of
their initial states, at the cost of the sum of the components and not of their
product. Nothing is lost by that for a property of one component, since the
others' steps change nothing that it reads; and every behaviour of `MCSpec` is one
of `Site`'s `Spec`, so what is proved of `Spec` is what the run checks.
Definitions whose comment begins *Mutant:* are plausible bugs; no action uses
them. They are what the mutation list of `PROJECT.json` substitutes for the
definition below them, to show that each property notices its bug.

### Conventions

- *Locks.* A row a transaction has updated is locked until it ends
  (`memberLock`, `requestLock`, `grantLock`), and under READ COMMITTED its writes
  are seen at its commit. So an UPDATE is an action that evaluates its WHERE
  clause and takes the lock, and the writes of the transaction are the primed
  variables of its last action. Nothing else can change a locked row in between.
- *Reads* outside or before the claim are actions of their own whose results the
  transaction's record keeps, stale as they may get.
- *Failure.* `Crash(t)` is a lost process or connection, a timeout of the
  transaction or any throw: everything rolls back. `DeadlockVictim(t)` is
  PostgreSQL's answer to a `Circle`, a set of transactions each of which waits for
  one of the others. Which circles there can be is the code's lock order, and is
  what the three deadlock properties state: who may lose a transaction to one.
- Money is in units of one; audits, notices, mails and wording are left out.
- Visibility filters (who may see a request, a contribution, a community) are
  over-approximated: everybody may see everything.

### Accounts

`contributed`, `consumed` and `ledger` per member. `SnapshotHolds` is the WHERE
clause of `debitBalance`: both columns as the caller read them. `FloorSub` and the
flag `floored` are `decrementFloored`.

### RequestEscrow, BountyEscrow

Each operation of `requestLifecycle.ts` that moves bytes is a sequence of actions:
`CreateRead, CreateCommit`; `BountyRead, BountyClaim, BountyReadMember,
BountyCommit`; `FillRead, FillCheck, FillClaim, FillCommit`; `UnfillRead,
UnfillClaim, UnfillCommit`; `DeleteRead, DeleteClaim, RefundLock` once per backer
in any order, `DeleteCommit`. `updateRequest` changes text only and has no
action. `BountyEscrow` is the promise without statements: back, pay, take back,
refund, close, each at once. `ImplementsBountyEscrow` is the refinement; the
mapping takes `Balance` for what a member can spend, the bounty rows for the
stakes and the request's status and `deletedAt` for the outcome.

### DownloadGrants

A grant is `GrantRead, GrantReadConsumer, GrantFindRecent, GrantDebit,
GrantCredit, GrantLink, GrantCommit`, a reversal `ReverseRead, ReverseClaim,
ReverseRefund, ReverseCommit`. The exemption (NONE, FREEPASS, NEUTRALPASS) is read
with the contribution and snapshotted on the grant, and staff change it at any
time. `WindowPasses` ends a grant's idempotency window of two minutes.
`GrantLink` looks the `Consumer` row up and `GrantCommit` fails when another
first download has inserted it since. `Cost` is a constant: a contribution's
`approvedAccountingBytes` and `sizeInBytes` are written when it is created
(`contribution.ts:377`, `:461`), and nothing in `src/` outside seeds and test
fixtures updates either, so no grant can meet a cost that has changed.

### Economy

Instances of the two, on shared account variables; a step of one leaves the
other's variables alone. Their transaction slots are disjoint, so a lock held by
one component's transaction is simply not free to the other's. PostgreSQL has
one wait-for graph: `Economy` has a `DeadlockVictim` of its own, for circles that
pass through both components (a delete refunding two members beside a download
that debits one and credits the other).

### RatioPolicy

An evaluation is `ReadFigures` (ratio and bytes consumed), `LoadRow` (the policy
row and the decision, `Decide` = `decideRatioTransition`), `ClaimTransition`. A
member without a row reads as the OK row `loadPolicyRow` creates. `Download`
starts one in the background, `StartCycle` and `Sweep` are the daily job, which
judges everybody by the instant its cycle began. An override is `OverrideRead`
(`consumed`, the first statement of its transaction, which locks nothing) and
`Override`, the absolute write. What the ratio requires (`meets`) moves freely: it
depends on downloads, contributions, fills and link health, and reading it and
`consumed` in one action loses nothing for that reason. A watch is pinned by its
start, so what can start one has an instant of its own: a download and an override
to WATCH advance the clock (watch starts are in milliseconds).

### Invites

One row per address, as the unique key on the e-mail has it. A request in flight
is a slot: `SendRead`/`SendWrite`, `RegisterRead`/`RegisterWrite`,
`RecountRead`/`RecountWrite`; the jobs have `SweepRead`, `SweepExpire`,
`GrantRead`, `GrantWrite`. Staff may set the rank's invites per period and its cap
at any time: `GrantRead` finds any of `RankSettings`, the grant is written by the
ones it found, and `GrantsKeepToCap` speaks of that cap. Every writing transaction
here claims the invite row first, or is a single statement, and does the rest
under that lock, so it is one action. The two look-ups before the write of
`createInvite` are merged into one (the write re-checks what either saw), a sweep
cycle is one batch, and the clock of a member's grant period is an input (any
member may be due). `key` counts sends: each replaces the row's random
`inviteKey`. `handedOut` is an auxiliary variable, what grants and staff have
added in all. The jobs are assumed to find their SysOp actor.

### Seats

A registration is a transaction: `RegisterRead` (the limit and the duplicate check,
before it), `RegisterLock` (the advisory lock), `RegisterCount`, `RegisterCommit`. Its
claim of an invite is in `Invites`; losing it is an `Abort` here. Staff may exceed
the limit (`StaffOpen`) and move it (`SetLimit`) while a registration goes by the one
it read; `highest` and `uncapped` are auxiliary and say what that allows.

### Recovery

The tokens of one member. `IssueBegin, IssueExpire, IssueCommit` is a request that
expires the live ones; `ResetRead, ResetClaim, ResetPick, ResetExpire, ResetCommit` a
reset: claim first, then the UPDATE of the others, whose choice of rows
(`ResetPick`) and wait for their locks (`ResetExpire`) are two steps; a request's UPDATE
is `IssuePick` and `IssueExpire` alike. A transaction looks at the clock when it
begins (`ResetBegin`, `auth.ts:613`), and its conditions compare `expiresAt` with that
instant whatever they wait for. `retired`, which records the instant at which a
token was ended, and `sets` are auxiliary.

### Leadership

One community row. `AnswerRead` then `Accept` or `Decline` (the write repeats what was
read) or `AnswerLost`; `WithdrawRead, Withdraw`; `OfferLeadership` is one step since its
write repeats all that the reads before it saw. The staff form is `FormRead, FormWrite`
and repeats nothing. `EditCurators` and `SetDisabled` make an offer lapse.

### LinkHealth

`CheckRead, Probe, Swap` and `ReportRead, Swap`; a miss is `Miss`, then `Reread` with the
evidence and the instant kept, or `GiveUp` when the attempts are spent. `SweepRead`,
`SweepWrite` are the WARN sweep. `Accrue` is `applyHealthAccrual`.

### Inactivity

`StartCycle` and `LoadBatch` read a batch and evaluate it as read, `ApplyWarn` and
`ApplyDisable` go through it in order of id, each under the claim `AsRead`. Days
are kept as ages that stop at the thresholds. A cycle remembers which stamps were
written since it read a member: that is what comparing them with the values read
finds out. `Day` lets no day pass without its cycles. `Batch` is the query's
`cursor`, `skip: 1` and `take`: Prisma asks for ids from the cursor's on and drops
the first row it finds, which is the next member when the cursor's own row has
left the filter since. `DisableUncounted` is an error after a disable's claim: the
member is disabled and the cap does not know it.

### RankProgression

One member, since members meet nowhere but in the ladder. `LoadLadder` once per
sweep, `LoadMember`, `Decide`, `ApplyRankChange`. What freezes a member (`Causes`) is
noticed where the code reads it: a lock with the member, a warning with the
member's record, and either by the claim. `Steps` is `evaluateRankChange`, a set: when
two rules leave a rank, the database says which is found. What the rules require
is an input (`stock`, `ready`).

### RemoteImages

A URL's row goes `none`, `pending`, `imported` or `failed`. A cycle is `DueRead`,
`Lease` per row, then `PutAsset` and `RecordImported` or `FetchFails`; `ComesDue`
is nextAttemptAt coming to pass. A phase *moved* stands for the nextAttemptAt read
being no longer the row's. The daily sweep is `SweepColumns, SweepCandidates,
SweepAssets, PruneColumns, PruneRows`, beside writes that register first and store
later.

### Forum

`CreateTopic` and `DeleteForum` are one step each: their first write locks the forum's
row, and they read nothing they use before it. A reply is `ReplyRead`, `ReplyLooks`
(for its author's post to append to), `ReplyAppends` or `ReplyPosts`; `DeletePost`,
`DeleteTopic` and `TrashTopic` have their read apart. A forum's last topic is
recomputed by `LastTopic`; trashing recomputes only that of the forum left.

### RequestVotes

`ToggleRead`, then `ToggleWrite`, which fails when the vote is not as read.

## 3. Runs

States are distinct states; times on two workers.

| run | states | asks |
|-----|--------|------|
| `request_escrow` | 767 k | two interleaved transactions of any kind on two requests: balances, pots, awards and ledger agree, only refunds deadlock, and every operation looks atomic (refinement of `BountyEscrow`) |
| `request_fill_once` | violation | one contribution filling two requests |
| `download_recent` | violation | two requests within the window for one contribution |
| `economy` | 222 k | two request transactions beside a download transaction on shared balances: every byte is accounted for, only exemptions make bytes, and only refunds and grants deadlock |
| `ratio_policy` | 62.8 k | an evaluation by a download and one by the daily sweep beside overrides: legal moves, canDownload, no watch ended on another's account; under a fair sweep disables lift and watches end |
| `ratio_override` | violation | an override against an evaluation in flight |
| `invites` | 2.9 M | two requests, sweep, staff and grants on one address, a rank that staff edit: conservation, tree, cancelled addresses, cap |
| `invite_return` | violation | the sweep against a re-send by another member |
| `site` | 662 k | downloads, seats, recovery, leadership, link health, inactivity, images, forum, votes, a scene each: balances are what the completed grants moved, deadlocks are over the second row, and each component keeps what its claims are for |
| `progress` | 42.0 k | invites, link health, inactivity, ranks, images, a scene each, under their fairness: what must happen does |
| `leadership_offer` | violation | a staff form across a handoff and the successor's own offer |
| `forum_last_post` | violation | a reply appended to a post deleted meanwhile |

The longest, `invites`, takes about two and a half minutes.

### Bounds, and why they are enough

- *Two transactions, requests or evaluations in flight.* Every guard in
  this code compares a row with one earlier read, so a bad interleaving needs one
  stale reader and one writer; the third actor, where one matters, is a job
  (sweep, grant) which has its own slot, or comes before or after: the slots are
  reused without bound.
- *Two members, two contributions*: one acts on the other's rows, and each can be
  on both sides (backer and filler, consumer and contributor).
- `PledgeLimit` bounds a bounty. Without it pots grow for ever: fill, pledge what
  was earned, unfill. `Amounts = {1}` and costs 1 and 2 make balances that just
  suffice and ones that fall short by one.
- Request and grant ids are never reused, so their number bounds the creations.
  When all are deleted or reversed the runs stop, hence `CHECK_DEADLOCK FALSE`
  there; the ratio, invite and progress runs are checked for deadlock.
- `economy` has two request transactions, one download and one id each: the
  download against each of them and both at once. What downloads do among
  themselves is the `site` run's question.
- `Levered`, `Moderated`: staff levers on some contributions or members only; the
  others differ in nothing else.
- `MaxClock` and `Lifetime`, `WatchDuration`: one lifetime and one instant beyond
  it. `MaxConsumed` reaches the download limit. `MaxSends` two: a row is
  re-sent once, by the same member or the other.
- `progress` has the smallest instance in which the thing waited for can be kept
  from happening: one invite and one link (no row
  delays another: the sweeps write all they read), two members in batches of one
  under a cap of one
  disable a cycle, three ranks on four levels with a rule over the middle one,
  one image with two overlapping cycles of which one may die.
- `site`: the leadership scene has an open community, since only that may be left
  without a leader; the log holds two entries, which is a handoff after a handoff;
  the forum has one topic of three posts, so that a delete leaves one, none, or a
  topic to cascade; two tokens, live for two instants, are a reset's own and one
  it ends or is ended by, at the same instant or later. One link has two writers
  beside the sweep and a clock of three instants, one more than the window.
- `MaxEdits` one: staff or the record change once in mid-sweep; the initial state
  has every ladder and record there is, hence all that an edit can lead to.
- `Moderated` of `Inactivity`: staff act on one member, in `progress` the second. Were
  it the first, `DormantMembersGo` would not hold: staff who exempt the first
  between the two batches of a cycle, and back before the next, and do so every
  day, have the second passed over every day (section 4).
- `RankSettings` two: a lower and a higher cap, so that a batch may hold either.
- `StaffMax` is above `Cap`, as in the code.

### Fairness

- `RequestEscrow`, `DownloadGrants`, `Economy`: none. That a transaction ends is
  PostgreSQL's doing, by queues for row locks and by its deadlock detector,
  whatever the code's lock order; what that order decides is who can be in a
  deadlock, and that is a safety property.
- `RatioPolicy`: SF on the steps of the sweep (a daily timer; a failed member is
  logged and met again the next day, so a step that keeps being possible succeeds
  some day), WF on time. None on evaluations started by downloads, which are
  fire-and-forget.
- `LinkHealth`: WF on time and on the daily sweep, none on checks or reports.
- `Inactivity`: WF on `Progress`, the calendar and the job together, one step of which
  is always enabled: every day has its cycles and they run to their end. None on
  members: they may never sign in.
- `RankProgression`: WF on the steps of a sweep. Edits are bounded, so they stop; the
  property says where promotion rests once they have.
- `RemoteImages`: WF on a cycle's steps and on a due time coming to pass, none on
  members, and a cycle may die at any point.
- `Invites`: WF on the hourly timer, SF on the expiry of a row, whose transaction
  may fail but is retried by every later cycle.

Evaluations, sweeps and cycles of the liveness runs may fail or die where the code
allows it, within the bounds on failures; fairness is on their steps, never on
their success.

## 4. What the runs found

Six runs are violations: each refutes what a comment, a schema note or a test
says, by what the code does.

1. `ContributionFillsOneRequest`. `fillRequest` looks for another request filled by
   the contribution (`requestLifecycle.ts:509`: "Guard against the same
   contribution already filling a different request") and then claims only its
   own request. Two fills of two requests both find none and both are paid.
2. `RecentGrantReused`. The look-up of a recent grant (`downloads.ts:111`:
   "Idempotency: reuse a recent COMPLETED grant") holds nothing. With a charged
   download the compare-and-swap of the debit refuses the second of two
   concurrent requests; under an exemption nothing does, and the contributor is
   credited twice.
3. `OverrideWins`. `claimTransition`'s comment (`ratioPolicy.ts:110`) has a staff
   override leave a racing evaluation nothing to move. The claim compares status,
   cause and watch start; an override to OK of a row already OK changes none.
4. `InviteReturnsToInviter`. `expireLapsedInvite` re-reads `spent` after its claim but
   not the inviter, which its caller read before. When another member has re-sent
   the lapsed row since and it has lapsed again by their revoke or disable, the
   sweep pays the first inviter a second time and the second not at all. The
   balance as a whole is conserved, so only this property sees it.
5. `OffersAreTheLeaders`. `communityLeadership.ts:89` has every write that moves
   `leaderId` clear the offer. The staff PUT clears it when its form's leader
   differs from the leader it read; when the leader has handed over since and the
   successor has made an offer, the PUT moves the leader back and leaves that offer
   standing, for whoever it names to accept. The handoff is undone without a log
   entry.
6. `LastPostsAreLive`. `schema.prisma:975` has the last-post pointer kept correct by the
   delete's recompute. A reply that has found its author's post at the end of the
   topic then updates it by id and points the topic at it; a delete committed in
   between is pointed back at. `LiveTopicsHavePosts` holds all the same: the topic
   still lists live posts, or is gone.

Four more are known from the models and have no run:

- *Uptime counted twice.* A check that passed at one instant misses its swap
  because a report banked the segment at a later one; its retry finds WARN and
  opens a segment at its own, earlier instant (`linkHealth.ts:181`). The time
  between is counted twice. It is as short as a retry, and the code states no
  bound that it breaks.
- *An asset swept from under new content.* Content naming an imported URL is
  stored between the asset sweep's scan of the columns and its delete: the
  asset goes, its row with it by cascade, and the URL is registered again only when
  some content naming it is next saved (`assetSweep.ts:160`).
- *A reset served after it was superseded.* `auth.ts:614` has the claim match nothing
  once a newer request superseded the token. The claim compares `expiresAt` with
  the instant its transaction began. A request that begins later and commits first
  sets `expiresAt` to its own, later instant, and the claim still matches. The
  window is the wait between two statements; `RetiredTokensSetNothing` says what
  does hold.
- *A member passed over by the paging.* `inactivityJob.ts:70` pages by the id of
  the last row read and `skip: 1`. When that member leaves the filter between two
  batches (a sign-in does not do so; a disable, an exemption or the sweep's own
  disable does), the row dropped is the next member in scope, who waits a day.

## 5. What is proved

TLAPS, for every value of the constants allowed by the named assumptions: any
members, any number of evaluations or requests in flight, any durations, limits,
caps and bounds, and any number of transactions (finite sets of members, requests,
grant ids and addresses, which totals need).

| theorem | module | says |
|---------|--------|------|
| `PolicyTypeCorrect` | `RatioPolicy_proofs` | `Spec => []TypeOK` |
| `CanDownloadTheorem` | | `Spec => []CanDownloadFollowsStatus` |
| `LegalMovesTheorem` | | `Spec => EvaluationsMoveLegally` |
| `WatchJudgedTheorem` | | `Spec => WatchJudgedOnItself` |
| `EscrowTypeCorrect` | `RequestEscrow_proofs` | `Spec => []TypeOK`: no balance or bounty below zero |
| `FillPaidInFullTheorem` | | `Spec => []FillPaidInFull` |
| `ContributedIsEarnedTheorem` | | `Spec => []ContributedIsEarned` |
| `ConsumedIsPledgedTheorem` | | `Spec => []ConsumedIsPledged` |
| `LedgerTheorem` | | `Spec => [](LedgerExplainsBalances /\ FloorNeverBinds)` |
| `NoOverdraftTheorem` | | `Spec => NoOverdraft` |
| `EscrowRefinesTheorem` | | `Spec => ImplementsBountyEscrow` |
| `OnlyRefundsDeadlockTheorem` | | `Spec => []OnlyRefundsDeadlock` |
| `GrantsTypeCorrect` | `DownloadGrants_proofs` | `Spec => []TypeOK`: no balance below zero |
| `BalancesTheorem` | | `Spec => []BalancesMatchGrants` |
| `GrantLedgerTheorem` | | `Spec => [](LedgerExplainsBalances /\ FloorNeverBinds)` |
| `GrantsNoOverdraftTheorem` | | `Spec => NoOverdraft` |
| `DeadlocksTheorem` | | `Spec => []DeadlocksOverSecondRow` |
| `EveryByteTheorem` | `Economy_proofs` | `Spec => []EveryByteAccountedFor` |
| `BytesConservedTheorem` | | `Spec => []BytesConserved` |
| `EconomyFloorTheorem` | | `Spec => []FloorNeverBinds` |
| `EconomyNoOverdraftTheorem` | | `Spec => NoOverdraft` |
| `EconomyLedgerTheorem` | | `Spec => []LedgerExplainsBalances` |
| `EconomyFillsPaidTheorem` | | `Spec => []FillPaidInFull` |
| `MixedDeadlocksTheorem` | | `Spec => []OnlyRefundsAndGrantsDeadlock` |
| `InvitesTypeCorrect` | `Invites_proofs` | `Spec => []TypeOK`: no balance below zero |
| `InvitesConservedTheorem` | | `Spec => []InvitesConserved` |
| `TreeTheorem` | | `Spec => []TreeFollowsInvites` |
| `CancelledHoldsTheorem` | | `Spec => CancelledHoldsAddress` |
| `CapTheorem` | | `Spec => GrantsKeepToCap` |
| `SeatsTheorem` | `Members_proofs` | `Spec => []SeatsNeverOversold` |
| `RetiredTokensTheorem` | | `Spec => RetiredTokensSetNothing` |
| `HandoffsTheorem` | | `Spec => HandoffsHappened` |
| `UnwarnedTheorem` | | `Spec => NobodyIsDisabledUnwarned` |
| `SiteTypeCorrect` | `Content_proofs` | `Spec => []TypeOK`, of all nine components |
| `SiteBalancesTheorem` | | `Spec => []BalancesMatchGrants` |
| `SiteLedgerTheorem` | | `Spec => []LedgerExplainsBalances` |
| `SegmentsTheorem` | | `Spec => []SegmentOpenWhilePass` |
| `OneImportTheorem` | | `Spec => []OneImportAtATime` |
| `TopicsTheorem` | | `Spec => []LiveTopicsHavePosts` |
| `VoteCountTheorem` | | `Spec => []VoteCountMatches` |
| `TotalType`, `TotalSet`, `TotalRaise` | `Sums_proofs` | a total is a natural number, and moves by what a value moves |
| `TotalPlus`, `TotalSwap`, `TotalOfParts` | | a sum of two totals; a table by rows and by columns; a total part by part |

*RequestEscrow.* What makes the money invariants inductive is what a transaction
knows between two statements. `IInv` adds `ClaimHolds` (past its claim a
transaction holds the request's row, and the row is still what the claim matched:
open, filled by the member read, or of the status read), `CreatesAlone` (the id a
create will insert is nobody else's) and `RowsFormed` (what a row's status says of
its other columns and bounties). A commit then writes a row that is what its read
said, so the pot credited is the pot held, the award clawed back is the pot paid,
and the backers refunded are all the backers. `Money` states the totals;
`TotalOnMove` (one owner starting or ceasing to count moves the total by that
owner's value) gives each commit's effect on them, and `TotalOnCovers` that a
claw-back or refund never exceeds what the member holds, hence the floor never
binds. The refinement has one lemma per commit (`FillCommitRefines` and so on: that
commit is that one move of `BountyEscrow`) and `ReadsAndRollbacksAreQuiet` for the
rest. Deadlocks need to know who holds what: `LocksHeld` (a User row is held across
statements only by a delete in the middle of its refunds, a request's row only past
a claim). Who is at its claim holds nothing, so nobody in a circle is; all of them
wait for User rows, and so for refunds.

*DownloadGrants.* Every transaction in flight is `Sound`: a grant's id is its own
until it commits (`CreatesAlone`), a reversal carries what the grant's row says and
past its claim holds that row, still completed (`ReversesRow`), and whoever is about
to move a balance holds its member's row, a consumer past the debit with the very
balance that was compared (`HoldsMembers`). So a reversal that was read long before
its claim still undoes what the grant moved and does it once, and the debit still
covers the cost at the commit. `OthersKeep` says when a step of one transaction
leaves the others sound. For the deadlocks, this component's `LocksHeld` says that
who holds a User row waits for nothing more, or has its consumer's and waits for the
contributor's, and that a grant's row is held only past a reversal's claim.
`MoneyMoves` gives a commit's effect on the totals, and
`GrantIsInBalances` that a refund or claw-back is always covered.

*Economy.* Each component's inductive invariant is written so that it survives
company: it speaks of no absolute balance, only of what a member has earned and
spent *elsewhere* (`EarnedElsewhere`, `SpentElsewhere`: the column less what this
component moved in it), which must not be negative and which no step of the
component changes (`ElsewhereStays`). Alone, elsewhere is the opening balance; in
`Economy` it is the doing of the other component. `Economy_proofs` instantiates
both proofs modules. Each sees its own transactions' locks only
(`RequestMemberLock`, `DownloadMemberLock`): to it a row that the other holds is a
free row that stands still, which is what the shared row locks guarantee
(`RequestSparesHeldRows`). Each step of `Economy` is then a step of its own
component (`RequestAdvances`, `DownloadAdvances`), whose proved step is cited, and
leaves the other's invariant alone, since it keeps that one's rows, moves no row
it has locked, and takes no column below what it counted. `EInv` is both
invariants and `BothExplain`: a column is what the two moved in it. That is
`EveryByteAccountedFor`, and `BytesConserved` follows from it in every state, with
no further induction: every filled request pays one member and every completed
grant one contributor and one consumer (`TotalOfParts`), pledges add up to pots by
rows as by columns (`TotalSwap`), and a pot not refunded is paid or held
(`TotalPlus`). `LocksOrdered` is each component's `LocksHeld`, and
`MixedDeadlocksTheorem` asks of every holder of a User row what it may itself
still wait for.

*Site.* `EachMovesAlone` takes a step of the site apart: it is a step of each
component or leaves it alone. Each component then has its own inductive invariant.

- *Seats*: `OneInside` (the advisory lock admits one registration between count and
  commit) and `SeatKept` (the seat it counted is still free, since what staff take
  besides is counted as uncapped).
- *Recovery*: `LocksApart` (no row is held twice), `HeldOutlives` (a row that is held is
  open and outlives its holder's instant), `ClaimIsHeld` (a reset past its claim holds
  its token), `IssuesAlone` (the token a request will insert is nobody else's) and
  `EndsStay` (a token that was ended does not outlive the instant of its end).
- *Leadership*: the type suffices. An accept writes under a claim that repeats the
  leader and the offer it read, so what it logs is what its step does.
- *Inactivity*: `DecisionsStand`: a decision to disable whose stamps have not moved
  since it was read stands on a warning that is out for its grace. Sign-ins, staff
  and other cycles all move a stamp that the write's claim repeats. How a batch is
  chosen does not matter to it (`LoadKeeps`).
- *Downloads*: nothing is proved twice. `Granting` instantiates `DownloadGrants_proofs`
  in the site; each action of the site's instance is shown to be that action, and
  `NextKeeps` is cited for the step.
- *LinkHealth*: `WritersKnown`: the row a writer computes from is well formed in
  itself, so that a swap leaves a segment open exactly when it leaves PASS.
- *RemoteImages*: `HeldAlone`: what a cycle holds is pending under a lease, and every
  other cycle that had read the row as due has seen its `nextAttemptAt` move, so
  its own conditional update will miss; `RetriesLeft`, which the type needs: a
  pending row has a retry left to schedule.
- *Forum*: `PointersAreOwn` (a pointer is at a post of that topic), `RequestsKnown` (a
  reply or delete in flight is at a post of its own topic, whatever has become of
  both) and `TopicsAreListed`. `NewestIs` and `LastTopicIs` say what the recomputes
  return; that a finite set of posts has a newest is `MaxExists`.
- *RequestVotes*: `TogglesKnown`, and the library's facts on cardinalities.

*RatioPolicy.* The invariants alone are not inductive: an evaluation claims with
a row it read long ago. `IInv` adds `RowsWellFormed` (a row has a cause exactly when
it is a disable) and `EvaluationsHaveWork` (an evaluation at its claim holds a
well-formed row and a decision that changes it). The lemma `DecideIsLegal` says
what a decision on a well-formed row can be. The claim matches status, cause and
watch start, so what is written is a legal move from the row found, not only
from the row read; this is where a claim on the status alone would fail.

*Invites.* `IInv` adds `RowsHaveSenders` (a refund has somebody to go to) and
`RequestsFormed`, whose core is `KeyNamesSender`: the key a registration has read is
not newer than the row's, and while it is still the row's, the row's inviter is
the one the registration has read. Keys only grow, so a claim that matches on
the key also matches the inviter, and the tree edge is right although it is
written from a read before the claim. Conservation rests on `PaidOutMoves`
(rewriting one row moves the number of paid invites by that row alone),
`RefundRaises` and the lemmas of `Sums_proofs`. One lemma covers each kind of
step (quiet, request, refund), and one each of the writing actions.

*Sums.* A total is defined as the number of pairs <<owner, unit>>. That is the same
sum, but every fact about it follows from the library's theorems on finite sets
with no induction.

Every safety invariant and action property that a passing run checks has a theorem.
Model-checked only: everything about `RankProgression` (its one property is a
liveness property), and every liveness property: liveness under fairness and
ENABLED are outside what the prover does. Induction over data would be too, but
no definition here recurs: totals are cardinalities, and where an argument goes
down a finite set (`MaxExists`) it uses the least element that a well-founded order
on its parts has (`LeastSubset`).

## 6. Assumptions about the environment

PostgreSQL's row locks, READ COMMITTED visibility, unique keys and deadlock
detection, the clock and the loss of a process are modelled from how the code
relies on them and marked external in the map. Timers run one cycle of a job at
a time, in one process.

The named assumptions on the constants say that ids, amounts and durations are
what the columns hold (natural numbers, `None` being SQL's null and no id), that
sets which are summed or ordered are finite, that opening balances are natural
numbers, and in `Economy` that a slot is a request's or a download's and not both.

## 7. Plan

Done: `Sums`, `Accounts`, `RequestEscrow` with `BountyEscrow`, `DownloadGrants`,
`Economy`, `RatioPolicy`, `Invites` with the theorems above, and `Seats`, `Recovery`,
`Leadership`, `LinkHealth`, `Inactivity`, `RankProgression`, `RemoteImages`, `Forum`,
`RequestVotes` with their runs. Next, in this order:

1. Proofs: the part of each refuted property that the code does keep (a grant made
   with no other request of its member in flight reuses a recent one; an invite
   whose row was not re-sent returns to its sender), and an abstract economy, with
   pots and balances only, which `Economy` implements.
2. The counters of `Forum`, and the merge of two release groups.
3. Reports (claim and resolve) and the expiry of donor perks.

## 8. Not modelled, and why

- Content components (wiki, comments, collages, tags, releases): rows written once
  or under unique keys, with no invariant across actors that a database constraint
  does not already state.
- Of modelled components: the forum's counters (only ever incremented and
  decremented), polls and notes; a community's access rules and creation;
  `changePassword`, sessions and lockout, where the last writer wins by design; the
  inactivity job's modes that change nothing; the deletion of a rank, which a
  foreign key refuses while members hold it.
- Read-time computations (reputation, standing, statistics, top 10, the ratio
  brackets): pure functions of other tables; `RatioPolicy` takes their answer as
  an input.
- I/O (IRC, announce, feeds, e-mail, image fetching, link probing): what is sent
  is not state of the system.
- Pure parsers and generators (log checker, dev tools, OpenAPI document), set-up
  (install, settings, seed) and the HTTP surface: sequential code that tests
  reach.
- Components under "Plan" above.
