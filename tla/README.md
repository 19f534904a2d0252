# Formal model of the Linkeon server (`spirits_back`)

This directory holds TLA+ specifications of the parts of the server that carry a
protocol of their own: **products**, the sites and bots that users order and a
coding agent builds in a container; the **money** that pays for everything; the
**keys** of a product, its deletion for good and the agent that carries both out;
the **blog** and the **shorts**, two pipelines that publish what the owner has
approved; the **own domains** of products; and the **trial** of an assistant before
there is an account. Every definition is translated from the TypeScript and SQL under
`src/`; `PROJECT.json` maps each one to its lines.

## 1. The system

The server is a NestJS process, or several (the production runs in cluster mode
during a rollout: `rent.service.ts:370-379`). A method of a service is a sequence
of SQL statements with `await` between them; a statement is atomic, and so is a
transaction for whoever needs the rows it has locked; nothing else is. Between two
statements any other request, timer or report may run, and the process may die.

| Part (under `src/src/` unless said) | State it keeps | Operations | Here |
|---|---|---|---|
| `products/provisioning.service.ts` | `products.status`, `product_provision_jobs` | create, retry, claimJob, completeJob, promoteReady, failStaleProvisioning | `Provisioning`; the jobs of keys and erasure in `Cards`, `Purges` |
| `products/turns.service.ts` | `product_turns`, `products.runner_seen_at` | enqueue, claimNext, touchRunner, markProgress, complete, reapStuck, markStaleRunners | `Turns` |
| `products/rent.service.ts` | `products.paid_until`, the balance | chargeRent, chargeOnStart, tick, requestSleep, wakeAffordable | `Rents` |
| `products/block.service.ts` | `products.block_reason` | block, unblock | `Block` |
| `products/product-lifecycle.service.ts` | `products.archived_at`, the journal of actions | completeDelete, sleepDeletedTick, restore | `Deletion`, `Purges` |
| `product-runner/src/host/*` (the agent of a machine) | the containers, works by slug | its loop, queueBySlug, runJob, deliver | `HostAgent`, `Rekey` |
| `product-runner/src/{index,turn,api}.ts` (in a container) | the turn it executes | poll, progress, report | `Turns` |
| `products/product-actions.service.ts` | confirmation cards | claim, release, finish, cancel, sweepStuck | `Cards` |
| `products/product-keys.service.ts`, `host/rekey.ts` | keys, rekey jobs with an unknown outcome | open, complete, completeRekeyJob | `Cards`, `Rekey` |
| `products/product-purge.service.ts`, `host/purge.ts` | wiped products, purge jobs | wipeExpired, queuePurges, completePurgeJob | `Purges`, `Rekey` |
| `payments/payments.service.ts` | `payments`, coupons | createPayment, the notification, reconcilePendingPayments, redeemCoupon | `Payments` |
| `referral/referral.service.ts` | leaders, referees, commissions, claims on them | register, processPaymentCommission, requestWithdrawal, payoutTokens, processWithdrawal | `Referrals` |
| `tokens/`, `scheduler/token-accounting.service.ts`, `identity/identity.service.ts` | the balance, the queue of deductions, the bonus and the merge of accounts | add/consume_user_tokens, processTokenTasks, mergeAccounts | `MoneyState`, `Accounts` |
| `blog/` | posts in slots | prepareDrafts, sendForReview, approveIntoFreeSlot, leaveQueue, publish, rearmStuck | `BlogState`, `BlogDrafts`, `BlogQueue`, `BlogPublisher` |
| `shorts/` | a video and its row for each platform | publish, rearmStuck, the upload and its session, retry, markPublished | `ShortUpload`, `Shorts` |
| `products/domains.service.ts`, `host/domain.ts`, `scripts/product-vhost` | claims on names, the config of nginx, certificates | attach, check, checkPending, tryIssue, detach, reconcileOrphans, completeDomainJob, applyDomain | `DomainState`, `DomainClaims`, `DomainAgent` |
| `products/hosts.service.ts`, `limits.service.ts` | capacity of a machine, limits of an account | pickForNewProduct, assertCanCreate | not yet |
| `guest-trial/`, the reading of its retelling in `chat/chat.service.ts` | trials, their messages, the retelling in Redis, the turns in memory | the turn of a guest, recordExchange, claim, purge | `Guest` |
| `alert-bot/` | inbox of updates, turns, drafts | claimUpdate, failUpdate, admitTurn, claim of a draft | not yet |
| chat, agents, voice, speech, avatar, meeting | streams of external models | I/O that keeps little state | not modelled |
| content services (notes, calendar, profile, ...), channels, admin, backups, relay agent, studio, infra, scripts | rows of a table, adapters, wiring | no protocol between actors | not modelled |

### How the parts meet

```
 owner, admin --HTTP--> services --SQL--> products / jobs / turns / balance
 timers (onModuleInit) --+   ^                       ^
                             | claimJob/completeJob  | touchRunner/claimNext/complete
                       host agent --docker--> container with the runner

 customer --> provider --notification--> payments --> balance, commissions
                   ^------reconciliation (timer)--+
 owner --Telegram, cabinet--> blog, shorts --timers--> channel, YouTube
```

* A product has at most one active job (`product_provision_jobs_one_active`) and
  at most one active turn (`product_turns_one_active`). These two indexes are the
  only locks between services, so whatever holds the place of a product and never
  leaves it stops the product.
* The agent is told of a job by its poll. The row is `running` from that
  statement on, whether or not the answer arrives. Its report closes the row only
  while the row is still `running` and is still that row.
* The agent gives a job a budget. When the budget is over it reports a failure
  and takes the next job, **but the work goes on**; works on one slug queue up
  behind one another (`queueBySlug`).
* `promoteReady` is the only way to `running`: it selects, measures the heartbeat
  and the public address, and updates with the same conditions again. The flow
  that promoted goes on to charge the month (`chargeOnStart`).
* A card is claimed by one press, and its operation then runs under it; the
  statement that queues the job writes the box with the keys into the card, and
  whatever closes the card erases the box.
* A payment is settled by whoever hears of it first: the notification, a repeated
  one, or the reconciliation every few minutes.
* The blog's queue is the set of approved posts ordered by slot. A departure moves
  the posts behind it up, under row locks and in one transaction; an approval
  reads the queue and writes under the same locks; a free slot, which no row's lock can
  hold, is the unique index's.
* A short is claimed by an attempt, and each platform's row again: two tokens,
  both looked at before anything leaves the house.
* A trial is moved into an account by one transaction, and its retelling is left in
  Redis for the next turn of that account with the same assistant.
* The timers repeat what was cut short: `failStaleProvisioning`, `reapStuck`,
  `markStaleRunners`, `tick`, `wakeTick`, `sleepDeletedTick`, `sweepStuck`,
  `wipeExpired`, `queuePurges`, `checkPending`, `reconcileOrphans`,
  `reconcilePendingPayments`, both `rearmStuck`.

### What is hard in it

Interleavings of multi-statement flows; reports and notifications that come late,
twice or never; works nobody waits for any more; a process that dies between two
statements; clocks that expire at the wrong moment; one purse for several products;
things that cannot be taken back (a post, an upload, a payout, an erased directory)
done by an actor that cannot know whether it is still the one to do it.
`PROJECT.json` lists the hazards the properties are about, each at its line. Those
the code lets happen are in section 4, those that no model reaches yet in section 6.

## 2. The modules

```
                    ProductState
   +----------+---------+-----------+----------+----------+
 Turns      Rents   Provisioning  HostAgent   Block    Deletion
   +----------+---------+-----------+----------+----------+
                     Products ---implements---> Tenancy
                    +---+--------+
               MCProducts   ProductsProofs

   CardState             MoneyState              BlogState           ShortUpload
  +----+------+      +-------+--------+          BlogQueue               |
 Cards Rekey Purges Payments Referrals Accounts  +------+----+        Shorts
  +----+------+      +-------+--------+     BlogDrafts BlogPublisher  +---+----+
     Keys                  Money                 +------+----+    MCShorts ShortsProofs
   +---+----+            +---+----+                   Blog
 MCKeys KeysProofs   MCMoney MoneyProofs            +---+----+
                                 |             MCBlog BlogProofs
                             SumProofs

   DomainState                                 Guest
  +-----+------+                             +---+----+
 DomainClaims DomainAgent                 MCGuest GuestProofs
  +-----+------+
     Domains
  +-----+------+
 MCDomains DomainsProofs
```

In every group the lowest module declares the variables, the constants and their
assumptions; the modules above it have one action per SQL statement, so that two
statements of one method are two actions with anything between them, and an
operation of one statement or of one locked transaction is one action; the topmost
composes them and states the properties. A *flow* is a request or a timer callback
between two statements: it remembers the statement it is about to execute and what
the code keeps of what it has read; everything else it read is gone.

### Products

`HostAgent` has the loop of the agent, the works it started and the network between
it and the server. `Products` adds the death of a flow (`WorkerDies`). `Tenancy` is
the abstract specification: the life of a product, the month it has paid for and the
purse of its owner, with no jobs, machines or flows. `TenancyHolds` is the
refinement: `LifeOf` maps a status to a place of the abstract life, `paid_until` and
the balance map to themselves.

| Variable | Code |
|---|---|
| `status`, `blockReason` | `products.status`, `block_reason IS NOT NULL`; `archived_at` is set exactly in `archived` |
| `paidLeft` | `paid_until - now()` in units of the calendar, no further back than one month (nothing tells older debts apart but their order in `wakeAffordable`) |
| `seen` | age of `runner_seen_at`: `fresh` is within `HEARTBEAT_FRESH_MS`, `lost` past the five minutes of `markStaleRunners` |
| `prevStatus` | `prevStatus` of the newest closed delete action; only `failed` matters to `restore` |
| `job`, `aged` | the newest row of `product_provision_jobs` of each product and whether it is past `DEADLINE_SQL`; `late` is `created_at >= archived_at` |
| `sleepFails` | the count of failed sleeps since `archived_at` that `queueSleepForDeleted` makes |
| `turn` | the newest row of `product_turns`; `silent` is past `TURN_SILENCE_SQL`; `charged` is a history variable |
| `balance` | `ai_profiles_consolidated.tokens` |
| `box`, `task`, `agent`, `reports` | docker, the works by slug, the job of the loop, `completeJob` calls in flight |
| `runner`, `turnReports` | the turn being executed, `complete` calls in flight |

Older rows of a product are dropped: no statement of the modelled services looks
past the newest job or turn, but for the count kept in `sleepFails`. Time is never
a number except the paid time: each threshold is an action that may happen at any
moment (`DeadlinePasses`, `TurnFallsSilent`, `HeartbeatAges`), which covers every
real ordering of them. `DeadlinePasses` leaves a product alone while its create
is between two statements (the deadline is tens of minutes).

The administrator may block a product between the two inserts of `create`, and what
`create` does next knows nothing of it: it queues the provisioning of a blocked
product, or its undo writes `failed` over the block (section 4). The history
variable `crossed` keeps the products this has happened to, until the administrator
next blocks or unblocks them. `JobFits` and `BlockHasReason` name what is not so of
them; the other properties hold of them too. In `Tenancy` such a product is
`astray`: where it may be is left open, what it pays is not. A product is `ordered`
there as long as `create` is at work on it, which keeps what only that flow may do
apart from what anybody may.

### Keys

One product, created and running, whose owner opens cards that change its keys and
who may delete it. `Cards` has the card, the call under it, its job on the side of the
server, and the turns the change must not cut. `Rekey` has the agent, one docker command per
action: a command may fail having done its work or not, the undo goes by what it
finds on the machine, the loop stops waiting for a work that goes on, the process
dies. `Purges` has the deletion, the return, the wipe of the keys, the erasure and
the collector of stale jobs.

| Variable | Code |
|---|---|
| `status`, `term`, `purged` | `products.status`, `purge_after <= now()`, `purged_at IS NOT NULL` |
| `stored`, `card[c].box` | whose keys `secrets_encrypted` holds; `secrets_box IS NOT NULL` of the card |
| `card[c]` | `product_actions`: status, expiry, and what its result tells the owner |
| `keyJob[c]`, `purge`, `purgeFails`, `aged` | rows of `product_provision_jobs`; `by` is who took the job down (its `error`) |
| `loop`, `work`, `reports` | the job the agent's loop waits for, the work on the slug and its next command, reports under way |
| `main`, `backup`, `up`, `vhost`, `dir` | the keys in the container `<slug>` and in `<slug>__rekey`, whether it runs, the vhost, the directory |
| `faults` | bound on what fails, gets lost or dies |

A set of keys is told apart by the card that brought it. The products of the first
group and this one describe the same tables at two grains; they are not composed,
because the first has no keys and this one no rent, promotion or second product.

### Own domains

Sites of one machine whose owners claim one name. `DomainClaims` has the flows that
check DNS (attaching, the owner's button, the timer), the issue, the removal, the
sweep of orphans and the owner of the zone, who shows and removes his records when he
likes. `DomainAgent` has the jobs of kinds `domain`, `sleep` and `wake` as far as they
write the config of nginx: `claimJob` decides what a job carries, and every call of
`product-vhost` writes the file anew.

| Variable | Code |
|---|---|
| `row`, `given` | `product_domains`: the code (`token`), `status`, `error_reason`; how many codes were given out |
| `status`, `moved` | `products.status`; what `wokenSql` reads, with the two ways of ending told apart |
| `job`, `queue` | the active job of a product, and the queued ones in order of `created_at` |
| `checker[c]` | a flow in `attach`, `check` or `checkPending`: the row it has read, the answer of DNS; `late` and `before` are the order of the starts (`checked_at`) |
| `dropping` | a `detach` between the refusal of the index and `dropOccupiedFailed` |
| `shown`, `proved` | codes that stand in the zone beside the right addresses, and (history) that ever did |
| `site`, `body`, `cert` | the own name in the config: not there, on port 80, by https; stub or proxy; the certificate |
| `loop`, `work`, `reports` | as in the keys, with what the job was sent with |

All claims are on one name, the only case where they meet: the claims of a product on
different names differ in their codes, and so they do here. A table of names would add
only pairs that share nothing.

### Money

Balances of a few users, their payments at the provider and in the table, the
referees and commissions, the coupon, the queue of deductions. `call` are requests,
notifications and timers between two statements; `runner` is the one worker of
`processTokenTasks`. `earned` and `spent` are histories of what was promised to
people and what was taken; `credits`, `gifts`, `taken`, `owed` count how often a thing
was done, which the code does not.

`Members` are the users who can sign in. `resolveAuth` writes the profile before the way
to sign in, in one transaction (`identity.service.ts:204-240`), so a member has a row to put tokens
on; a referral leader whom nobody has seen yet may have none. Buyers, coupons and merges
are of members; commissions and deductions may be of anybody.

### Blog

`BlogQueue` has `leaveQueue` (lock, read, shift, write, commit), the approval with
its retries, the owner's own choice of a slot; `BlogPublisher` the claim, the
sending, what is written after it, and the watchdog; `BlogDrafts` the writing of a
draft, its showing to the owner and his edits. `slot` and `now` are moments of a
small clock, of which `Schedule` are slots of the schedule; the owner may name any moment.
`seen` are the texts the owner has before him. A statement that would write a row
another transaction has locked waits (`Unlocked`); a transaction that dies leaves
nothing.

Two history variables name the cases in which the pipeline does not keep its own
rules. `chosen` are the posts whose time the owner has named himself. `doubled` are
the posts at which two flows have met: a draft claimed while its earlier writer is
still at work (the claim asks for the status and the age of the stamp only; a remark
or a redraft of the owner takes the stamp away, and fifteen minutes pass whoever
writes), or a post approved while it is being sent. A post stays `doubled` for good,
since a late flow may come at any time. The properties say what holds of all other
posts; the rest of the pipeline goes on with the `doubled` ones as the code does, and
they may not disturb the others.

### Shorts

`Shorts` has the attempt from its claim to its end, the watchdog and the owner;
`ShortUpload` what happens with YouTube: the plan, the question about the last
session, the new session, the file, the kit for publishing by hand. `row[p]` is
`short_publication` with its count of claims (the token), `tries` is the token of
the video; `posts` and `whole` are what the platforms have really got, `blessed` how
many posts the owner has let out.

### Guest

`Guest` is one module: the turn of a guest from the reading of his trial to the two
`finally` blocks, the claim by an account, the turn of that account through the relay
as far as the retelling goes, the hourly `purge`, and a restart of the process.

| Variable | Code |
|---|---|
| `row`, `answers`, `quiet` | `guest_trial_sessions`: not there, unclaimed, claimed, claimed with the hash removed, deleted; its count; the age that the 7 and the 90 days measure |
| `messages[t]`, `history[t][u]` | pairs of the trial in `guest_trial_messages`, and in `custom_chat_history` of a user |
| `carry[u][a]`, `fate` | the key `guest-carry:user:assistant`, and a history of whether its text was told, or its day was over |
| `busy`, `inFlight` | the fields of `GuestTurnService`, lost in a restart |
| `flow[f]` | a request between two awaits: the statement it comes to, the trial, the user |
| `keys` | trials whose key has reached the guest |

A trial that was just issued is not read again under the lock
(`guest-turn.service.ts:216-218`). This is safe because its key is sent with the first
line of the reply, which for such a trial is behind the lock and both counts: until
then nobody can ask or claim with it. `keys` says so in the model; if the key were out
from the creation on, TLC finds an answer past the limit. A full window, an
unreachable Redis and a model that is down are choices, since every one of them
ends the turn the same way.

## 3. What the runs check

| Run | Instance | Distinct states |
|---|---|---|
| `Machine` | one site, one flow, jobs + machine + rent + block + deletion, no turns | 860,000 |
| `Purse` | one site, two flows; in one scene two turns and block, in the other a month of two units, a balance up to three months and a machine that hangs | 937,000 |
| `Endings` | one site, two flows, turns, deletion for good, everything fails | 74,000 |
| `BlogQueue` | three posts, two flows, three slots and a moment between them, no drafts or publications | 1,577,000 |
| `BlogPosts` | one post from idea to channel, two flows, one slot, all of `Next` | 273,000 |
| `Money` | three users, two payments, two deductions, two calls at once; three scenes | 119,000 |
| `Keys` | two cards or one, up to three faults; six scenes | 132,000 |
| `Shorts` | two attempts, two tries, both platforms or either | 130,000 |
| `Domains` | two products, two checks at once, two codes of one name, one fault; three scenes | 326,000 |
| `Guest` | two requests at once, two trials with one assistant, two accounts, two answers to a trial, one turn at a time | 509,000 |

**Products.**

* `JobFits`: the one active job is always one `claimJob` would hand out in the
  product's status, or a wake a deletion left behind for its tick to drop. A job
  that does not fit would hold the product's only place until the deadline, as it does
  for a product blocked between the two inserts of `create` (`crossed`).
* `BlockHasReason`: a blocked product carries a reason, and a reason is carried only
  while blocked: no report, promotion, deletion or restore leads out of a block. The
  undo of `create` does, for a `crossed` product; that one too is not archived
  before it is let go.
* `LedgerMatchesMachine`: when the newest job says `done`, the container is what
  that job makes of it and no forgotten work is going on that could change it.
* `PaidAhead`: no race of the start and the daily tick charges a month twice.
* `ChargedOnce`: a turn is paid for at most once and only if it was done, with
  repeated and late reports, reaping, blocks and deletions.
* `BlockedRunsNoTurn`: no turn is claimed for a blocked product.
* `TenancyHolds`: every step is one the owner could explain: only a serving
  product pays, exactly a month and only when its time is over; only an unpaid one
  falls asleep; only `unblock` leads out of `stopped`, only `restore` out of
  `deleted`; only what was being ordered goes `astray`.
* `ProvisioningEnds`, `DeletedGoesDark`, `ClaimedTurnEnds`: nothing is
  provisioned for ever, the container of a deleted product goes down (or its sleep
  has failed as often as the cap allows), and a lost claim or report does not hold
  the place of a turn for ever.

**Keys.**

* `ToldIsTrue`: who is told that his keys were not changed is told the truth: they
  are not on the machine and no work will bring them. `KeysAgree`: keys in the
  container that the server does not have are those of a card that is still open or
  whose owner was told that the outcome is not known.
* `TurnNotCut`: no container is recreated under a turn that is being executed.
* `RestoredIsWhole`: a product that is back has its keys, container, vhost and
  directory, whatever the wipe and the erasure were about to do.
* `ErasedIsGone`: "erased" is said when nothing is left under any name, and no
  directory goes from under a container.
* `CardResolves`, `DeletedIsErased`: no card stays "working", and a product deleted
  for good is erased or left to people after `PURGE_FAIL_CAP` failures.

**Own domains.**

* `ProvenBeforeIssue`: no certificate is asked for before the code of that very claim
  has stood in the zone, however long the check of another one lasted.
* `MachineAgrees`: when nothing is under way for a product, the machine serves what
  the tables say: an active name by https, the stub or the product after the last move.
* `NeighboursApart`: a name that is active at one product is in the config of no other.
  Only where no command failed and no job was collected: section 4 says what those leave.
* `RemovedIsGone`: a removal ends when the name and the certificate are off the
  machine, and by no late report of another job.
* `ClaimEnds`: no claim stays in transit, whoever took its job down.

**Money.**

* `ClaimedOnce`: a commission is in one claim that was not refused, or can still be
  claimed. `GiftsOnce`: coupon, welcome and referral bonus once to a user.
* `NothingBurns`: there is never less on the balances than was promised less what was
  taken. `OneFailureOneLoss`: what failures cost is bounded by their number: each
  leaves at most one payment short, one bonus not given, or one task taken twice.
* `PaidIsRecorded`: every payment made is recorded, with every notification lost.

**Blog.**

* `HolesAreChosen`: a slot of the schedule ahead becomes free with a post behind it only
  when the owner moves a post, when a post leaves that stood between the slots or whose
  slot has come due during the departure (`Strays`), or when the record of a sending is
  written over a post that was approved anew (`Overwrites`).
* `PromiseKept`: an approved post never moves later unless the owner moves it, and two
  posts in places the program has given (`Given`) never change their order, but in a
  departure that `Strays`.
* `OneSender`, `NothingUnseenGoesOut`: no two sendings at once, nothing goes out that
  has not been before the owner; except of posts at which two flows have met
  (`doubled`), of which the code promises neither (section 4).
* `DueIsTried`, `DraftEnds`: a due post with attempts left leaves the queue or uses
  its attempts up, and a draft is shown or fails, with processes dying anywhere.

**Shorts.**

* `NoPostTwice`, `OneUpload`: no second post without the owner's press, no second
  whole video on YouTube, with attempts held to be dead that go on.
* `LetterWarns`: no kit goes to the owner for a video YouTube already has without a
  warning. `PublishingEnds`: whoever dies, the video leaves the queue.

**Guest.**

* `OneHome`: what was answered to a guest is with the trial until it is claimed, and
  then whole in the history of one account, with turns going on through the claim.
* `TurnsCounted`: no answer over the limit, a trial in one turn at a time, and every
  way out of a turn gives back its place and its lock.
* `CarryKept`: a retelling that Redis took stays until a turn with it was answered, or
  its day is over.

The type invariants (`TypeOK` of `Products`, `Keys`, `Domains`, `Money`, `Blog`, `Shorts`
and `Guest`) hold in the same instances and are proved, with the inductive invariants of
section 5; none is among the properties of the runs. `OneSender` of `Shorts`, one sending at a time into a platform, is proved with
`NoPostTwice`. `StatusesFollowTable` of `Blog`, that no status is written but along the
table of `canTransition`, was given to TLC in the instance of `BlogPosts` once, where it holds of the posts that are not `doubled`, and is proved
(`TableIsKept`). Both records of a sending (`blog-publisher.service.ts:90`, `:112`) and what brings a draft
to review (`blog-approval.service.ts:137`) do not ask for the status they write over. That
the table allows them follows from what else is going on.

### Bounds, and why they are enough

All of a group's `Next` is out of TLC's reach for most groups, so the MC modules give
each question a specification that only **leaves actions out**, never changes one.
`MCMoney`, `MCKeys`, `MCDomains` and `MCProducts` are in scenes: which things may *begin* is chosen at the start,
and whatever has begun goes on with all its steps, so one run explores the sum of
the scenes and not their product. Between them the passing runs execute every action.

* Products: one is enough for everything but the purse, because the services share
  only the owner's balance between products. That two products of one owner keep to
  what the abstract life allows is not run but proved (`ImplementsTenancy`, for every
  set of products). Two job ids: the active row and one late report of an older row;
  two turn ids for the same reason. Ids come free when no row, agent or message
  mentions them (`FreshJobIds`), so runs of any length are covered. `MaxReports = 1`:
  one report in flight next to the agent's own state; reports may be delivered any
  number of times. `Rent = 1`, `Month` 1 or 2: comparisons with zero and with one
  month are all the code makes. `MaxBalance` bounds what the owner tops up to,
  `MaxCharge` is the price of a turn. `SleepFailCap = 1`: the code has 3; the count
  only has to be reached.
* Keys: two cards at once or one after the other only in the scene `rekeyed`; the
  others have one, since between a card and a deletion a second card adds only its
  refusal. `PurgeFailCap = 2` stands for the code's own cap. `MaxFaults = 3` and the
  scene's own number: a fault is a failed command, a lost answer or a death; it is
  bounded because under unboundedly many nothing ends.
* Own domains: two codes are the claim and the one made in its place, and two products
  the contest for a name; three would add a second loser. Two checks at once are the
  earlier and the later one. `MaxFaults = 1` in the scene with everything that writes
  the config, where one claim lasts through sleeps, blocks and losses; collections
  beyond the bound go on and are not counted, so that `ClaimEnds` does not hold by
  the bound. `MaxReports = 1`: the report of the last job beside the loop's next.
* Money: a leader and a leader above him, one buyer, two payments (the first and a
  later one are told apart by the code, further ones are not). `MaxClaims = 3`: a
  claim, its refusal, and another. `MaxFailures = 2`, so that two losses meet.
  `Pack`, `Extra`, `Gift`, `Cost` are 1 or 2: more than, or just, what is on a balance.
  Of three users two can sign in; the third, the upper leader, may have no profile.
* Blog: three posts are the fewest where a post is overtaken behind a hole; two flows
  the fewest that race. `Schedule = {1, 3, 4}` in `BlogQueue` leaves a free slot behind
  the queue and the moment 2 between the slots, where the owner may put a post; the
  clock ticks whenever it likes, also while a departure is open.
  `MaxSlotAttempts = 2` and `MaxPublishAttempts = 2` stand for the code's own limits,
  `MaxAttempts = 2` bounds what `publish_now` adds. `BlogQueue` leaves out drafts and
  publications, with which it has more than nine million states: that they leave the
  queue as it is, but for `Overwrites`, is proved and not run. In `BlogPosts` nothing
  is left out.
* Shorts: two attempts are the dead one and the next. `MaxTries = 2`, `MaxPresses = 1`.
  In `MCShorts` the owner retries, marks and leaves only where the channel is the only
  platform. With the owner on both platforms there are 5.2 million states; the safety
  properties were checked on them once and hold. A file on its way does not age
  (`Ages`): the code refuses to send one when its sign of life took so long that the
  sending could outlast the watchdog's threshold (`keepAliveFenced`).
* Guest: the lock, the count of turns and the claim are each a contest of two, so two
  requests; two trials with one assistant share the lock's set, the count and the key
  of the retelling; a second assistant would share nothing. Two answers: one before
  and one at the limit. `ConcurrentTurns = 1` makes the count full with two requests.
* Job and turn ids, posts and flows are symmetric where a run has only safety
  properties. The runs with liveness use no symmetry.

`CHECK_DEADLOCK FALSE` is in the cfg where the system really stops: `Endings` (nobody
restores a dark product), `BlogQueue` (everything published, the clock at its bound),
`Money` and `CreditedOnce` (all payments made, all bounds reached), `Keys` (an erased
product), `Shorts` (a published video), `Domains` (all codes given out).

### Fairness

The specifications of safety have none. The liveness properties assume fairness, each
action in the next-state relation of its own run, of:

* the timers, weak: `onModuleInit` sets them with `setInterval` or a cron, each
  failure is caught and tried again at the next turn;
* the clocks, weak: a threshold passes;
* the next statement of a flow, or its death;
* the end of a turn by the runner (`RunnerReports`): the turn has a timeout;
* in `Endings`, the end of a work and of a message (`AgentFairness`): docker's own
  timeouts and the lifetime of a connection;
* in `Keys`, the agent's work and loop, and the poll (`ClaimPurge`, strong: it is
  disabled while the loop is on something else and comes again for ever); the
  acceptance of a report that stays under way; faults are bounded;
* in `Domains`, the sweep of orphans and, where things fail, the collector of stale jobs;
  where nothing fails, that the agent goes on;
* in `BlogPosts`, the timers that begin a sending or a draft (strong, since a flow
  must be idle), the next statement of a flow (strong: a statement that waits for the lock of a
  row stands in its queue and gets it, however often others take the row), and that
  processes do not die for ever (`<>[][~FlowDies]`);
* in `Shorts`, that an attempt goes on **or dies**; deaths are not bounded there;
* in `Money`, the reconciliation (strong: a cron of its own that needs an idle call),
  and the next statement of a call or its failure,
  failures being bounded.

Nothing is assumed of the owner, the administrator, the customer, the success of a
work, or the arrival of any answer or notification.

## 4. Where the code and its comments part

Two runs are expected to find a violation of a property that states what a comment
of the repository says. They are records of a disagreement between text and code,
found by writing the model down.

| Run | The text | What the code does |
|---|---|---|
| `NoFreeHosting` | `rent.service.ts:492-496`: the hole "sleeping, container up, no job" is closed | a sleep job closed by the deadline leaves exactly that |
| `CreditedOnce` | `payments.service.ts:267`, `priem.service.ts:200-201`: the crediting is idempotent | two callers both read a status other than `succeeded`, and both credit |

More of the kind, met while modelling and without a run of their own:

* `blog.cron.ts:311`: every five minutes all whose slot has come is published. A post
  whose attempts were used up by dying processes stays approved and due: the claim
  counts the attempt before the sending, and nothing sets the count back. TLC finds
  `DueGoesOut` violated when it is added to `MCBlogPosts`.
* `domains.service.ts:182-187`: after a removal that did not end, checking again would
  issue the domain anew, so the only way is to remove it again. A check begun while the
  claim was `failed` for another reason goes on through the removal and its failure,
  and `tryIssue` (`:762`) asks for the code and the status only: it issues. TLC finds
  `DetachStands` violated when it is added to `MCDomains`.
* `domains.service.ts:545-546`: nothing of the name stays on the machine. The job that
  `dropOccupiedFailed` leaves may fail, and its row is gone: nothing tries again, and the
  name stays in the config of a product that has no claim. In the same way the rollback
  of an attachment may fail, and a job collected in the queue frees a name the
  machine still serves. This is why `NeighboursApart` asks for no faults.
* `block.service.ts:427-429`: from an unblocked product there is a way to `running`.
  Not if it was blocked before its container existed.
* `product-lifecycle.service.ts:689-693`: a product deleted broken comes back broken.
  A restore before the journal's last statement (`:491`) brings it back asleep.
* `migrations/007_selfservice.sql:97-98`: a reason without a block does not exist.
  `create`'s failure path (`provisioning.service.ts:863`) overwrites a block that came
  between its two inserts. `BlockHasReason` and `JobFits` therefore name the `crossed`
  products; without that TLC finds both violated in `MCMachine`.
* `turns.service.ts:322-329`: no turn is queued at a sleeping product. One admitted
  before the sleep is inserted after it (`:316`).
* `rent.service.ts:547`: as many are woken as the owner can pay months for. Wakes
  already queued take no slot of the next turn of the alarm clock (`:570`).
* `blog-queue.ts:17-24`, `blog-slot-claim.ts:133-139`: a queue without holes, which the
  locks of the approval keep. The cabinet takes a time that is no slot of the schedule
  (`blog.controller.ts:177`, `:215-217`). A post put at such a time after an approval has read
  the queue is not locked by it; it leaves, the first follower moves to its time, and the
  approval has meanwhile written behind the follower's old slot, which stays empty; by
  similar steps the follower overtakes a post approved into a hole. And if the slot a
  departure leaves comes due before its commit, the followers move up into a slot that
  is already past. `HolesAreChosen` and `PromiseKept` name these departures (`Strays`);
  without that TLC finds both violated in `MCBlogQueue`.
* `blog-queue.ts:127-134` explains why an approval and a departure do not deadlock.
  They can: each may hold what the other waits for. The database ends one of them;
  in the model that is `FlowDies`.
* `blog.types.ts:67-71` lists `publishing -> approved` for the watchdog, and
  `assertTransition` of the cabinet then lets the owner approve a post that is being
  sent; the next timer sends it again, and the record of the first sending is written over
  the second approval. `OneSender` leaves out such posts (`doubled`); without that TLC
  finds it violated in `MCBlogPosts`.
* `blog.types.ts:67-71`: no post gets into the channel past `pending_review`. A draft may be
  begun again once it counts as abandoned (`:51-53`), or when the owner sends it back.
  If its first writer was only slow, it writes its text after the second was shown and
  approved. `NothingUnseenGoesOut` leaves out such posts (`doubled`); without that TLC
  finds it violated in `MCBlogPosts`.
* `blog-publisher.service.ts:90`: the channel has taken the post and the update after it
  fails: the post goes out again, as any at-least-once sending does. `publish_now`
  takes a post whose attempts are used up.
* `shorts-publisher.service.ts:609-612` says that the kit is sent and recorded only by the
  attempt that holds the row. `recordSent` takes a `failed` row without a token
  (`:497`): the kit of an attempt that was given up is recorded over a row whose
  session has the whole video, without the warning. `LetterWarns` is therefore about
  the letter and not about the record.
* A crash between the mark `succeeded` and the credit (`payments.service.ts:198`) leaves a
  payment nobody comes back to; the bonus of a first payment is given twice to two
  payments settled at once; a merge credits the survivor before it debits the other
  account, and debits no more than is there (`identity.service.ts:381`).
* `guest-carry.ts:95-98`: two turns that read one retelling lose nothing. But the key
  names the user and the assistant, not the trial: a second claimed trial with the same
  assistant replaces the retelling of the first, and the end of a turn that read the
  first removes that of the second, told to nobody. `CarryKept` leaves out such trials
  (`Rivalled`); without that TLC finds it violated. The conversations themselves are in the
  history of the account either way.
* `add_user_tokens` credits a user with no profile by a line in the register and nothing on
  the balance, and answers that it succeeded. The payout of commissions asks for the
  profile first (`referral.service.ts:432-445`); the crediting of a payment, the coupon and
  the merge do not, and are safe only because whoever can ask for them has signed in.
  Were `Members` not in `profile`, `NothingBurns` would not hold.
* `complete` closes a turn before the deduction (`turns.service.ts:571`): a process that
  dies in between makes the turn free. `ChargedOnce` bounds it only from above.

## 5. What is proved

| module | theorem | what |
|---|---|---|
| `ProductsProofs` | `TypeCorrect`, `CoreHolds` | the types (no balance is negative), `Core` |
| | `JobsFit`, `BlockedHasReason`, `CreateIsAlone` | `JobFits`, `BlockHasReason`, `Newborn` |
| | `NeverPaidTwice`, `TurnPaidOnce` | `PaidAhead`, `ChargedOnce` |
| | `BlockStopsTurns`, `LedgerIsTrue` | `BlockedRunsNoTurn`, `LedgerMatchesMachine` |
| | `ImplementsTenancy` | `Products` implements `Tenancy` |
| `ShortsProofs` | `NoPostGoesOutTwice`, `NoUploadIsRepeated` | `NoPostTwice` and `OneSender`, `OneUpload` |
| | `LettersWarn` | the action property `LetterWarns` |
| `DomainsProofs` | `NoNameWithoutProof`, `MachineServesTheTables` | `ProvenBeforeIssue`, `MachineAgrees` |
| | `NamesStayApart`, `RemovalIsDone` | `NeighboursApart`, the action property `RemovedIsGone` |
| `GuestProofs` | `OneHomeForAnswers`, `TurnsAreCounted` | `OneHome`, `TurnsCounted` |
| | `RetellingsAreKept` | `CarryKept` |
| `MoneyProofs` | `CommissionsAreClaimedOnce`, `GiftsAreGivenOnce` | `ClaimedOnce`, `GiftsOnce` |
| | `FailuresCostOneEach`, `NothingIsBurnt` | `OneFailureOneLoss`, `NothingBurns` |
| `SumProofs` | `SumOfOneChanged`, `SumIsNatural`, ... | what a sum over a finite set is, and becomes |
| `BlogProofs` | `OneSendsAtATime`, `NothingGoesOutUnseen` | `OneSender`, `NothingUnseenGoesOut` |
| | `QueueHolds` | the inductive invariant of the queue |
| | `NoHoleByItself`, `NoneIsPutOff` | the action properties `HolesAreChosen`, `PromiseKept` |
| | `TableIsKept` | the action property `StatusesFollowTable` |
| `KeysProofs` | `KeysTypes`, `OwnerIsToldTheTruth`, `KeysAreAgreed` | the types, `ToldIsTrue`, `KeysAgree` |
| | `NoTurnIsCut`, `ReturnedIsWhole`, `ErasedIsErased` | `TurnNotCut`, `RestoredIsWhole`, `ErasedIsGone` |

Each is about the whole `Spec` of its group, without further hypotheses, for every value of the constants that the
assumptions of its modules admit: the sets of products, users, flows, attempts, calls
and the like are any sets, the limits any numbers. TLC evaluates the assumptions in
every run. Every invariant and every action property of the passing runs is stated by one
of them; the two runs that expect a violation and the liveness properties have none.
Each inductive invariant was first given to TLC in small instances of its
group, under the whole `Spec` or a run's part of it. The invariants are conjunctions of named parts; a proof says per action
what it does to its own flow and what it leaves alone, and then per part why the part
survives.

### Products

**Core.** `Core == TypeOK /\ JobFits /\ BlockHasReason /\ Newborn`:
a status changes only together with the job that fits it, or when there is no
active job; the one statement without such a condition is the failure path of
`create`, and there the product is still blank and nobody else's, which is
`Newborn`, or `crossed`. In turn `Newborn` is kept because every flow that comes to a
product wants a status, a heartbeat, a job or a turn that a blank product has not, and
the administrator, who wants none of these, makes it `crossed`. Of a `crossed` product
`Core` keeps only that it is not archived with a reason: no deletion begins at a
blocked product, nor at a failed one with a reason.
`BlockHasReason` is needed by `restore`, which would bring back a blocked product
otherwise. The proofs are split into what a step of a flow does to the flows
(`FlowMoves`, `FlowsStay`), what a step on one product does to its place
(`JobOfOthers`), and the actions.

**The money.** `PaidAhead` is inductive with the types,
because `chargeRent` repeats its condition under the lock. `ChargedOnce` needs
`OneSettles`: a turn that is not done was not paid for, and for one that is done
and not yet paid for there is at most one flow holding its id. `complete` takes a
running turn, for which there is no such flow, and a new turn has an id none holds.
`BlockedRunsNoTurn` needs to know that `restore`, the one statement that
could put a product back into its block with the turns it has, does not: an archived
product has no reason for a block, which is what `BlockHasReason` says of `crossed`
products too.

**The ledger.** That a job is `done` says nothing yet when its
report is still under way, so `TrueReports` says of every report of success what
`LedgerMatchesMachine` says of a closed job: from the moment it is sent the
container is as the job left it, no work is going on there and the agent is not on
that product. It stays so because the reported job is still the newest of its
product and is not queued: the agent cannot be given another one there. The id of a
new job is in no report and with no agent, so a row may be inserted or failed at
any time (`Kept`, `Inserted`).

**The refinement.** Each action is shown to be one move of
`Tenancy` (`Moved`, `Charged`, `Settled`) or to leave `lives`, `paidLeft` and
`balance` alone (`Unseen`). `JobFits` says which status a failed report meets,
`Newborn` what the failure of `create` does, `BlockHasReason` that a restored
product was not blocked. What moves a `crossed` product changes no place of the
abstract life until the administrator's next word.

### Shorts

A row's `fence` counts its claims. `Fences` says that no attempt has a fence its row
has not reached and that two attempts at one row never have the same one, so that the
row's present holder is one attempt; `Placed` says at which steps an attempt has a
fence, a platform, a session. From there the two platforms are apart:

* `Channel`. What may still be sent the owner has let out (`posts < blessed` while the
  row can be claimed and the video is live), and an attempt that is sending either holds
  the row or has lost it to a row already `published`. `OneSender` and `Fresh` (the
  watchdog rearms nothing while a file is on its way) close the gap between the sending
  and its record.
* `Uploads`. YouTube has at most one whole video, by the session on record until the
  row says so (`Whole`); an attempt that uploads holds the row with that very session,
  or comes too late for one that is whole already (`Uploading`). An attempt that takes
  the row over has found the stored session incomplete, and the fence keeps the one it
  took it from out.

`LetterWarns` follows: a kit for a whole video is the way out of an unclear answer.

### Own domains

* `Ordered`: the queue of jobs holds each queued job once. `Hooks`: what the agent's
  loop, its command and its reports say while they are *open* is of the job that runs;
  a closed one is deaf.
* `Proven` extends `ProvenBeforeIssue` to checks under way: a green answer is of a code
  whose records have stood, and a claim is issued only while it has the code of the check.
* `OneHolds` is the unique index. `Words` says which status fits an active job.
* `Agrees` says for the row, the loop, the command and the reports of each product what
  of `MachineAgrees` is true at each point of the way: no task under way takes back what
  is reported. An agent whose job was given up goes on with its task, so the row that
  turned `active` meanwhile needs `TaskAgrees`: such a task carries the names.
* `Apart` is the same for the neighbours and holds while nothing has failed.

`RemovedIsGone` is drawn from `Agrees`: only a report of a removal drops the row, and
then site and certificate are gone (`Delivered`).

### Guest

`Locked`, `Counted`: the locks in Redis are those of the turns inside, and the places
taken are the number of turns that count (a finite set, though flows need not be).
`Unborn` and `FirstTurn` say that a trial whose key has not gone out is in one turn alone,
which is why the failure of a first turn may leave it. `Answerable` carries the limit
from the reading of the trial to the record of the answer. `OneHome` needs nothing
of the flows: the claim moves all messages at once, and an answer is recorded only in a
row that is still open. `Carried`, `Puts` and `Tells` follow a retelling: of which trial and account it
is, that the claim puts it once, and that a turn that drops it has told it.

### Money

* `Placed`, `Recorded`, `MarkedIsPaid`: a call at a step has the payment, buyer and leader
  that the step needs; what is marked was paid.
* `Inserts`: a call that is about to insert a commission has not yet done so; with it
  each commission is a new one. `OnePlace`: it is unpaid or in one claim that
  was not refused. The set of them is finite, which the sum of a claim needs.
* `CouponLocked`, `WelcomeClaimed`, `EnrolledOnce`: who has locked the coupon or claimed
  the bonus is one call, and what it read is still true; each gift is given at most once.
* `Bounded`: the payments that lack something no call is going to bring (`Lost`), the
  bonuses claimed and not given, and the deductions after the first, **those to come
  included** (`Again`: a task that was deducted, still waits and is not about to be
  marked is going to be deducted once more), are together at most as many as the
  failures. Losses are thus counted when a call dies, not when they can be seen, and
  each failure adds one element to one of the three sets.
* `Covered`: what is on the balances and what was spent is at least what was promised
  **and** what open merges have credited to the survivor and not yet taken off the loser
  (`InTransit`, a second sum, over the calls). A merge that dies leaves that surplus to the
  user; without it in the invariant, the step that takes it off would seem to burn it. A
  deduction takes no more than is there, so it moves as much from `balance` to `spent` as
  it takes. `Known` carries the profile of whoever is about to be credited.

`SumProofs` has the sums: `MapThenSumSet` of the community modules is a fold whose
recursion runs over a `CHOOSE`n order of the set. That changing one term of a function changes the sum by as
much is shown without the library's induction theorems: the smallest counterexample
is taken from the sizes of subsets, and the fold's first step makes a smaller one. The
sets of users and of calls must be finite for it (`FiniteAssumption`).

### Blog

The posts are a finite set; flows, moments, slots of the schedule and limits are any.

The inductive invariant of who works on a post is `TypeOK /\ Placed /\ LocksApart /\ Order`:

* `LocksApart`: no row is locked by two transactions, so what a departure has read of the
  post it holds is still so when it commits.
* `Order`, of the posts that are not `doubled`. `Says` ties a flow to the status of its
  post: who drafts has it in `drafting`, who sends in `publishing`, a departure in a
  status it may leave, and a text about to be sent was seen by the owner when it was
  read. `OneDrafter` and `OneSender` say that there is one such flow: a claim finds the
  post in another status, or with nobody at it, or makes it `doubled`. `Shown` says that
  what is before the owner or beyond is a text he has seen. A step on a row then
  concerns no flow but its own, or a `doubled` post (`Free`, `Marks`, `FlowKeepsOrder`).

`StatusesFollowTable` is drawn from `Order`: each statement that asks for no status is of a
flow of which `Says` knows it (`StepFollows`).

The queue has `QueueInv` on top of it, proved for all of `Next`, drafts and publications
included, while the run has the queue alone:

* `OneToASlot` is the unique index, `SentInTime` says that what is being sent holds no
  slot ahead. The first needs that the record of a failed sending, which may bring any
  post back to `approved`, is refused a slot that another has (`BackInto`).
* `DepartureKnows`. An open departure either frees nothing, or the slot it frees is
  still the post's; and as long as that is a slot of the schedule and ahead (`Ahead`),
  every approved post behind it is locked by the departure or still in the list it goes
  through (`FreesSlot`), but for those not `Given` by the program. That list was read
  before the locks: a post that came since would be missed, and a hole stay in front of it.
* `ApprovalKnows`. Every row an approval has counted as taken is still taken and
  ahead, because it is locked, so no slot before the one it gives is free. Nor is one being
  freed: a post that departs is under its departure's lock, so the approval cannot have
  counted it. This is why no post enters behind an open departure from a slot of the
  schedule (`PostEnters`, `SlotIsGiven`), which `FreesSlot` needs; behind a moment
  between the slots one can, and that departure `Strays`. A record that overwrites an
  approval (`RecordOverwrites`) is of a `doubled` post, which no departure reckons with.

At the commit every follower takes the slot of the one before it (`MovesUp`): the
order stays, and the slot that becomes free is the last one, with nobody behind it but
posts that are not `Given` (`SlotIsFreed`).

The types need that the queue read by a departure is a sequence of posts and that the
slot a follower takes is one of theirs; the least and the greatest of a set of slots
come from the well-founded order of the numbers (`Least`, `Greatest`).

### Keys

For every number of cards, faults and attempts to erase, without further hypotheses:

* `OneJob`: cards and erasure share the one active job. `Carded`: a card has one job
  in its life; once it is written no flow holds the card and nobody can press it again. That makes
  the card's name enough to tell works, reports and keys apart.
* `Hooked`, `Stepped`: what the loop and the work of the agent have to do with one
  another, and which containers there are at each command of a change of keys. Only works
  change containers, and the slug has one at a time.
* `Born`: keys are on the machine, or in a work, only after the agent took the job, and
  while the agent is on it the owner waits or was told that the outcome is open. `ToldIsTrue`
  needs that: whoever closes such a card closes it as unknown. What the sweep
  says of a card (`Why` of `Cards`) must therefore ask first whether the job was
  started, in the order of the conditions in the code.
* `Agreed`: keys the server does not have are of a card that is open, those in the backup that a work may
  put back included. `Honest` says of each report what its words say of the machine,
  from the sending on: a success has its keys in the container and the agent idle, an honest failure
  has them nowhere.
* `Whole`: a product whose term is not over is complete and nobody works at its end; the
  term ends only in the archive, which it then does not leave. `Erased`: the directory goes last, and what could bring a
  container back is gone before.

### Only model-checked

* **Liveness**, with the fairness it rests on, and `ENABLED`: `ProvisioningEnds`,
  `DeletedGoesDark`, `ClaimedTurnEnds`, `DueIsTried`, `DraftEnds`, `PaidIsRecorded`,
  `CardResolves`, `DeletedIsErased`, `PublishingEnds`, `ClaimEnds`.
* `NoFreeHosting` and `CreditedOnce`, which the code violates.

## 6. Plan

Done: the product's life with its abstract specification and proofs; the cards, keys
and erasure; the own domains; the money of users; the blog; the publication of shorts;
the trial.

1. Models still to write, with the hazards that wait for them: `Limits` (two creations
   of one owner both count before either inserts, `limits.service.ts:134`), the inbox of the
   alert bot (a repeated update, `alert-bot.store.ts:180`), the stages of a short before its publication, the creation of referral leaders
   (`referral.service.ts:591`), two workers of `processTokenTasks` (`isRunning` is a flag
   of one process, `token-accounting.service.ts:62`).

## 7. Not modelled

* **Products**: containers that die on their own (the heartbeat may be lost at any
  time, the container then still counts as up), the first prompt of a new bot, the count of free months (the first month is free or not),
  the choice of a host, the texts of turns and their events, channels. What the coding
  agent does inside a turn is invisible but for its end and its price.
* **Keys**: cards of other kinds (they follow the same claim, release, finish and
  sweep); which names a card adds or removes, so also a second card made from names
  the first has changed (`product-keys.service.ts:226`). Sleep and wake are one step here,
  the first group has them in full. A statement whose answer is lost counts as one
  that was not committed or as the death of its flow. The ten minutes the sweep leaves
  a call are not counted. Backups on disk (`removeBackups`), backup containers of an
  image roll-back, the certificate of a vhost, and late reports of failed erasures
  older than the counted ones are left out.
* **Own domains**: what the deletion, the return and the erasure of a product do to its
  claim, an agent too old to know the job, the pauses and limits of retries (a flow may
  always come to nothing), several names of one claim (they are checked, written and
  certified together), the texts of errors.
* **Money**: amounts but for their order; the registers and reports; the second
  provider, which ends in the same method; a second message to a leader
  (`referral.service.ts:293`); the SQL procedure `redeem_coupon`, which is used by hand
  (`rent.service.ts:123`).
* **Blog**: texts, images, topics and the news they come from; what becomes of a post at
  which two flows have met, beyond what section 5 says of it.
* **Shorts**: one video that is already due; its slots and its queue, which are as the
  blog's but without moving up; the message after an upload; the state of the YouTube
  account. A row stuck by tokens that coincide after a retry is helped by
  `markPublished` only; a stale attempt may send the old version of a video that left
  and came back (the code says so, `shorts-publisher.service.ts:371-376`).
* **Guest**: the administrator's switch and limits, which may change between two turns; what
  the windows of an hour and a day count; texts, events and the monitoring of the
  trial; the trial of Masha, for whom nothing is retold; turns through the relay of an
  account that finds no retelling, which change nothing here.
* Everything marked "not modelled" in section 1 is listed in `PROJECT.json` with its
  reason: it keeps no protocol between actors, or is pure I/O.

## 8. Running

```
tlc -workers 2 -config MCMachine.cfg MCProducts     # any MC*.cfg with its module:
                                                    # MCProducts, MCBlog, MCMoney, MCKeys,
                                                    # MCDomains, MCShorts, MCGuest
tlapm ProductsProofs.tla                            # any *Proofs.tla
```
