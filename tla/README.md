# Verification of the Peak Clip platform

Peak Clip is a Discord bot with background workers: creators submit video clips to paid
campaigns, workers verify the clips and poll their view counts, new views are credited to a
ledger against the campaign's budget, and creators request payouts that staff review and
disburse. State lives in PostgreSQL (through Prisma), in Redis queues (BullMQ) and in the
memory of the processes. Most operations are `async` functions that read, check and later
write; some of them hold PostgreSQL advisory locks, most do not. That is where this project
looks: what the system promises, what survives when the calls overlap, fail or are cut off,
and what holds only when they do not.

Paths below are relative to `src/src/` unless they start with `README.md`, `tests/` or
`prisma/`, which are relative to `src/`.

## Inventory

| Component | State | Operations | Hard behaviour | Correct when |
|---|---|---|---|---|
| Payout requests, disbursements (`modules/payouts/payout.service.js`, `payout.repository.js`, `payout.state-machine.js`) | rows of `payout_requests`, `disbursements`, `payout_events`; balance derived from ledger, adjustments and requests | create, review, approve, reject, cancel, process, complete, fail | four-statement balance at READ COMMITTED, unlocked read-then-update, retry after release, rollback | nothing paid twice, no overdraw, lifecycle table kept, terminal is final |
| Payout evidence, storage (`modules/evidence`, `modules/storage`) | `payout_evidence`, files on disk | attach, replace, accept, reject | file saved inside a transaction that may roll back; decisions that overwrite each other | only accepted evidence opens the disbursement gate |
| Drafts and upload sessions (`payout-draft.manager.js`, `payout-upload-session.manager.js`, `bot/events/messageCreate.handler.js`, `bot/interactions/payout.interactions.js`) | draft in memory (30 min), session in memory and in `system_settings` (2 min) | start, upload, review, submit, cancel | upload awaits between steps, restart, expiry, double click | a recording ends in the request it was made for |
| Payout profiles (`modules/payout-profile`) | `payout_profiles` and an audit trail | upsert | none | requests keep the snapshot they were made with |
| Earnings (`modules/earnings`) | `earnings`, one row per credited snapshot | `creditNewEligibleViews`; read-only ledgers | lock per submission, budget consumed on another connection | no view paid twice, budget and cap respected |
| Campaigns (`modules/campaigns`, `modules/admin/admin.campaign.service.js`) | `campaigns` (status, `totalBudget`, `consumedBudget`), `campaign_members` | create, edit, set status, consume budget, live budget; join, leave, remove, reactivate | unlocked writers of one row | lifecycle kept, exhausted campaigns complete |
| Submissions (`modules/submissions`) | `submissions` | create, queue verification | check-then-insert, instant and queued verification | one submission per video and campaign |
| Verification (`modules/verification`) | `verifications`, `verification_signals`, `metric_snapshots` | run, availability check | unconditional writes after an awaited provider call | staff decisions survive; only verified clips are approved |
| Moderation (`modules/admin/admin.submission.service.js`, `modules/moderation`) | submission status, moderation history | approve, reject, flag, post-approval review and rejection | read-then-write, adjustments and status in separate writes | earnings of rejected clips are deducted once |
| Retention, adjustments (`modules/retention`, `modules/adjustments`) | `retentionStatus`, strikes in `system_settings`, `financial_adjustments` | check, violate, fulfil | strikes without a lock, violation written before the deduction | violated clips are deducted exactly once |
| Workers, schedulers, queues (`workers`, `queues`) | jobs in Redis, in-process guards | poll, verify, check retention, dispatch cycles | retries, overlap, deduplication by job id | every eligible clip is polled; failed credits are retried |
| Administration (`modules/admin`) | user status, audit log | suspend, ban, reinstate, audited wrappers of the services | audit written after the commit | only staff act, every act is logged |
| Users, statistics | `users`; none | upsert; reports | none | - |
| Providers (`providers`, `providers/disbursement`) | none | fetch metrics, create a disbursement | timeouts, unavailable data; the only disbursement provider is manual | errors are classified, never taken for deletion |
| Discord client (`bot/client.js`) | lifecycle state, cooldown, reconnect timer | login, reconnect, stop | timeouts racing answers, cooldowns | gets through in the end, stops when stopped |
| Views and panels (`bot/interactions`, `bot/components`, `bot/commands`), notifications | panel messages, forms, refresh locks | routing, rendering, direct messages | double clicks, stale panels, failures after the acknowledgement | screens tell the truth, no dead ends, every press is answered |
| Provisioning, channel inactivity (`bot/provisioning`) | Discord roles and channels, the hub message of each managed channel, timers | set up, reset, bring back | calls that fail half-way, a message racing the timer | Ready means complete, a channel keeps its hub |
| Utilities, process (`utils`, `app.js`, `server`, `config`, `database`) | rate-limiter buckets | limit, start, stop | sliding window, shutdown order | at most *limit* calls in a window |

The components meet in the database. Polling stores a snapshot and calls the earnings
service, which consumes the campaign's budget; moderation decides which submissions earn;
retention and post-approval rejection deduct from what was earned; the payout balance is
what was earned, less deductions, less what requests reserve or have paid out; evidence
decides whether a request may be disbursed.

## The modules

| Part | Modules | Run |
|---|---|---|
| Payouts | `PayoutStatus`, `PayoutLifecycle`, `PayoutHistory`, `Payouts`, `MCPayouts`, `PayoutsProofs` (with `Sums`) | `payouts`, `payouts_terminal` |
| Earnings and budget | `Earnings`, `MCEarnings`, `EarningsProofs` | `earnings`, `earnings_overspend` |
| Drafts and uploads | `PayoutDraft`, `UploadSession`, `UploadSessionProofs` | `uploads` |
| Submissions, verification, moderation | `SubmissionFlow`, `Submissions`, `MCSubmissions`, `SubmissionsProofs` | `submissions` |
| Retention and adjustments | `Retention`, `MCRetention`, `RetentionProofs` | `retention`, `retention_twice` |
| Polling | `Polling`, `MCPolling`, `EarningsProofs` | `polling` |
| Process and bot | `Bot`, `Process`, `Platform`, `MCPlatform`, `ServerProofs` | `platform` |
| Dispatch cycles | `Scheduler`, `MCPlatform` | `platform` |
| Provisioning, channels | `Provisioner`, `ChannelHub`, `Platform`, `MCPlatform`, `ServerProofs` | `platform` |
| Staff's panels | `StaffPanel`, `MCStaffPanel`, `ServerProofs` | `staff` |
| Creators' panels | `CreatorPanel`, `MCCreatorPanel`, `CreatorPanelProofs` (with `Sums`) | `creators` |

`PayoutLifecycle`, `PayoutHistory`, `PayoutDraft` and `SubmissionFlow` are abstract
specifications; `Payouts`, `UploadSession` and `Submissions` implement them through
`INSTANCE ... WITH` and a refinement mapping. `Process` composes the bot with the boot, the
shutdown, the workers and the timers. `Platform` puts
process, channel and provisioning side by side and gives a name of its own to what two of them
name alike; it states their properties for the run and for the theorems. `MCPlatform` adds
the dispatch cycles and runs the four parts, which share no state, in one model: a variable `part` says
which of them a behaviour is about, and the others stay where they begin. `MCPolling` does for polling,
next to the ledger, what `Platform` does.

Three conventions run through the modules.

- A handler or service call is a record `call[w]` (`tx[w]`, `work[w]`) whose `stage` names
  the step that comes next. A step is the code between two awaits; whatever it read is in the
  record, and the other calls take their steps in between.
- Some properties hold only until something happens: two calls overlap, a query fails, the
  process dies. History variables remember that it has (`alone`, `met`, `reloaded`,
  `overlapped`), so that one run explores everything and each property says exactly what it
  assumes. A behaviour without overlap is not cut off: the property simply has nothing to
  say from the overlap on.
- A fault is an action: a query, provider, edit or queue that fails, and a process that dies
  and forgets what was in memory. Counters bound how many there are (`MaxErrors`,
  `MaxFaults`, `MaxCrashes`), and the constraints `FewTroubles` bound how many kinds meet.

## Payouts

### State and actions

| Module | Models |
|---|---|
| `PayoutStatus` | the transition table of `payout.state-machine.js` and its groups of statuses |
| `PayoutLifecycle` | abstract: a status moves along the table |
| `PayoutHistory` | abstract: a status is entered only if the table allows it from a status *held before* |
| `Payouts` | `payout.service.js` over `payout.repository.js`, as overlapping transactions |
| `MCPayouts` | symmetry and the bounds of the runs |
| `PayoutsProofs` | the theorems |

`status`, `owner` and `amount` are the `payout_requests` rows, `events` counts the
`payout_events` of each type, `disbursements` holds the statuses of the attempts of a
request, `evidence` the status of its recording. `earned` and `deducted` are the two sums
the balance query takes from other components, `active` the creator's account. `tx[w]` is
the service call that worker `w` has in flight.

A call is an interactive transaction at READ COMMITTED. Its reads and checks are the
`Begin...` action; its writes become visible at once in the `Commit...` action, because
nobody sees them before, and because a second writer of the same row waits for the first to
commit and then applies the update *by id* that it had already decided on. `Abort` is an
error, the transaction timeout or a crash at any point between the two. Creating a request
is split further: `getPayoutBalanceBreakdown` runs four statements (earnings, adjustments,
reserved requests, completed requests) and each sees what is committed when it runs, so
each is an action. The advisory locks are the guards `UserUnlocked` (creation) and
`DisburseUnlocked` (processing). `cancelPayoutRequest` asks for a lock through an optional
call to a repository method that does not exist, so it takes none, in the model as in the
code.

| Action | Code |
|---|---|
| `BeginCreate`, `ReadAdjustments`, `ReadReserved`, `ReadCompleted`, `CommitCreate` | `createPayoutRequest` |
| `BeginReview`/`CommitReview`, `...Approve`, `...Reject`, `...Cancel` | the review operations |
| `BeginProcess`/`CommitProcess` | `processDisbursement`, its lock and its evidence gate |
| `BeginComplete`/`CommitComplete`, `BeginFail`/`CommitFail` | `completeDisbursement`, `failDisbursement`, which settle the attempt that was the newest when they read |
| `AcceptEvidence`, `RejectEvidence` | `evidence.service.js`: a decision only needs the record to exist, and may overwrite an earlier one |
| `Credit`, `Deduct`, `SetActive` | the ledger, the adjustments and administration, as payouts see them |

Left out: the audit entry written after the commit, the notification and the panels; the
profile snapshot, which is taken to exist; the ownership checks (a cancellation is the
owner's, a review is staff's). The staff command that approves calls review and approve one
after the other: two calls. The rounding of amounts is the ledger's. The minimum payout is
the constant `MinPayout`: the code takes the highest minimum of the campaigns the creator
has earned in, read by a fifth statement after the sums, which nothing here changes. Reads
for pages are not modelled.

### Run `payouts`

Two requests of one creator, two calls in flight, amounts of 1 with 1 earned, one deduction,
three attempts. `ShortLives`: beside another request no request repeats an event and only
one goes to disbursement; a request that is alone lives as long as its three attempts.
`EarlyTrouble`: suspensions and deductions come before the first disbursement. Every hazard
of the lifecycle needs two overlapping calls on one row, and the third attempt lets an old
call settle an attempt that is no longer the newest; the balance needs a second request that
competes for the same earnings, and a third would repeat the part of the second.

- `CompletedIsBacked`: a completion is backed by an attempt that completed.
- `OneAttemptPerGreenLight`: attempts do not exceed approvals and failures.
- `ImplementsHistory`: a status is entered only from one that was held, overlap or not.
- `NothingMissed`, `NoOvercommit`: the balance misses no reservation, and requests that never
  released theirs never exceed what was earned.
- `ImplementsLifecycle`, `NewestAttemptAgrees`: until two calls overlap, the table is kept and
  the newest attempt has the status of its request. The first step of an overlap ends the
  claim.

The order of the statements of the balance query is what `NothingMissed` depends on: read
in the other order, a request that completes between the two sums is counted in neither. The
mutant `BugBalanceReads` swaps them and TLC finds the missed request.

## Earnings

### State and actions

`Earnings` is one campaign: `total`, `consumed`, `status` are its row, `snapshots` the
captured view counts of each submission, `counted` the snapshots that have an earning
(`snapshotId` is unique), `credited`, `earned` and `paid` the three sums over the
`earnings` rows that the code and the properties use: views per submission, amount per
creator, amount in all. The table is only ever appended to, so the sums carry what a bag of
rows would. Money is in cents, and `Gross` rounds as the code does.

`creditNewEligibleViews` takes the submission's lock and reads (`BeginCredit`), reads the
creator's total and applies the caps (`WeighCredit`), consumes the budget
(`ConsumeBudget`, `CompleteCampaign`) and commits the earning (`CommitCredit`).
`consumeBudget` runs on the repository's own connection: the two middle actions write
`consumed` and `status` for everyone, at once, and `Abort` does not undo them.
`BeginRefresh`/`EndRefresh` is `getCampaignLiveBudget`, `BeginSetStatus`/`EndSetStatus`
and `BeginEdit`/`EndEdit` are the staff operations: they read, check, await and write by
id. `Capture` and `Review` are polling and moderation as the ledger sees them.

Abstracted: rate and cap do not change (`editCampaign` may change them; the properties
compare with one value); the dates of the campaign are left out because the credit does not
look at them; `Init` is a campaign that has just been activated. A transaction that times
out while its callback is still running goes on to consume budget after the rollback: the
model aborts the whole call, and the real outcome only adds to `consumed` what an abort
after `ConsumeBudget` adds already. `MaxConsumed = 0` switches the live budget off.

### Run `earnings`

Two submissions of one creator, two calls, every operation, two snapshots with two counts,
budgets of 1 and 3 cents and a cap of 2 between them. Two snapshots with two values give
every order of a rise and a fall and a late credit of an older snapshot; counts that are no
multiple of 1000 exercise the rounding; budgets as small as one credit put both caps under
contention. `HighWaterMark` (no view is credited twice) holds throughout;
`PaidWithinBudget`, `LedgerCovered` and `EarnedWithinCap` hold until two calls overlap.
`earnings_overspend` shows what an overlap does to the budget.

## Drafts and uploads (`UploadSession`)

One creator. `draft` and `session` are the maps in memory, `row` the session in
`system_settings`; `call[w]` is a button or a message being handled. `SubmitModal`,
`PressUpload`, `PressCancel`, `PressSubmit` are the buttons of `payout.interactions.js`;
`Handle` is `handleMessageCreate` up to its first await, `FoundSession` its read of the row,
then `PersistProcessing`, `UploadFails`/`UploadSucceeds`, `MarkReady`, `FoundAgain` and
`AttachEvidence`. `ExpireDraft` and `ExpireSession` are the two time limits, `Restart` empties
the memory.

Abstracted: a message in another channel, or without exactly one video, only loads the session
(a disjunct of `Handle`); the mark EXPIRED cannot be told from `late`; the five-second window of
the deduplication covers one message, later duplicates are not modelled; a database error is
swallowed, so a write of the row may not happen; review and back are reads;
`createPayoutRequest` succeeds or is refused (`CreateRequest`, `RefuseRequest`; its inside is
`Payouts`); the fields `amount` and `evidence` of the session are never read and left out.

Run `uploads` (two recordings, two handlers, two drafts, two sessions): `ImplementsFlow` - a
request comes from a draft that was open, got a recording and was taken, once;
`OneUploadPerSession` - a second recording is refused while one is downloaded, as long as the
creator's one session has stayed in memory (after a restart two messages each load a copy, and
an older session whose upload fails resets a newer one); `ProcessingEnds` - a session does not
stay PROCESSING once its handler has ended.

## Submissions (`Submissions`)

A row per submission; `call[w]` is a creation (duplicate lookup, insert against the unique
index, enqueue, instant verification), a job of the verification worker, or a decision of
staff. `Load`, `Measure`, `Decide` and `Record` are `runVerification`: read and mark
IN_PROGRESS, ask the provider and store, write the status, write the history. `BeginDecision`
and `Decision` are the operations of `admin.submission.service.js`, `BeginKeep`/`KeepReview` the
button that writes without reading, `BeginReverify` its re-run.

Abstracted: `Load` merges three reads (submission, idempotency check, upsert); the idempotency
window of 60 seconds is a choice to skip or not; find-then-create of a verification is one row;
the audit event is not modelled, `history` stands for it; the retention fields are
`Retention`'s; a crashed job is given back by BullMQ. With a single worker for callers and jobs the
calls are serial. Whether account, campaign and membership permit a submission is checked
before and modelled in `CreatorPanel`.

Run `submissions` (one row, two callers, one job at a time, outcomes review, transient and hidden; one
kind of fault, `FewTroubles` two kinds of trouble, four errors: as many as the instant verification and the
three attempts of the job can meet): `ImplementsFlow` - a clip is
submitted once, never put back to waiting, and reviewed after approval only if it was approved;
`EventuallyDecided` - under fairness a submission waits in PENDING_VERIFICATION for ever only if its job was
`Abandoned`: its three attempts are used up (four transient errors in a row, or counts that stay hidden), it was
given up after a crash, it was never queued, or it took itself for the duplicate of a run that failed or died
late. Otherwise it is decided, so every failure is survived that leaves one of the four tries; `HistoryTells` - until calls overlap the
history is a chain that ends with the status.

## Retention (`Retention`)

One clip: `status`, `retention`, `deadline`, the strikes in `system_settings` and in memory
(`stored`, `memory`), its earnings and their adjustments. A check is `TakeJob`, `Answer`,
`CountStrikes`, then `Strike` or `ResetStrikes`, `Fulfil` or `Violate`; `Violate` writes the status and goes on
to `FindEarnings`, `LookEarning`, `CreateAdjustment`, which a rejection after approval runs too.

Abstracted: the check asks for `parsed.videoId || parsed.cleanUrl`, fields the parser does not
return, so the answer does not depend on the clip and is any of `Answers`; a credit is two steps
without its budget; a re-verification is one write; the audit event goes with the status;
`lastAvailabilityStatus` is left out; the scheduler takes one page of 100 clips, so `Dispatch` may or
may not make a job; answers without data or authorisation just return.

Run `retention` (one earning, two workers, two days, two strikes required; one kind of trouble at a
time, or an overlap and a crash): `AdjustedOnce`, `ViolationTakesStrikes` always;
`ViolationIsDeducted` and `RejectedIsDeducted` unless something failed or overlapped, as each says.
A second earning repeats the part of the first, since each is adjusted by itself. `retention_twice`
shows an earning that is taken back under both types.

## Polling (`Polling`) and dispatch (`Scheduler`)

`Polling` is one clip under the jobs of consecutive cycles: `TakeJob`, `Measure`, `Insert`, `Judge`,
`Flag`, `BeginCredit`, `CommitCredit` are `metric-polling.worker.js` between its awaits; staff refresh,
enter counts, decide and change the campaign meanwhile. The counts of a clip are one number, a
decision is its write, and `Watched` is the platform, which also takes views back (`peak` remembers the highest
count); `InitialViews` are in the snapshot that verification takes. The polling policy compares `camp.endDate`, a field a campaign does not
have, so an ended campaign is past its grace period at once. Run `polling` (two jobs, one member of staff, one view at the verification and up to two later, one failure;
one kind of trouble beside an overlap): `OnlyMeasuredEarns` - no more is credited than the platform ever counted;
`NoRepeatedSnapshot` until jobs overlap or staff enter counts; under fairness `SuspectIsReviewed`, unless a
decision, a query that fails or a crash comes in between, and `EventuallyCredited`: views gained since the
verification and kept are credited in the end, also in a paused campaign, and if they never are, a snapshot already
holds them and something put it there without a credit (a failed query or credit, a crash, a decision that took the
approval away, a refresh or a count of staff). Views of the verification itself are never credited by a poll that
finds nothing changed (among the disagreements below), so they are not promised; caps are in `Earnings`.

`Scheduler` is the dispatch cycle: pages behind a cursor with Prisma's semantics (skip one row from the
cursor's position even if its row no longer matches), job ids the queue forgets (`Kept`), the guard
`isDispatching`. A cycle keeps the bucket it began with, and a job older than the last bucket is dropped.
`EveryClipPolled`: a clip that stays eligible is queued infinitely often, in whatever pages it is missed.

## Process and bot (`Process`, `Bot`)

`Bot` is `bot/client.js`: an attempt to log in that succeeds, fails or times out, the reconnect loop with
its timer, the cooldown of a rate limit (running or past, no times), stopping. The token is present, one start and one stop
per process, and failures are bounded, so a login succeeds in the end. `Process` adds `bootstrap` and `shutdown`, the
health server, workers, queues, database and the scheduler's timers. A dispatch cycle is atomic
here; the error path of the shutdown is unreachable. A signal comes at any moment, and the boot, the timers and the
bot go on beside the shutdown.

`CleanExit`: a process that exits with 0 has no server, job, timer, queue, connection or login left, except
for what was still to come when the shutdown passed it, which `ahead` records: the server, the workers or the login that the boot
had not begun, a login in flight, the warm-up's cycle. The code leaves exactly these (among the disagreements below).
What was running is closed, and nothing that was closed opens again for another reason: not by the reconnect loop,
an interval or a job. `BotGetsThrough`: a
bot that was started is connected in the end, unless the reason is fatal, it is stopped or the
process ends.

## Provisioning and channels (`Provisioner`, `ChannelHub`)

`Provisioner` is one `/setup`: roles, hierarchy, categories, channels with their overwrites, one API call
at a time, while people delete, move, open and promote, calls fail and the process dies. `Items` is the work in
its order; of the item at hand `todo` holds the calls still to be made, and `Turn` is the order they are made in. Names are
equal or not; the cache is the server's truth; access is none, read or write per audience; a channel
created without overwrites starts with those of its category; a topic is the declared one or not, and the API of
a channel has all the calls the code asks for. A failing lock or topic is swallowed,
another failure ends the run. Lock failures are excluded in the run (they are among the
disagreements below). `ReadyIsComplete`: what reports Ready is complete, unless it is `disturbed`: people changed the
server since it began, or it began beside an invocation that had seen such a change, which may still be
working on channels that are gone or were moved.

`ChannelHub` is the messages of one managed channel, a set of records whose ids grow with time: fetch, edit, send and delete are calls of their own; `Window`
and `SetupWindow` stand for 50 and 10. The five-minute timer is none, running or over: whatever a person
does clears it and sets it anew (`Touch`, `Post`), also when it is over but has not fired, `Elapse` ends the five minutes and is
not fair, since people may never leave. `/setup` and resets are bounded; a restart forgets the timer; cleaning up an error post is one step.
`HubKept`: as long as staff delete nothing, no run takes the last hub away, however runs overlap, fail and die, in a
channel without notices that is not the staff's dashboard; what notices and removals do is among the disagreements below.
`BackToHub`: once five minutes have passed, the channel comes back to one hub and no talk, unless a person comes back
before the timer fires, another run is at work there, it holds more messages than one fetch returns, or
something goes wrong after that moment.

Run `platform`: two clips in pages of one, two changes and one failure; eight declared names, two legacy channels, three
starts with one edit, crash and fault; two workers in the creators' channel, so that the timer's run meets a reset (there
`/setup` does the same) or another run of the timer, a window of 2, which two posts and a hub exceed, one failure, crash or removal; two clients, one limit, two failed logins and every accident, and a
signal at any moment. Two clips and pages of one are the smallest instance in which a page is skipped. Posts and mishaps
together are at most two (`MaxHubEvents` of `MCPlatform`).

## Panels (`StaffPanel`, `CreatorPanel`)

`StaffPanel` is one message of the staff, a hub or a private card, and the members who press its
buttons. A handler is a record: which right it needs, what it answers first (an acknowledgement, a loading
row, a form), the operation it runs, the screen it draws, the note above it. `Routes` is the router,
`build...` are the rows, as sets of buttons. A press is `Press`, `Ack`, `Do`, `Draw`, each of which may
fail (`AckFails`, `Throw`, `DrawFails`); a form is `Submit`. Abstracted: texts, pages, attachments; approving a
payout is one step; search, manual metrics and creation answer privately; one creator owns all clips, one recording per
payout. The router is a chain of families of buttons (`Route`, then `ReviewRoute`, `CreatorRoute`, `CampaignRoute`,
`PayoutRoute`, `RegistryRoute`), each of which hands on what is not its own; `CustomIds` are the ids a button may have. `place` is where the message is, chosen at the start; `elsewhere` collects the items whose change the
card may not show.

Run `staff` (two members, one clip, one payout; #review-queue, #payout-queue and the control center; five presses, a fault or a
crash counting two): `ShowsTruth` - until presses overlap a card shows the status its item has; `WayBack` -
at most three presses lead back to the hub of the channel, except in the control center, #creators and
#campaign-management; `RefreshReleased` - a refresh lock is
held only by a running refresh; `LoadingEnds` - a loading row ends unless something fails.

`CreatorPanel` is the messages of the creators: dashboard, command answers, the steps of a payout, public cards and
pickers. Its handlers, routes and rows are laid out like the staff's; the router is a chain of
families (`Route` for the commands, then `CampaignRoute`, `StatisticsRoute`, `EarningsRoute`, `PayoutRoute`, `DashboardRoute`), each of which
hands on what is not its own, the last to `Unrecognized`; `CustomIds` are the ids a button may have, `Commands` the slash commands. Messages and presses are slots,
which bounds them. Abstracted: pages, texts, the wizard and components that no row renders (`campaign:join`,
`campaign:leave`, `dash_clip_view`, `stats_select_campaign`); a campaign is open or not: what a refresh of the dashboard writes to
clips and budgets is `Polling`'s and `Earnings`', and closing a campaign is `CampaignChanges`;
`joinCampaign`'s checks are one step; the upload itself is `UploadSession`'s; a refusal by the
rate limiter is one of the failures. Staff take a request through the whole table (`StaffMoves`), failures and
retries included (`retried`). A button of the dashboard that cannot be acknowledged is answered with a new message
(`Either`). After an error the report may fail too (`ReportFails`), and the process may die (`Crash`): a
placeholder that nothing works on any more is then `lost`.

Run `creators`: a scene, chosen at the start, is one creator asking for payouts in several messages while staff
decide, two creators at the public cards, a creator who is suspended while sending a clip, so that an ordinary refusal meets a failing
report, or a newcomer using every command with a failing query. `OneRequestPerDraft` - pressed twice or in two messages, a draft makes one
request; `WithinBalance` - what a creator has asked for and not got back never exceeds what was earned, except that a
failed disbursement which is tried again is not counted: its amount had been given back and may have been requested anew
(the first scene has the five decisions of staff that this takes, and without the exception TLC finds the overdraft); `ThinkingEnds` - every
deferred answer is given, unless the process dies or the report of an error fails in its turn.

## Types

`TypeOK` is stated in every module. Where there are proofs they begin with it, for every value of the constants; `payouts`
and `earnings` also check it. In the other modules it was a debugging aid, and the runs spend their time on the properties above.

## Findings

Each is a run that TLC refutes; `PROJECT.json` quotes the claim and the lines.

- `payouts_terminal` (`TerminalIsFinal`): README.md says terminal statuses are final. Two overlapping calls both validate, and the
  later write moves a request out of `CANCELLED`, `REJECTED` or `COMPLETED`.
- `earnings_overspend` (`ConsumedWithinBudget`): the lock is per submission, the budget per campaign: two credits read the
  same remaining budget.
- `retention_twice` (`NeverMoreThanEarned`): a clip that violated its retention and is then rejected has both adjustments, each of
  the whole earning.

Further disagreements between code and claims, met while modelling. The models contain the behaviour, but no run is about it; where a property
names an exception, it is one of these.

- Money: a failed request releases its amount, which can be requested again before the failed one is retried
  (`payout.service.js:451`). The budget is consumed outside the transaction of the earning and stays consumed
  when that rolls back (`campaign.repository.js:94`); a crash between increment and completion leaves an
  exhausted campaign ACTIVE (`:108`); a status validated before a campaign ended is written after
  (`admin.campaign.service.js:312`).
- Uploads: a recording that was downloaded while the creator started over is attached to the new draft
  (`messageCreate.handler.js:330`); copies of a session loaded after a restart let two messages upload
  (`payout-upload-session.manager.js:99`).
- Submissions: two staff decisions both succeed (`admin.submission.service.js:132`); status, history and audit
  are separate writes (`:149`); hidden counts are null and `BigInt(null)` throws (`verification.repository.js:25`);
  a clip whose job was not enqueued and whose instant verification failed is never verified
  (`submission.service.js:190`); a retry within a minute of a run that failed late is taken for a duplicate
  (`verification.service.js:74`).
- Retention: the identifier asked for is undefined (`retention.service.js:151`); a retried job strikes twice on one day (`:181`);
  a crash after VIOLATED loses the deduction (`:303`); a re-verification starts a finished retention over
  (`verification.service.js:617`); a flagged clip is rejected without a deduction (`admin.submission.service.js:232`).
- Polling: a failed credit is not repeated while the counts stay the same, nor are the views of a refresh or of the verification
  credited (`metric-polling.worker.js:119`); post-approval review writes a model the schema lacks, and staff are not told (`:205`);
  a clip rejected meanwhile is credited or put into review (`earnings.service.js:67`, `metric-polling.worker.js:195`);
  paused campaigns earn (`polling.policy.js:129`), ended ones have no grace period (`:57`); overlapping jobs keep
  equal counts (`metric-polling.worker.js:143`).
- Dispatch: the cursor skips a clip when its own has stopped matching (`polling.policy.js:153`); a queue that does not answer is taken for a duplicate
  (`metric-scheduler.js:69`); jobs beyond 500 are forgotten and repeated (`queues/index.js:33`); the daily check takes 100 clips in no
  order (`retention-scheduler.js:37`).
- Process and bot: a login's timeout does not wait for the 429 it meets (`client.js:329`); a connected bot stays `rate_limited`
  (`:119`); stopping does not cancel the login in flight (`:657`); a signal during the boot leaves what the boot opens afterwards
  (`app.js:85`); the warm-up of the scheduler is not cleared (`metric-scheduler.js:108`).
- Server: two `/setup` create everything twice (`server.provisioner.js:484`); a failed lock is reported as Synchronized (`:834`); a notice
  may displace the hub (`channel.inactivity.js:73`) or be overwritten as one (`server.provisioner.js:1242`); two runs both post a hub (`:1231`); the
  two channels called dashboard are mixed up (`:1116`); older messages stay beyond the window (`channel.inactivity.js:65`).
- Staff's panels: a query that throws leaves the loading row (`staff.interactions.js:246`); the Earnings and Payouts buttons of a creator's
  card have no handler (`admin.interactions.js:28`); Keep Review takes back an approval (`staff.interactions.js:307`); #creators, #campaign-management
  and the control center have dead ends (`staff.components.js:84`, `:108`): from a campaign's report the submissions lead to the
  review queue and never back to the campaigns (`staff.interactions.js:753`).
- Creators' panels: a placeholder stays when the report of an error fails (`router.js:206`); Submit sends whatever draft there is (`payout.interactions.js:297`), with the profile of the draft's time (`:124`); Keep Request says the
  funds are reserved although they may not be (`:671`); notes stay above later screens (`campaign.interactions.js:34`);
  Submit Clip answers in public (`submission.interactions.js:116`); the statistics have no way back (`statistics.components.js:15`). The wizard's confirm handler
  calls `createPayoutRequest` without evidence, which is always refused, and `admin.payout.service.js` retries through a method that does not exist.

## Fairness and deadlock

Fairness is assumed of what runs by itself, never of people: a handler that has begun takes its next step
(`WF` on `Resume`, `Work`, `Handle`, `Step`: the event loop runs every settled promise), a waiting job is
taken (BullMQ's workers), timers fire (the intervals of the schedulers, the reconnect timer, and the inactivity timer once its five minutes are over;
nothing says that they ever are),
an attempt to log in is answered or times out, and a cooldown ends. Nobody has to press a button, no provider has to succeed, and strong fairness is never needed.
In `Scheduler` the fairness of `Page` and `Enqueue` lets queries fail a bounded number of times only.
Liveness under a state constraint (`FewTroubles`) is checked on the behaviours within the constraint: those in which more goes wrong
are not claimed, and the properties name the faults that excuse them.

Deadlock checking is off in every run: when the bounds are used up or nobody calls, the system rightly
stands still. Symmetry is used only in runs without liveness.

## Proofs

For every value of the constants that satisfies the module's assumption (`PayoutConstants`, `EarningConstants`,
`UploadConstants`, `SubmissionConstants`, `RetentionConstants`, `PollingConstants`, `CreatorPanelConstants`, `StaffPanelConstants`,
and `PlatformConstants`, which joins those of `Process`, `ChannelHub` and `Provisioner`): any number of
requests, clips, messages, members, invocations, calls and amounts, any window of messages and any bound, not the few of the
runs. Two theorems, `KeepsHub` and `ReadyComplete`, assume more of the constants; each hypothesis is explained below, and excludes what the code does get wrong.

| Module | Theorem | States | By |
|---|---|---|---|
| each `...Proofs` | `TypeCorrect` | `[]TypeOK` | one step per action |
| `PayoutsProofs` | `KeepsToHistory` | the overlapping transactions implement `PayoutHistory` | `LogInv` |
| | `CompletedBacked` | `[]CompletedIsBacked` | `BackedInv` |
| | `OneAttempt` | `[]OneAttemptPerGreenLight` | `GreenInv` |
| | `NoneMissed` | `[]NothingMissed` | `CountInv` |
| | `NeverOvercommitted` | `[]NoOvercommit` | `FundInv`, with `CountInv` and `Sums` |
| | `SerialLifecycle`, `SerialNewestAttempt` | `ImplementsLifecycle`, `[]NewestAttemptAgrees`: until two transactions overlap | `AloneInv`, `UpToDate`: what a call validated still holds |
| `EarningsProofs` | `NoViewTwice` | `[]HighWaterMark` | `MarkInv` |
| | `SerialWithinBudget`, `SerialLedgerCovered`, `SerialWithinCap` | `[]PaidWithinBudget`, `[]LedgerCovered`, `[]EarnedWithinCap`: until two calls overlap | `AloneInv`, `BudgetInv` |
| `UploadSessionProofs` | `OneAtATime` | `[]OneUploadPerSession` | `SessionsNumbered`, `OneUpload` |
| | `FlowImplemented` | drafts and uploads implement `PayoutDraft` | `DraftsDistinct` |
| `SubmissionsProofs` | `FlowImplemented` | creation, verification and moderation implement `SubmissionFlow` | `Grounded` |
| | `HistoryAccounts` | `[]HistoryTells` | `Telling` |
| `RetentionProofs` | `StrikesTaken` | `[]ViolationTakesStrikes` | `StrikesBacked` |
| | `OncePerReason` | `[]AdjustedOnce` | inductive with `TypeOK` |
| | `ViolationDeducts`, `RejectionDeducts` | `[]ViolationIsDeducted`, `[]RejectedIsDeducted` | `OneCall`, `Unadjusted`, `ViolationWorked`, `RejectionWorked` |
| `EarningsProofs` (for `Polling`) | `PollingTyped` | `[]TypeOK` of `Polling` | one step per action |
| | `MeasuredEarns` | `[]OnlyMeasuredEarns` | `Measured` |
| | `NoneRepeated` | `[]NoRepeatedSnapshot` | `Alone` |
| `CreatorPanelProofs` | `OncePerDraft` | `[]OneRequestPerDraft` | `NumberedApart` |
| | `NeverBeyondBalance` | `[]WithinBalance` | `Sound`, `KeptSum`, `Sums` |
| `ServerProofs` | `RefreshesReleased` | `[]RefreshReleased` | inductive with `Sound` |
| | `CardsShowTruth` | `[]ShowsTruth` | `Truthful` |
| | `NoDeadEnd` | `[]WayBack` | `Roomy`, the table of rows |
| | `ExitsClean` | `[]CleanExit` | `BotDown`, `TornDown` |
| | `KeepsHub` | `HubKept`, in a channel without notices that is not the staff's dashboard | `Steady` |
| | `ReadyComplete` | `[]ReadyIsComplete`, if no lock fails | `Complete` |

Apart from `AdjustedOnce`, `WithinBalance` and `RefreshReleased` none of the properties is inductive by itself, because between the two steps of a call it
depends on what the call has read. The strengthenings say what a call in flight knows.

Payouts:

- `LogInv`: the event log holds every status a request has or had, and whatever a call is
  about to enter is allowed from one of them - a fact that later calls cannot take away,
  unlike the status the call has read.
- `BackedInv`: a call that is about to complete a request holds the index of an attempt that
  exists, so settling it backs the completion; attempts are never removed, and
  whoever settles one otherwise writes the status of the request in the same step.
- `GreenInv`: at most one transaction per request holds the disbursement lock, and while it
  is in flight there is one approval or failure that no attempt has used.
- `CountInv`: at most one creation per creator is past the lock, so no request of the
  creator appears while it counts; each request that was orderly when the reserved sum was
  read is in that sum, or was already completed and will be in the next.
- `FundInv`: the sums a creation holds are of requests that exist, and once it has decided, what
  it asks for and what it counted fit into the earnings it read, which only grow. With `CountInv` the
  requests that count against the creator are a subset of those, so their sum is no greater.

Earnings:

- `MarkInv`: one credit per submission is in flight; the views it carries are exactly
  what is missing up to its snapshot, because nobody else can change `credited` meanwhile.
- `AloneInv`: as long as `alone` is true at most one call is in flight, because a call that
  begins beside another makes it false for good.
- `BudgetInv`: stage by stage, the amount in flight fits into what is left of budget and
  cap. As long as no calls have overlapped nothing moves between the stages.

Drafts and uploads:

- `SessionsNumbered`: a session that a handler read or is about to write is one of those that were
  started, so no handler can bring back a session that a later start takes for new.
- `OneUpload`: while the creator's one session stays in memory, at most one upload is in flight, and as long
  as one is the session is not ready for another.
- `DraftsDistinct`: the draft in memory and the drafts that handlers took to submit are all different.
  This is why the step that takes a draft out of memory before the first await makes it one request.

Submissions:

- `Grounded`: the status of a row is among those it has had; a call that is about to decide never goes
  back to waiting, and to a review after approval only if the row has been approved. That a row had a
  status stays true when the status changes under the call, so the abstract step is still allowed.
- `Telling`: until calls overlap, at most one call is in flight, it knows the present status, and the
  entries end with that status unless the call is about to write the one that is missing.

Retention:

- `StrikesBacked`: every strike in the table, in memory or on the way between them stands for an answer
  "gone" of its own, and so does every check that has not counted its own yet. A restart that forgets the
  memory and a retry that counts again keep this.
- `AdjustedOnce` itself: whatever call looked before another wrote, the unique key on earning and type
  refuses the second adjustment (`AdjustmentStep`).
- `OneCall`, `Unadjusted`: as long as no calls have overlapped, what `LookEarning` found missing is still
  missing in `CreateAdjustment`, which therefore succeeds and goes on to the next earning.
- `ViolationWorked`, `RejectionWorked`: each credited earning is deducted, or the one call in flight has it in
  its list. A rejection needs also that nothing is credited unless the clip is approved.

Polling:

- `Measured`: the counts that a job carries from the provider to the ledger are at most the platform's, in
  each stage between them; counts typed by staff go into snapshots, of which the credit reads none.
- `Alone`: undisturbed, one job is at work and the snapshot it compares with is the latest.

Creators' panels:

- `Sound`: every message and form is one of the screens, every press in flight works on a message that is
  there and is not a picker, and the router knows every button under any message (`RouterKnows`), so a press is
  never `Unrecognized`. It is what ties the handlers, the router and the rows together.
- `NumberedApart`: drafts are numbered, and a number is in one place: the draft of the creator, a press that
  took it, or a request.
- `WithinBalance` is inductive with `Sound`: the request is made in the step that compares it with the
  balance (the lock is in `Payouts`). The sum compared is of all reserved requests, the sum bounded leaves the retried
  out, and the balance shown is never negative, so a creator whose retries have overdrawn it gets no more
  requests. Whatever staff do, no request enters the bounded sum but by its creation (`StatusSet`, `KeptSum`): one that comes back from
  FAILED comes back as `retried`.

Staff's panels:

- `Sound` is, as for the creators, what ties handlers, router and rows together; of the table of the buttons it
  knows which item each is about and what its operation may leave.
- `Truthful`: undisturbed, at most one press is at work, and either it holds the view it is about to draw, which
  shows the truth, or the message does. An operation that changes an item always goes on to draw it, unless it
  throws, and then the item is in `elsewhere`.
- `Roomy`: outside the three channels named above a message stays within the screens of its channel (`RoomsOf`), and so do the buttons
  under them (`DoorsOf`) and the presses at work. From there `WayBack` is a fact of the rows: each screen is a hub, near one, one press off
  or two presses off (`NearHub`, `OffNear`, `FarOff`).

Process:

- `BotDown`: once the shutdown has passed the bot, no client is connected, no timer is set and no loop runs, unless a login
  was in flight or still to be begun and is in `ahead`; the bot has at most one client, so destroying the one it knows destroys
  every connection.
- `TornDown`: what the shutdown has passed is closed and stays so, because only the boot, the warm-up and a worker that
  runs open anything, and whichever of these was still to come is in `ahead`. There is no hypothesis: a signal may come at any moment.

A channel:

- `Steady`: the newest hub is on no list of messages to delete, and every message a run is about to take for a
  hub is one. A run lists the hubs older than the newest it has seen; those that appear later are newer. Runs may overlap and fail anywhere.
  The hypotheses (`OwnChannel`) are that the channel is not the staff's dashboard, which `/setup` looks at through a
  smaller window; and that no other part of the bot posts notices there, which a run may take for a hub. That nobody deletes
  messages is part of the property, since a run may otherwise edit a hub that is gone: `removals` only grows, so the invariant holds
  as long as it is 0 (`RemovalsCounted`). Without any one of the three, TLC finds two overlapping runs that
  leave the channel without a hub.

Provisioning:

- `Complete`: for an invocation that is not disturbed, every item it has passed stands as declared (a role, a category,
  a channel in its category with the access declared for it), and what it has in hand becomes so when the calls left
  in `todo` are made. Other undisturbed invocations keep this: what they create has a new id, a channel they find keeps its name, kind and place, and
  the calls they make on a channel are those its declaration asks for (`Heirs`). The one exception is
  "welcome", which is renamed.
- A failed lock is swallowed and "Ready" reported (`server.provisioner.js:834`): hence the hypothesis that Discord does
  not refuse it, in the run too.

`Sums` holds the laws of `SumFunctionOnSet` that `FundInv` and `WithinBalance` rest on: the empty sum, one
element added, a part that sums to no more. The sum is a recursive function on the subsets of a finite set; that it
exists and is unique, and each law, is proved by induction. Since the induction theorems of the library
take a predicate as an operator, which the prover cannot instantiate, `NumbersInduct` and `SubsetsInduct` say it with sets: the
set of the numbers (subsets) that break a claim would have a minimal element.

`TypeOK` is used throughout, and the implementations are proved from the initial states
and from every step, which is a step of the abstract specification or a stutter.

Model-checked only:

- What must eventually happen (`ProcessingEnds`, `EventuallyDecided`, `SuspectIsReviewed`, `EventuallyCredited`,
  `EveryClipPolled`, `BotGetsThrough`, `BackToHub`, `LoadingEnds`, `ThinkingEnds`): fairness and `ENABLED` are beyond the
  prover that is used.
- What is not claimed outright: the three properties that the code violates, each in its run (`payouts_terminal`,
  `earnings_overspend`, `retention_twice`).

Every invariant of a passing run is stated by a theorem, and so are the action properties and the refinements.

## What could come next

The order is by what would say most. Liveness, with a prover that has fairness: `EventuallyCredited` and `BotGetsThrough`
first. A `HubKept` for the channels that take notices, should the sweep come to tell them from hubs. Provisioning of channels whose lock fails, should the
code come to report it.

## Not modelled

- Statistics, reports, embeds and texts: reads and layout.
- The legacy `/admin` command with its subcommands (`commands/admin.js`): the same services as the panels.
- Creation and membership of campaigns by staff, and edits other than status and total budget: single writes without a
  promise that relates two of them.
- The inside of the risk assessor, the URL parser, the file validator and the provider clients: pure functions on data or
  network input and output; their outcomes are inputs of the models.
- The rate limiter: it counts without an await.
- Audit events and direct messages: written after the fact, their failures swallowed.
- Retention's own dispatch beyond `Dispatch`, workers without jobs (`metrics.worker.js`, `payout.worker.js`),
  scripts for development and seeding, configuration parsing.
