# A verification project for WistMail

TLA+ specifications of the parts of WistMail where several actors share state,
the TLC configurations that check them, and TLAPS proofs of what matters most.
Paths without a prefix are relative to `apps/api/src/`.

## 1. The system and its parts

WistMail is a mail platform: a Hono/Postgres API (`apps/api`), an SMTP engine
in Go (`packages/mail-engine`), a BullMQ worker for AI features
(`apps/ai-worker`), and web, mobile and docs clients.  The API may run as
several processes on one Postgres and one Redis.  Request handlers are `async`:
they run to the next `await` and interleave there, within a process and across
processes.  Almost nothing takes row locks; correctness rests on conditional
UPDATEs, atomic Redis scripts and unique indexes.

| Component | State | Operations | Interacts with | What is hard | What makes it correct |
|---|---|---|---|---|---|
| Outbound pipeline (`routes/inbox.ts`, `services/email-sender.ts`, `services/send-dispatcher.ts`) | `emails.status, isDraft, scheduledAt, sendAttempts, lastAttemptAt`; ticks and jobs in memory | compose (draft, schedule, send), dispatch, tick, claim, sendEmail, purge | limiter, mail engine | three kinds of senders race for a row; crashes; lost answers; retries | one sender at a time, sent is final, copies accounted for, retries bounded, outcomes arrive |
| Send limiter (`services/send-rate-limit.ts`) | two counters per user in Redis, or in process memory | reserve, refund, expiry | pipeline | two counters, no transaction; late refunds; fallback store | ceilings, exactness, no lost increment |
| Billing (`services/billing.ts`, `routes/billing.ts`) | wallets, ledger, subscriptions, collection attempts | credit, debit, startTrial, chargeRenewal, tickRenewals, webhook | cron, payment provider | lost updates, overlapping ticks, duplicated and reordered webhooks | balance equals ledger, a payment credited once, a period charged once |
| Inbound mail (`services/email-receiver.ts`, engine `webhook.go`, `routes/inbound.ts`) | emails, attachments, files on disk | deliver, parse, persist, insert, answer | engine, threads, worker, cache | retries after lost answers; no transaction | accepted mail is stored with its files |
| Threads (`services/thread-service.ts`) | threads: count, participants, lastEmailAt | assignThread, bumpThread, backfill | inbound | read-modify-write without lock | counts match mail, replies join, a subject does not split |
| Trash retention (`services/trash-retention.ts`) | emails, attachments, files | sweep, empty, purge | inbox routes | selected ids used after awaits | only expired trash disappears |
| Chat (`services/chat.ts`, `services/chat-attachment-cleanup.ts`) | messages, participants, receipts, attachments | send, edit, delete, markRead, group membership, orphan sweep | events | check-then-act, two-step uploads | an attachment belongs to one message and has its bytes |
| AI worker (`apps/ai-worker/src/processors.ts`, `digest-scheduler.ts`) | AI columns, sender names, digests, job queue | ingest, classify, derive name, digest | cache, inbound | retried jobs, concurrent merges, late answers of the model | fan-out and merges lose nothing, header names win |
| Mobile offline queue (`apps/mobile/lib/core/local/outbox.dart`, `sync_engine.dart`, `features/mail/data/`) | outbox table, local mail store | tap, enqueue with coalescing, drain, retry, requeue, discard | inbox routes | retries after lost answers, kills, taps during a drain | the last choice wins, nothing is sent twice unnoticed, every change settles |
| Cache (`lib/cache.ts`, `lib/cache-bus.ts`) | Redis keys per user | read-through, bust | every writer | fill races with bust | staleness bounded by the TTL |
| RSVP (`routes/inbox.ts`) | `attachments.rsvpResponse` | reply to an invitation | engine | check-then-send | one reply per answer |
| Outgoing webhooks (`services/webhook-dispatcher.ts`) | logs | deliver with retries | receivers | retry after a lost answer | bounded attempts |

Authentication, MFA, domains, search, labels, templates, contacts, projects,
documents and the clients are row look-ups, CRUD, formatting or user interface;
they are listed in `PROJECT.json` with the reason they are left out.

The file `PROJECT.json` lists under `hazards` every place found where an order
of steps nobody tests can go wrong, with its line.

## 2. Modules

| Module | Models |
|---|---|
| `Outbox` | abstract: what the outbound pipeline promises about a row |
| `MailStore` | abstract: what the mail store promises other servers and its user |
| `SendPipeline` | the outbound pipeline, one user's rows |
| `SendRateLimit` | the limiter, one user's two counters |
| `Billing` | wallet, ledger, subscription and collections of one organisation |
| `Mailbox` | inbound delivery, folders, and the hard deletes over rows and files |
| `Threading` | assignment of messages to threads |
| `AiWorker` | the jobs that follow a delivery, and the digest |
| `Chat` | one group conversation, its attachments, direct conversations of a pair |
| `MobileSync` | the mobile client's outbox against the server's endpoints |
| `MC...` | instances for TLC (symmetry, placement of callers, amounts, messages) |
| `SendPipelineProofs`, `SendRateLimitProofs`, `BillingProofs`, `MailboxProofs`, `ThreadingProofs`, `AiWorkerProofs`, `ChatProofs`, `MobileSyncProofs` | theorems about the module of that name, and their proofs |

### SendPipeline

*State.*  Each column the code decides by is a function on `Emails`.
Timestamps are abstracted to what the code compares them with: `schedule`
(`none`, `future`, `past`) for `scheduledAt <= now`, and `backoff` (`null`,
`fresh`, `aged`, `due`) for `lastAttemptAt` against the one-second cut-off of
the SELECT and the per-attempt backoff.  `status` also takes the values `none`
(not inserted yet) and `purged`.  In-memory state is explicit: the compose
request of each row, dispatch requests between reservation and claim, each
process's tick with the candidate lists it selected, and the `sendEmail` calls
in progress (`jobs`), each with the stage it has reached.

*Actions.*  Every `await` ends an action, so each database statement, each
limiter call and the engine call is a step of its own:

| Code | Actions |
|---|---|
| `POST /compose` | `ComposeDraft`; `ComposeScheduled`, `ComposeMarkScheduled`; `ComposeReserve`, `ComposeInsert`, `ComposeMarkLimited`, `ComposeClaim`; `ComposeThrows`, `ComposeClaimThrows` |
| `POST /emails/:id/dispatch` | `DispatchReserve`, `DispatchClaim`, `DispatchClaimThrows` |
| `tick` | `TickSelectRetries`, `TickSelectScheduled`, `TickReserve`, `TickClaim`, `TickRefund`, `TickEnd`, `TickThrows` |
| `EmailSender.claim` | `Claimable`, `MarkSending`, `Claim`, `ClaimThrows` |
| `EmailSender.sendEmail` | `JobRead`, `EngineTakes`, `EngineConfirms`, `EngineFails`, `JobSucceeds`, `JobFails`, `JobRefunds`, `JobThrows` |
| purge routes | `Purge` |
| clock, window, process | `Ages`, `ScheduleElapses`, `WindowRolls`, `Crash` |

The `running` flag of the tick is the guard `tickPc = "off"` of
`TickSelectRetries`.  The backoff check of the loop reads only the selected row
and the `now` taken before the SELECT, so it is evaluated at the selection.
`claim` is one conditional UPDATE; the SELECT after it only finds the owner to
notify, so it appears just where it throws (`ClaimThrows`).
`accepted`, `unheard`, `spent` and `lost` are history variables: what the engine
took, what of it no job heard of, slots that were spent for good, and slots
whose holder ended without recording an outcome or returning the slot.

*Slots.*  A slot is held by a compose request between its reservation and its
claim, by a dispatch request, by a tick that has reserved or is about to refund,
and by a job (`HeldSlots`).  `SlotsAccounted` says that what counts against the
user is spent, lost or held.  The steps that write `lost` are the ones where the
code gives a slot up: a request whose claim matches nothing, a handler or tick
that throws before a job exists, a job whose row was purged, a soft failure of a
row whose sender is not found, a crash.  No other step may; that is what the
property checks.  `Unowned` names the rows of the last case but one: compose
accepts a From in any case, `sendEmail` looks for the mailbox letter for letter
and refunds only to the owner it finds (`FailureEnds`).

*Environment.*  The engine may take a message and answer anything, or nothing
that arrives; failures are `hard` or `soft` as `isHardFailure` and the HTTP
status decide.  The budget is the single window of one user; its two-counter
implementation is `SendRateLimit`.  `Purge` may hit a row at any moment after
its compose request is done: the ids the purge routes delete were selected in
an earlier statement, so no later check protects the row.

*EarlyAccess.*  `compose` inserts the row before it decides its status, and
other clients of the same user can see it at once.  With `EarlyAccess = TRUE`
they may dispatch it there; this breaks the lock (section 4).  The
properties below are stated, and proved, for `EarlyAccess = FALSE`: nobody acts
on a row before the request that creates it has returned.

### Outbox and the refinement

`Outbox` is the diagram above `EmailSender` (`email-sender.ts:81`): a row moves
idle -> sending -> sent / failed / rate_limited, an attempt belongs to one
sender, a copy is handed over once per attempt.  `SendPipeline` implements it
under the mapping `ImplementedOutbox` (`state` is the status, `phase` is
computed from the jobs); the run `send_faults` checks it and `RefinesOutbox`
proves it.  `BeginInVain` and `Abandon` make its weak points
explicit: a row can be marked with nobody behind it, and senders can vanish.

### SendRateLimit

Both windows with their counters, in Redis and in each process's fallback map.
A caller increments the hourly and then the daily counter (two commands; the
order in which the two parallel commands arrive does not matter to the
properties, as each touches its own counter), compares, and either holds a slot
or undoes both.  A command that Redis does not answer falls back to the
process's map, and may or may not have been executed by Redis all the same
(`Executed`).  `slot`, `spent` and `stale` are history: which running window
counts a caller, and how many decrements a window received from callers it does
not count.

### Billing

*State.*  `wallet` says whether the organisation has a wallets row yet, `balance`
and `ledger` are `wallets.balanceCents` and the rows of `wallet_transactions` in
commit order, each with its signed amount, its `balanceAfterCents`, and the
top-up and the name of it that its `(provider, providerRef)` gives.  `sub` is the
subscription row, `attempt` the status of each collection attempt, `named` those
whose `providerCollectionId` is set.  `pc` and `req` are the requests in
progress: where each is, and what it has read.  Two variables are history:
`overlapped`, whether two requests have ever been in progress at the same time,
and `cut`, the top-ups of which a delivery ended in an exception between the
status and the credit.

*Actions.*

| Code | Actions |
|---|---|
| `getOrCreateWallet`, `GET /wallet` | `NewWallet` (of `showNew`, `trialNew`, `affordNew`), `ShowWallet` |
| `startTrial` | `Subscribe`, `InsertTrial`, `TrialWallet`, `TrialRow` |
| `POST /topup` and the provider | `Topup`, `ProviderAccepts`, `SetProviderId`, `ProviderSettles` |
| `POST /webhooks/wistfare` | `Webhook`, `UnknownAttempt`, `Mark`, `FindDuplicate`, `CreditRead`, `CreditCommit`, `Current` |
| `applyLedgerEntry` | `ReadWallet`, `CommitEntry` (shared by credit and debit) |
| `chargeRenewal` | `Charge`, `Afford`, `DebitRead`, `DebitCommit`, `Extend` |
| `tickRenewals` | `Tick`, `ToGrace`, `Suspend` |
| crash, failing statement, clock | `Abort`, `Clock` |

The ledger transaction runs under READ COMMITTED without a row lock: it reads
the wallet in one step and commits row and balance in another, and two of them
may be open at once.  A duplicate reference makes the INSERT wait for the other
transaction and then fail, and so does the INSERT of a wallet row that another
request has made since the look-up: the refused branch of `CommitEntry`.
`applyLedgerEntry` names a "single-writer assumption per org"
(`billing.ts:164`).  The model does not assume it.  It records in `overlapped`
whether it has been broken; properties that need it say `~overlapped`, the
others hold without it.  A tick that finds nothing due changes nothing and is
not a step.  The provider reports every payment in any order and as often as it
likes, and each report gives its transaction id, the key it was sent with, or
both.  The attempt is found by either (`Found`), by the id only where it has been
stored; the credit is made under the id if there is one and under the key if not
(`RefName`).

### Mailbox

*State.*  A row of `emails` is named by the delivery attempt that makes it;
`folder` and `attached` are the two tables, `disk` the attachment files.
`updatedAt` is abstracted to `old`: past the retention's cutoff or not.  `mta`
is how the sending server stands with a message, `post` the request each
attempt has in the API, `purge` the hard deletes in progress with the ids they
have selected and the files they still have to unlink.  `torn` is history: the
files whose write failed with part of them on disk, which the delivery then goes
on without.

| Code | Actions |
|---|---|
| `handleDATA`, `NotifyAPI` | `Deliver`, `GiveUp`, `Heard` |
| `processInbound` | `Parse`, `PersistAttachments`, `InsertEmail`, `InsertAttachments`, `Answer`, `DeliveryFails` |
| folder moves, updates, time | `MoveToFolder`, `Update`, `Expires` |
| `purgeExpiredFolder`, `emptyFolderForUser`, `purgeOneFromTrash` | `RetentionSelect`, `EmptySelect`, `PurgeSelect`, then `ListAttachments`, `Unlink`, `DeleteRows`, `PurgeFails` |

The 10 s timeout of `NotifyAPI` ends the wait and not the request, so an
attempt and the attempt after it may be at work together.  The thread and the
sender's name, which `processInbound` settles between parsing and the insert,
are in `Threading` and `AiWorker`.

`MailStore` is what all this looks like from outside: a copy of a message is
stored, its attachments appear together, the sender hears of it, the user moves
it, a hard delete condemns it in trash or spam and takes its attachments and
then the copy.  Its steps know no statements, answers, ids or retries.  The
refinement mapping `ImplementedStore` counts a delivery as whole from its last
INSERT on, a row as condemned while some hard delete holds its id, and an
attachment as there while row and file are.  Two weak points stay visible in it:
a condemned copy is destroyed also when the user has restored it (`Destroy`), and
a hard delete that fails leaves copies without their attachments (`Spare`).

### Threading

An agent is a delivery, a message being composed (`createDraft`) or a backfill,
all of one mailbox; `work` holds where it is in `assignThread` and what it has
read.  `LookupReference`, `LookupSubject`,
`FoundThread`, `BumpRead`, `BumpWrite` and `StoreThread` are its statements;
`AssignFails` is the `catch` of `processInbound`, which stores the message
without a thread, and `Cut` a crash, or a composition whose assignment fails.
`Purge` deletes a message for good and leaves its thread as it is; a backfill
that was at work on it then updates nothing (`StoreNowhere`).  The search by
subject takes the `Limit` most recent threads of the window, of whatever subject
(`Page`), and looks for its own among them (`Candidates`).  `raced`, `rewound`,
`wasted` and `crowded` are history: threads that lost an update or a message,
threads whose `lastEmailAt` went back, messages that are counted and not stored
or not any more, and messages whose search did not see the whole window.  So is
`known`, the
threads the other messages were in when the assignment began; what the message
answers of it is kept as its `context` when it is stored.

### AiWorker

`jobs` is the BullMQ queue as a bag: a worker takes a job (`TakeJob`), and a
job that throws or whose worker dies goes back while it has attempts
(`JobFails`).  Every statement of the four processors that read what others
write is an action; `Enrich` stands for the three that do not.  `NameSender`
and `StoreEmail` are the two steps of the delivery that this needs.

### Chat

Requests in progress are workers with a program counter; a message is named by
its `createdAt`, which `sendMessage` takes before it inserts.  `Send` to
`CountUnread` are the statements of `sendMessage` with `claimAttachments` in
its two halves, `Read` to `InsertReceipts` those of `markRead`, `SweepSelect`
to `SweepDelete` those of the orphan sweep, `CreateDirect` to `FillDirect`
those of `createDirect`; `Cut` kills a request between any two.  `overlapped`
remembers which kinds of requests have run together, `late` which attachments
were older than the TTL when they were claimed.

### MobileSync

`row` is the outbox table, `batch` and `drain` the snapshot a drain works on,
`star`, `folder` and `copies` the server, `storeStar` and `local` the phone's
store.  Dart runs one isolate, so code interleaves at SQLite statements and HTTP
calls only.

Not every move is queued.  UNDO, after an archive or a delete, and the bulk
actions of the inbox screen ask the server at once, and leave alone what is
queued for the mail: `direct` is such a call on its way, `bypassed` the mails
whose last move went that way, `settled` where it put a mail of which no row was
left to run.  `LatestMoveWins` says what holds of either way: `QueuedMoveWins`
of a mail whose last move was queued, `DirectMoveWins` of one that is settled.

| Code | Actions |
|---|---|
| `MailActions` | `ToggleStar`, `Move`, `SendTapped` to `SendRejected` |
| UNDO, bulk actions | `MoveDirectly`, `DirectMoves`, `DirectFails` |
| `Outbox.enqueue` | `Slot`, `Pending`, `Kept`, `SlotRow`, `Enqueue` |
| `_drainOnce`, `_runRow` | `StartDrain`, `ClaimRow`, `Handle`, `Execute`, `Answer`, `Lose`, `Fail`, `Ack`, `MarkRetry`, `RetryRefused`, `MarkFailed`, `EndDrain` |
| Pending Sync screen | `Requeue`, `Discard` |
| clock, system | `Elapses`, `Kill`, `Refetch` |

## 3. Runs

Passing runs:

| Run | Instance | Shows |
|---|---|---|
| `send_safety` | 1 row, 2 processes, 1 request, deletes | `SendLock`, `RetryLeft`, `CopiesAccounted`, `SentIsFinal` |
| `send_faults` | 1 row whose sender is not found, 1 process, 2 requests, a crash, failing statements, deletes | the inductive invariant `IInv`, the slot accounts `SlotsAccounted`, the refinement `ImplementsOutbox` |
| `send_liveness` | 1 row, 2 processes, fair; no dispatch, crash, failing statement or delete | `NoLostSlot`, `SendingResolves`, `SoftFailureRetried`, `ScheduledSent` |
| `rate_safety` | 3 callers in 2 processes, an expiry, a crash, a lost Redis command | `CeilingUpToStale`, and `QuietExact` where nothing fails |
| `billing_safety` | 2 requests at a time, 2 top-ups, 2 deliveries by either name, no wallet row at first, a cut request | `NeverOverdrawn`, `LedgerExplainsBalance`, `CreditedOnce`, `SucceededIsCredited`, `PaidTime`, `PaidIsServed` |
| `billing_liveness` | 2 requests at a time, 1 top-up, 1 delivery, a cut request, fair | `NothingOverdue` |
| `mobile_safety` | 1 mail, 1 draft, 2 moves or stars, queued or direct, a retry by the user, a kill, fair | `TypeOK`, `CopiesExplained`, `LatestMoveWins`, `NoStrandedPlaceholder`, `RowSettles` |
| `mailbox_safety` | 1 message with a file, 2 deliveries, 2 hard deletes, 2 moves, 2 faults, fair | `DiskMatchesRows`, `AcceptedIsStored`, `ImplementsMailStore`, `OnlyDiscardedIsDeleted`, `ExpiredIsDeleted` |
| `threading_safety` | 3 messages, one of them older than threads, 2 backfills, hard deletes, a fault | `CountExact`, `RepliesJoin`, `NoSplit` |
| `worker_safety` | a named and a nameless mail, 2 workers, 2 digests, a failing job | `FannedOut`, `HeaderNameWins`, `PrioritiesKept` |
| `chat_safety` | 2 users, 1 attachment, 4 requests two at a time, a sweep, a crash | `TypeOK`, `ClaimedInTimeKeepsBytes`, `NamedIsAttached`, `AsIfAlone` |

`mobile_star` finds a disagreement between the code and what it says of itself
(section 4).  Several properties except what the code is known not to do: they
hold while requests do not overlap (`overlapped`, `crossed`), for threads that
lost no update (`raced`), for searches that saw the whole window (`crowded`), for
mail nobody moved while a delete held it (`disturbed`), for moves that were
queued (`bypassed`).  The exception is a history variable in each case, so that the
property still says that nothing else goes wrong.

*Bounds.*  `MaxSendAttempts = 2` instead of 5: one retry and one exhaustion, so
both branches of `FinalState` and of the backoff check are taken.  `MaxClaims`
limits how often the user dispatches a row, never how often the tick does.  One
row suffices for the send runs, since rows share only the budget and the
batches; the proofs are for any number.  Two processes give two ticks, the
smallest number that can race.  A budget of 1 or 2 makes blocked and allowed
sends meet, and the window starts with any part of it consumed by the user's
other mail, so that compose is blocked with a single row too.  Limits of 1 and
2 in the limiter let the windows disagree.  `MaxAttempts`, `MaxRolls`,
`MaxCrashes` and `MaxFallbacks` only cut the runs short; the proofs do not
depend on their values.  In `Billing` trial, period and grace last one unit
each.  The clock of `billing_safety` runs to 2, enough for a trial that is
charged late or ends in grace, a renewal or a suspension, and a revival; that of
`billing_liveness` to 3.  Two requests and two top-ups of one price are the
smallest number that can overlap and double, and two deliveries are both payments,
or a duplicate under one name or under both.  Two outbox rows and two taps let a tap coalesce into
a row, meet a row in flight, or follow one that is being retried; two attempts
instead of five give a retry and an exhaustion.  Two deliveries of one message
let an abandoned request race its successor, and two hard deletes race each
other; `Batch = 1` makes the sweep come back for what it left.  The three
messages are one thread with an answer under another subject and a later
message that the window must still reach (dates 1, 3, 5, window 2); a
`Limit` of 1 instead of 50 makes the search miss one of two threads.  One
attachment and two requests at a time suffice for two sends that want it and
for the sweep between check and claim.  `Cap = 1` with two urgent mails makes
the digest full.

*Symmetry.*  Rows, processes, requests, workers and top-ups (of one amount) are
only compared for equality, so their permutations are used in safety runs; runs
with temporal properties use none, nor do `rate_safety` and `threading_safety`,
whose callers and messages differ.

*Deadlock.*  All runs set `CHECK_DEADLOCK FALSE`: when every row is sent,
failed or purged, no request is open and the bounds are used up, the system has
nothing to do.

*Fairness.*  `SendPipeline!FairSpec` assumes weak fairness of each compose
request, each process's tick, each row's job, a claiming dispatch request, the
clock and the window's expiry.  The event loop runs every continuation whose
promise has settled, `setInterval` fires the tick again and again, the database
answers, and `fetch` settles with an answer or an error.  Nothing is assumed of
users, crashes or deletes.  The liveness run has no crash and no failing
statement, because nothing restarts a lost job.  `Billing!FairSpec` assumes
that a request in progress goes on, that the cron ticks again and again
(`runForever` loops, whatever a tick answered) and that time passes.  It assumes
no redelivery of webhooks.  `Mailbox!FairSpec` assumes that the hourly timer
fires again and again and that what it starts goes on; `MobileSync!FairSpec`
that the 15 s tick fires, that awaited calls end, with an answer or an error,
and that backoffs elapse.  A kill or a failing statement may interrupt either.

## 4. What does not hold

`mobile_star`: `toggleStar` writes the wanted value to the local store before it
queues the change, and the handler skips the call when the local store has the
wanted value.  For mail the phone holds a row of, the server never learns of the
star (`outbox_handlers.dart:20`).

The modules also state, or except, the following, which TLC finds when the
parameters are changed, or the exceptions dropped, as said; no run is kept for
them:

- compose's unconditional UPDATE overwrites a claim made meanwhile by another
  client, and two senders work on one row (`routes/inbox.ts:507`; `SendLock`
  with `EarlyAccess = TRUE`), against `email-sender.ts:88`, "The conditional
  clause is the lock";
- a dispatch request that loses the claim keeps the slot it reserved
  (`routes/inbox.ts:592`; `NoLostSlot` with a request), against
  `send-rate-limit.ts:83`;
- a soft failure of a mail whose From is spelt in another case than its mailbox is
  not refunded: compose compares in any case (`routes/inbox.ts:445`), `sendEmail`
  finds the owner letter for letter (`email-sender.ts:154`) and refunds only to an
  owner it has found, against the comment at `email-sender.ts:242`, "Refund the
  rate-limit slot so transient failures don't burn the user's hourly budget"
  (`NoLostSlot` of a row in `Unowned`);
- an email the limiter blocked in compose has no `lastAttemptAt` and is selected
  by no tick (`send-dispatcher.ts:58`; `RateLimitedRetried`), against
  `routes/inbox.ts:495`, "the dispatcher loop will retry it automatically";
- a crash during a job leaves the row in sending for ever
  (`email-sender.ts:142`; `SendingResolves` with a crash);
- a top-up during grace is credited and not charged, the organisation is
  suspended all the same and nothing charges it any more
  (`routes/billing.ts:96`; `FundedIsRevived`), against
  `templates/expiry-reminder.ts:142`;
- two sends that name one attachment both succeed and one goes out without it
  (`services/chat.ts:386`; `NothingDropped`), against `services/chat.ts:358`,
  "the send call rejects rather than silently dropping refs";
- the tick re-claims a row that failed after it was selected, although failed
  sends are not to be retried automatically (`send-dispatcher.ts:6`);
- a refund that arrives after its window has expired is taken from the next
  window (`stale`);
- two callers that meet crosswise on the last hourly and daily slots are both
  refused although neither sends;
- with overlapping requests two renewals can be charged for one period, and a
  cut between debit and UPDATE charges a period twice, although the tick is
  called idempotent (`billing-tick-cron.ts:8`);
- a payment that one delivery reports by the provider's id and another by the key
  alone is credited twice, because the credit is made under whichever the payload
  gives and the attempt's status is not looked at (`routes/billing.ts:87`;
  `CreditedOnce` without the name), against `wallet-transactions.ts:17`, "a
  duplicate webhook delivery cannot double-credit";
- a report that gives only the provider's id and comes before
  `setCollectionProviderId` has stored it is answered 200 and forgotten, so its
  payment is credited only if the provider reports it again for a reason of its
  own (`routes/billing.ts:72`; `UnknownAttempt`);
- a delivery whose transaction inserts the organisation's first wallet row while
  another request inserts it too fails, and leaves a succeeded attempt without
  its credit (`services/billing.ts:173`; the `cut` of `SucceededIsCredited`),
  against `collection-attempts.ts:10`, "succeeded: funds collected, wallet
  credited";
- the balance is never negative: no caller passes `allowNegative`, and in grace
  nothing is charged (`NeverOverdrawn`).  The schema and the plan say "May be
  briefly negative during grace" (`packages/db/src/schema/wallets.ts:29`; likewise
  `docs/plans/2026-05-10-phase-c-billing-schema.md:59`);
- the first charge of a trial is anchored at the trial's end, however late it comes
  (`services/billing.ts:338`; `PaidTime`): `startTrial` sets `currentPeriodEnd`, so
  the `?? now` is never taken.  The comment at `services/billing.ts:334` says
  "or now, for trial → active first charge";
- a redelivery after a lost answer stores the message a second time; a message
  that cannot be parsed is answered 200 `stored: false`, so the engine says 250
  and nobody bounces it, although `email-receiver.ts:73` speaks of a bounce;
- mail restored from trash while a hard delete holds its id is deleted
  (`trash-retention.ts:104`); a hard delete that selects mail whose attachments
  are still being inserted leaves their bytes (`missed`);
- an attachment whose write fails halfway leaves a partial file that no row names
  and nothing deletes (`email-receiver.ts:429`, `attachment-storage.ts:49`; `torn`);
- an older message moves a thread's `lastEmailAt` back, and a later one then
  founds a second thread (`thread-service.ts:170`); two backfills assign a
  message twice (`raced`);
- a hard delete leaves `threads.emailCount` as it was, so after one the count is
  higher than the number of messages (`trash-retention.ts:104`, 172, 210;
  `CountExact` with its `wasted`);
- the search by subject looks among the 50 most recent threads of the mailbox,
  whatever their subject; with more of them in the window a message founds a
  second thread of its subject with no race (`thread-service.ts:103`; `NoSplit`
  without the exception of `crowded`);
- a digest overwrites what was merged while the model worked
  (`processors.ts:577`); a nameless mail that arrives while the one derive job
  of its sender waits keeps no name, as the job fills only its own mail and the
  job id swallows a second one (`processors.ts:131`);
- a row left in flight by a kill, or by a retry that meets a newer row of its
  key in the unique index, is never taken up (`sync_engine.dart:244`; the
  `orphans` of `RowSettles`);
- UNDO asks the server for the inbox at once, and so do the bulk actions; an
  archive or a delete of the mail that is still queued, under way or being retried
  arrives later and wins (`email_detail_screen.dart:149`, 252,
  `email_list_item.dart:60`, 92, `inbox_screen.dart:217`, 343; `LatestMoveWins`
  without the exception of `bypassed`);
- a queued compose that is refused or runs out of attempts is marked failed in the
  outbox only: its placeholder goes on saying "sending" (`sync_engine.dart:260`),
  while a compose refused at once is marked failed for the user to retry
  (`mail_actions.dart:151`).  The user finds the former only on the Pending Sync
  screen; `NoStrandedPlaceholder` counts its failed row as found.

## 5. Proofs

Each theorem holds for every value of the constants that satisfies the named
`ASSUME` of its module (`ParametersAssumption`, `LimitsAssumption`,
`BillingAssumption`, ...), which says only that bounds are numbers (positive
where zero makes no sense), sets are finite where something is counted, and
distinct kinds of things are disjoint.
Every module's proof has the same shape: an inductive invariant, stated beside
the properties and checked by TLC first, then one lemma per conjunct with one
step per action, then the theorems.  Sets are counted with the library's
`FiniteSetTheorems`.

| Module | Invariant | Theorems (property) |
|---|---|---|
| `SendPipelineProofs` | `IInv`, `SlotInv` | `TypeCorrect`, `LockCorrect` (`SendLock`), `RetryCorrect` (`RetryLeft`), `DeliveryCorrect` (`CopiesAccounted`), `SentCorrect` (`SentIsFinal`), `RefinesOutbox` (`ImplementsOutbox`), `SlotsCorrect` (`SlotsAccounted`), `NoLossCorrect` (`NoLostSlot`) |
| `SendRateLimitProofs` | `RateInv`, `QuietInv` | `RateInvariant`, `CeilingCorrect` (`CeilingUpToStale`), `QuietCorrect` (`QuietExact`) |
| `BillingProofs` | `BillingInv` | `OverdrawnCorrect` (`NeverOverdrawn`), `CreditCorrect` (`CreditedOnce`), `LedgerCorrect` (`LedgerExplainsBalance`), `PaidTimeCorrect` (`PaidTime`), `ServiceCorrect` (`PaidIsServed`), `SucceededCorrect` (`SucceededIsCredited`) |
| `MailboxProofs` | `MailboxInv` | `TypeCorrect`, `DiskCorrect` (`DiskMatchesRows`), `AcceptedCorrect` (`AcceptedIsStored`), `DeletionCorrect` (`OnlyDiscardedIsDeleted`), `RefinesMailStore` (`ImplementsMailStore`) |
| `ThreadingProofs` | `ThreadingInv` | `TypeCorrect`, `CountCorrect` (`CountExact`), `RepliesCorrect` (`RepliesJoin`), `SplitCorrect` (`NoSplit`) |
| `AiWorkerProofs` | `WorkerInv` | `FanOutCorrect` (`FannedOut`), `HeaderCorrect` (`HeaderNameWins`), `PriorityCorrect` (`PrioritiesKept`) |
| `ChatProofs` | `ChatInv` | `TypeCorrect`, `BytesCorrect` (`ClaimedInTimeKeepsBytes`), `AttachedCorrect` (`NamedIsAttached`), `AloneCorrect` (`AsIfAlone`) |
| `MobileSyncProofs` | `MobileInv` | `TypeCorrect`, `OutboxCorrect`, `CopiesCorrect` (`CopiesExplained`), `MovesCorrect` (`LatestMoveWins`), `PlaceholderCorrect` (`NoStrandedPlaceholder`) |

What each property needs to become inductive:

- *Pipeline.*  A compose request in progress writes the status without looking,
  so one has to know that its row is still idle (`ComposeOwnsRow`) because
  nobody else holds it (`OthersWait`).  `RetryLeft` needs that the count a job
  decides by is the row's (`SeenIsCurrent`), and `CopiesAccounted` where the
  acceptance of the last copy is remembered (`CopyKnown`).  All but type
  correctness and `SlotsCorrect` assume `~EarlyAccess`.  The refinement maps each step, from `IInv`,
  to a step or a stutter of `Outbox`; `SentIsFinal` follows from it, since no
  step of `Outbox` but a delete takes a row out of sent.
- *Slots.*  The sizes of the four sets of holders are compared before and after
  each step.  That needs them finite (`FinitelyHeld`), and that a claim never
  makes a job that exists already nor a job that moves meets another: the row's
  attempt count names every claim once (`UniqueClaims`, with early access too).
  `NoLostSlot` follows where nothing ends a holder early.  That is the theorem's
  hypothesis `FaultFree`: no crash, no failing statement, no hard delete and no
  dispatch request, as in the run `send_liveness`.  With any of them a slot can
  be lost, and so it can once a row of `Unowned` has been attempted, which the
  property itself excepts.
- *Limiter.*  The argument counts the callers a window counts (`Conserved`) and
  uses that only a caller whose answer was within the limit is authorised
  (`HoldersWithin`).  Without expiries and lost commands every increment and every
  undo lands in Redis (`SlotsWhereCalled`, `NothingStray`), so each counter is
  what was given out plus what the calls in progress have added and not taken
  back (`CountsExplained`); a crash only leaves more counted than held, so the
  ceiling survives it and the equality does not.
- *Billing.*  The ledger needs that without overlap only one request is busy
  (`Alone`) and that an open transaction then holds the current balance
  (`WalletRead`), which also keeps debits covered when transactions overlap
  (`NeverOverdrawn`).  `CreditedOnce` needs that only deliveries of paid top-ups
  reach the credit (`DeliveriesPaid`).  `PaidTime` needs that a renewal works on a period that is
  over and has read its end (`OnlyDueIsRenewed`), that nothing is charged before
  the trial (`NoChargeYet`), and the account of the charge whose period is still
  to be written (`PaidSoFar`).  `SucceededIsCredited` needs that a delivery of
  an unknown event, which writes back the status it has read, has read
  "succeeded" only where the credit was explained (`SeenIsExplained`).
- *Mailbox.*  What a delivery has left behind at each statement
  (`DeliverySoFar`) and from when its attachment rows exist (`AttachedSoFar`);
  that a hard delete holds only what it selected (`HeldIsPicked`), for a reason
  that lasts until somebody touches the row (`HeldForAReason`), and why it left
  a file (`UnlinkedSoFar`); that a 250 follows the end of a delivery
  (`AcceptedIsOver`).  The refinement maps each step, from the same invariant, to
  a step or a stutter of `MailStore`: a file that is written belongs to no
  attachment row yet, and a file that is unlinked to a row the delete holds.
- *Threading.*  Each agent works on a message of its own (`WorkersOwn`) and on
  threads that exist (`ThreadsExist`).  `CountExact` needs that what a bump has
  read is what the table says or older (`ComingListed`): where the counts are
  equal, nobody has written in between.  `RepliesJoin` needs that an assignment
  whose answered messages are all known neither looks for a subject nor founds
  a thread, and aims at the thread of one of them (`JoiningReply`).  `NoSplit`
  needs that `lastEmailAt` of a thread that never went back covers its messages,
  those on their way and those an assignment knows, so that who found no
  candidate knows of none (`LastCovers`).
- *Worker.*  Jobs are about stored mail (`JobsStored`), an email has one ingest
  job, queued or run by one worker (`OneIngest`), what the attempt in progress
  has fanned out (`FannedSoFar`), and a merge that meets no other has read the
  digest (`MergesAlone`).
- *Chat.*  Nothing is dated after now (`NothingLater`), a send works on its own
  message (`SendsOwn`), what each request has read is current while no other of
  its kind runs (`StagingAlone`, `SendsAlone`, `PairsAlone`, `ReadsAlone`), only
  rows past the TTL are swept (`SweptIsOld`), a claim lasts as long as its row
  (`ClaimStays`), and halves of conversations are being filled
  (`HalvesCounted`).
- *Mobile.*  One pending row per key (`OnePending`), a row in flight is run or
  orphaned (`InflightExplained`, `RunsAlone`), a draft has one row, made after
  its direct call (`OneRow`), and the accounts of copies, moves and placeholders
  part way through a drain (`CopiesSoFar`, `MovesSoFar`, `SwappedByThen`); and
  that a mail with a direct call on its way is `bypassed`, and that one a direct
  move has settled has no row left to run (`DirectSoFar`).

Every invariant and action property of a passing run has a theorem.  Only
model-checked is liveness (`SendingResolves`, `SoftFailureRetried`,
`ScheduledSent`, `NothingOverdue`, `RowSettles`, `ExpiredIsDeleted`), as fairness
and ENABLED are out of the prover's reach.

## 6. Abstractions to know of

- One user; users share no row and no counter.
- A `scheduledAt` in the past sent by the client is treated by compose as an
  immediate send; `createDraft` still stores it, but the row then leaves idle
  at once, so the tick's scheduled query does not see it unless the claim
  throws; this case is left out.
- Soft moves between folders do not touch the columns modelled.
- The events published to clients are left out; no code decides by them.
- Billing models one organisation with one plan and a fixed number of seats.
  Nothing in the API sets `wallets.frozen` or the status `cancelled`, so the
  branches that look at them are never taken.  The provider's transaction id
  names one attempt, as it was issued for it.
- `MobileSync`: one client.  `setRead`, `retrySend` and `moveFolder` rows have no
  caller on any screen and are left out.  A tap's store write and its enqueue
  are one action.  A call the app gave up on has reached the server by then or
  never will.  A batch is run in any order; it holds all due rows, as the LIMIT
  of 20 is not reached.  `MaxTaps` bounds stars and moves of either way together,
  and a mail has one direct call at a time.  The purge of a mail that is in trash
  already, from its screen or in bulk, is left out.
- `Mailbox`: a mail has one set of attachments; `inbox` stands for every folder
  that is neither trash nor spam.  Deleting a whole mailbox
  (`MailboxService.delete`) cascades over its rows in any folder and leaves their
  files on disk; it is not modelled.
- `Threading`: subjects are normalised; a thread of an empty subject is stored
  as "(no subject)", which the instance does not use.  Participants are reduced
  to senders.
- `AiWorker`: one sender and one user.  An email has one urgency, whether the
  classifier or the digest gives it.  The best-effort upserts and the
  fire-and-forget enqueue of the delivery succeed.  The id of the derive job
  stays known, as BullMQ forgets it only after a hundred later jobs.
- `Chat`: timestamps are distinct.  The claim and the delete statements of a send
  do not fail on their own; a request may be cut off between any two.

## 7. Not modelled, and what would come next

- `Cache` (read-through against invalidation) and RSVP (check-then-send): their
  hazards are listed without a property.  They come next.  RSVP would also show
  that the comment at `routes/inbox.ts:893`, a stale read "won't cause a double
  send because the dedupe check above runs on every request", holds only for
  requests that do not overlap and for calls of the engine that are heard.
- Quick replies from a notification (`routes/notification-actions.ts`), which go
  through the dispatch steps of `SendPipeline` behind a one-shot token.
- Message editing, reactions, typing and search of the chat; outgoing webhooks,
  a retry loop without shared state.
- The SMTP dialogue before DATA, MIME, DKIM and ICS are parsing and formatting.
- Authentication, MFA, API keys, push, domains, labels, templates, contacts,
  search, documents, projects, analytics: row look-ups and CRUD of one statement
  per request.  The web client and the screens of the mobile client are user
  interface, by far the largest part of the source; their requests are the
  inputs of the models.
