# Carpool Notify Plus: a verification project

Carpool Notify Plus keeps the books of shared subscriptions: parent accounts
("母号") have seats, customers rent a seat per period, and the server bills,
reminds, cools seats down, handles bans and cancellations, and mails people. An
operator works in a web console; customers redeem codes on a public page.
This directory holds TLA+ models of the Go backend (`src/internal`) and of the
React client (`src/web/app`), the TLC runs that check them, and the theorems
TLAPS proves about them.

## How the parts interact

**Server.** All state lives in one SQLite database opened with one connection
(`internal/db/store.go:65`), so a transaction is atomic and serial. Concurrency
comes from handlers that read (a clock, a row, a version) *before* their
transaction, from the scheduler goroutine, and from crashes between steps.
`dueNotificationMu` (`service/subscription.go:62`) serialises some handlers with
the notification run; cancellations, bans, archiving and redemptions do not
take it. The settings are the exception: they are kept in a file, in rows and in
memory at once.

**Console.** A single-page application. Every page reads lists through a query
cache and writes through mutations; a mutation that succeeds invalidates the
queries it names. The page is therefore a *copy that ages*: dialogs are opened
on it, forms are filled from it, and by the time a call arrives other tabs,
customers and the scheduler have changed the rows. Which calls carry a version,
a due date or a key that lets the server notice, and which do not, is what the
page modules are about. All requests go through one client with a CSRF token
that is fetched once and shared, and through a switch between live data and a
sandbox that all tabs of a browser share.

## Inventory

| Component | State | Operations | Hard behaviour | What makes it correct |
|---|---|---|---|---|
| Seats and subscriptions (`db/store.go`, `db/seat_integrity.go`, `db/account_availability.go`, `service/subscription.go`, `service/account.go`) | accounts, seats, subscriptions | register, edit/move, archive, delete, pause an account, set a cool-down | races for a seat, clock read before the transaction, reconciliation at start-up | a seat has one customer; a seat that cools down is empty; cool-downs follow the rolling allowance |
| After-sales (`db/after_sales.go`, `db/cancellation.go`, `service/after_sales.go`) | after_sales_cases, cancellation columns | leave, lapse, ban, refund, undo, reassign | three ways for a case to end, racing each other | an open case can be settled; nobody stays on a banned account; a paid period is refunded |
| Deferred renewals (`db/renewal_deferral.go`) | renewal_deferred_at | defer, restore, confirm removal in a batch | all-or-nothing batch, versions | a deferred customer stays seated until removal is confirmed |
| Billing ledger (`db/store.go`, `service/bill.go`, `service/calendar.go`, `db/renewal.go`, `db/price_change.go`) | bills, price, scheduled price, versions, price changes | pay, take back, edit, schedule a price, correct the schedule, refund amounts | stale versions, a payment in flight, schedules corrected under bills and cases | no edit is lost; refunds never exceed payments; bills stay on the schedule; a scheduled price is never retroactive |
| Business email outbox (`db/business_email.go`, `service/business_email.go`) | business_email_outbox | queue with a change, cancel what became untrue, deliver in batches, retry, clean up | crash between SMTP and commit, duplicates, edits while a mail is sent, addresses that never work | nothing that waits is lost; one customer's mails keep their order; a confirmation that is sent is true; a dead address delays nobody for ever |
| Due notifications (`service/subscription.go`, `scheduler/scheduler.go`, `db/store.go`) | notification_log | tick, plan, collect, send, retry with back-off, cancel what is owed no more | changes between planning and sending, retries across days, a schedule that moves under planned rows | what is sent was owed when it was checked; what is owed is tried; what was confirmed is not sent again; nothing waits for ever |
| Redemption codes (`service/redemption.go`, `db/store.go`) | codes, applications | generate, disable, delete, redeem, invite, reject; undone by deleting or archiving the registration | one code submitted twice, decisions made twice | a code serves one application; a decision is made once and stands until its registration is undone |
| Redemption web pages (`RedeemPage.tsx`, `RedemptionsPage.tsx`) | token in the browser's storage, dialogs; polled list, invitation panel | submit, track, reset; invite, reject, manage codes | lost answers, reloads, a list that moves under a form | the decision reaches the customer; an invitation goes to whom it was typed for |
| Accounts and their cost ledger (`service/account_cost.go`, `db/store.go`, `AccountsPage.tsx`) | account, renewals, availability, cool-down | edit, register a renewal, pause, ban, set and release a cool-down; accrual by the scheduler | the opening date is corrected while a renewal is on its way, between two readings of it | a renewal follows the one before it |
| Team subscription cards (`CardsPage.tsx`) | card, dialogs | edit, renew, defer, end, delete, remind | a dialog on an old card | a deferral is for the date that is due |
| After-sales page (`AfterSalesPage.tsx`) | list, dialog | edit, refund, undo, reassign | questions confirmed after the case was settled | what was settled stands |
| Goals and market prices (`service/goal.go`, `db/goals.go`, `service/market_radar.go`, `GoalsPage.tsx`) | goals, market snapshot | create, edit, complete; refresh | checked before written; readings overtaken by a refresh | one active goal; completed ones stay; a refresh shows what it fetched |
| Repricing (`service/goal.go`, `db/pricing_exemption.go`, `GoalsPage.tsx`) | next prices, exemptions, cool-downs of increases | schedule for many, schedule by hand, exempt | three readings of the same rows, all of which may be old | the safeguards hold when the price is written |
| Customer care (`service/customer_care.go`, `db/due_extension.go`, `db/customer_benefit.go`, `CustomerBenefitDialog.tsx`) | due dates, benefit events | grant, revise, revoke | answers lost and requests repeated, due dates that move, bills written out of order or taken back under an extension | a due date moves once and as asked; a paid period keeps its date |
| Settings (`config/config.go`, `handler/api.go`, `SettingsPage.tsx`) | file, rows, configuration in use; form, previews | save, preview, QR code, raw templates | half a save, a roll-back that fails, late previews, secrets typed during a save | one save everywhere; untouched parts are kept |
| Browser session and sandbox switch (`api/client.ts`, `lib/csrf.ts`, `lib/sandbox-mode.ts`, `handler/csrf.go`, `handler/handler.go`) | cookie, CSRF token, storage shared by tabs | log in and out, write with a token, switch, reset | a token refused or late, another tab switching | a write runs once, on its own side; nobody waits for ever |
| Web shell (`App.tsx`, `app-shell.tsx`) | route | routing, invalidation | none beyond the pages | a page at a time |
| Bills, rentals, calendar and dashboard pages | lists, forms | queries, forms | what the modelled pages have | not modelled |
| Notification senders; abuse guard; cycle arithmetic; account naming; operations journal and expenses; sandbox copy | see "Not modelled" | | | not modelled |

## Modules

| Module | Models | Composed with |
|---|---|---|
| `SeatLifecycle` | who sits where, cases, cool-downs, deferrals | refines `SeatOccupancy` |
| `SeatReleases` | the same with a memory of which cool-downs were released | extends `SeatLifecycle` |
| `BillingLedger` | the money of one subscription | |
| `BusinessEmailOutbox` | confirmations and their delivery | refines `MailDelivery` |
| `DueNotifications` | reminders and price notices | |
| `RedemptionStore` | the tables of codes and applications | extended by the next two |
| `RedeemPage`, `RedemptionsPage` | the customer's and the operator's page over them | |
| `RepricingDesk`, `CustomerCare`, `GoalBoard` | the three panels of the goals page, each with its server side | instances of `WebConsole` |
| `SettingsPage`, `AccountsPage`, `SubscriptionsPage`, `AfterSalesPage` | a page and its server side each | instances of `WebConsole` |
| `ClientSession` | token, login, sandbox switch of several tabs | instance of `WebConsole`; alone in `MCClientSession` |
| `WebConsole` | the router: one page at a time, with the bounds of each | eleven instances of nine page modules (prices and redemptions twice); `MCWebConsole` |
| `*Proofs` (eight) | theorems of the module they are named after; `WebConsoleProofs` those of the pages | |

The server modules follow rows through time and faults; the page modules follow
one operator's page, with the handlers it calls split where the code reads and
later writes, and with the other tabs as an environment that changes the same
rows. The two meet in the operations they share, each kept as detailed as its
own properties need.

The order in which they were built is the order of importance: where customers
sit, their money, what is told to them, the codes by which they enter, then the
pages that write to all of it. What would come next: `WebConsole` with the
server modules in place of the pages' own rows (one behaviour from the click to
the ledger), the abuse guard's table, and the calendar as recursive functions
against a reference definition.

## Runs

Twelve, each for one question. Bounds and fairness are with the modules below.

| Run | Shows |
|---|---|
| `seat_accounts` | bans, cancellations, refunds, reassignments and deferrals interleave without stranding a case, losing a paid period, moving anyone onto a paused account or ending a deferral by accident |
| `seat_freeze` | departures release exactly the seats the allowance leaves; a cooling seat is empty; the rows implement `SeatOccupancy` |
| `seat_restart` | exclusivity across restarts; a released cool-down stays released, unless its row was archived again |
| `ledger_prices` | a scheduled price stays ahead of what is paid, a receipt agrees with the price it leaves behind, a stale form is refused, a case's snapshot stays true |
| `ledger_refunds` | no bill is refunded beyond its amount, no receipt appears behind an open case |
| `outbox_delivery` | confirmations are true, duplicates only after a failure, the rows implement `MailDelivery`, every mail to a working address settles |
| `due_reminders` | nothing that decides whether a reminder is owed comes between its check and its sending, what is owed all along is tried, nothing waits for ever |
| `redeem_page` | a code serves one application; a decision reaches the customer who was told that it is pending |
| `console_desk` | repricing, goals, cards, after-sales: safeguards at the moment of writing, completed goals, what a refresh shows, deferrals, final refunds |
| `console_forms` | settings, redemptions: one save everywhere, previews, invitations, decisions that stand |
| `console_session` | care, accounts, session: due dates and paid periods, the cost ledger, writes on their own side |
| `sandbox_reset_keeps_old_data` | violation: see "What the code does otherwise" |

More configurations are kept as demonstrations and end in a violation:
`ArchiveTwice.cfg`, `DeparturesRace.cfg` and `RestartLosesCoolDown.cfg` with
`MCSeatLifecycle`, `ReleaseLost.cfg` with `MCSeatReleases`,
`PriceChangeNotRecorded.cfg` with `MCBillingLedger`, `FirstPollFails.cfg` with
`MCRedeemPage`, `RenewalSkipped.cfg` with `MCWebConsole`.

## What the code does otherwise

* **The sandbox is reset under an open page** (`sandbox_reset_keeps_old_data`).
  `lib/sandbox-mode.ts:88-89` says that queries, forms and selected ids are dropped
  together and that old data is never used with a new scope. Resetting the
  sandbox (`SettingsPage.tsx:1271`) only stores the new id: what was read from
  the old sandbox stays in the cache. The run reads in a sandbox, resets it, and
  still has the old data.
* `ArchiveTwice.cfg`: archiving an archived row ends its cool-down, although the
  comment calls it a no-op.
* `ReleaseLost.cfg`: `store.go:651-652` says that the reconciliation never
  restarts a cool-down that was released. Released by hand, then archived once
  more, a row has no deadline left (the second archiving clears it), so the next
  restart takes it for a departure that never had one and cools its seat down
  again.
* `DeparturesRace.cfg`: `store.go:2891-2892` says that concurrent departures cannot
  consume the same slot of the allowance; departures that commit in the other
  order than they read the clock do.
* `RestartLosesCoolDown.cfg`: the reconciliation at start-up orders a batch by
  id, the removal had ordered it by request.
* `PriceChangeNotRecorded.cfg`: a second change of price from the same due date
  is applied without a record, because the insert does nothing on a conflict.
* `FirstPollFails.cfg`: the page of an application asks every five seconds while it
  is told "pending". If the first poll fails there is nothing to be told yet, the
  page says that the application cannot be found and does not ask again of its own
  accord, so a decision does not reach it. The same happens when a poll fails after
  a decision was shown and the invitation was taken back.
* `RenewalSkipped.cfg`: `account_cost.go:61-63` says that accrual works forwards from
  the latest renewal and can never skip an earlier one. It reads the account and
  the ledger separately and compares the opening date when it writes; a date that
  is moved and moved back in between, which removes the first period and enters
  it again, leaves a later renewal in the ledger without the one before it.

## SeatLifecycle

State: one variable per column that the properties tell apart (`life`,
`seatOf`, `archivedAt`, `frozenUntil`, `boardedAt`/`bills` for the first unpaid
date, `deferred`, `requestedAt`, `paused`, `banned`), the set `cases`, the wall
`clock` in days, and `req`, what a handler read before its transaction. A
`cancellation_case_id` is represented by the day of the request, which
identifies the case. `life` folds `archived_at`, `deleted_at` and the row's
existence; archive keeps the timestamp apart because the code does
(`COALESCE(archived_at, ?)`).

Each action is one handler with its transaction. Three are split in two because
the code reads first and commits later: leaving on request
(`BeginLeave`, then `CommitExpire` or `CommitCancel`), completing a refund
(`BeginRefund`, then `CommitCancellationRefund` or `CommitBanRefund`) and the
confirmed removal of deferred customers (`BeginCompleteDeferred`,
`CommitCompleteDeferred`). `fresh` stands for the comparison of `updated_at`:
every write of the row makes the snapshot stale. `RollBack` is a transaction
that refuses. `MutexFree` is `dueNotificationMu`, which only the batch holds
between two steps here. `Restart` loses the requests and reconciles cool-downs
(`backfillCancellationSeatFreezes`).

`Spec` is the server while it runs, `RestartingSpec` adds restarts. `SeatReleases`
adds two variables that remember which cool-downs ended (`over`) and which of
those rows were archived once more (`erased`); its `RememberingSpec` takes the same steps and
only writes them. None has
fairness: every property here is about safety, and nothing in this component
acts by itself except lapsing, which the code does lazily before other requests.

### Runs

`seat_accounts` has two accounts with a seat each, two customers and two
handlers; `seat_freeze` one account, two seats, three customers and batches of
two; `seat_restart` one seat of one account, three Team customers and one on
Plus (no seat) and restarts, from `SeatReleases`.
`CasesMatchSubscriptions` is the conjunction of the four case invariants
(`OpenCaseCanBeSettled`, `CancellationPointerIntact`,
`NobodyStrandedOnBannedAccount`, `DeferredIsQuiet`).

Bounds. `Allowance = 1`, `Window = 2`, `FreezeDays = 2`, `Period = 2` instead of
4, 30, 7 and 30: the second departure already exceeds the allowance, and three
instants (`MaxTime`) let one fall out of the window; `seat_restart` has four, so
that a cool-down that ended is followed by a second archiving, by another
customer's departure and by a restart; a ban takes effect at once there (`BanDelay = 0`). Two customers per seat are
enough for every race over one; two handlers for every pair of reads and
commits; three customers for a departure, a cool-down and a newcomer. One paid
period (`MaxBills`) separates paid from unpaid; where no property looks at what
is paid (`seat_freeze`) there is none. `CHECK_DEADLOCK FALSE`: at
`MaxTime` with nothing left to do the bounded instance stops. Symmetry permutes
seats of one account, handlers, or accounts together with their seats; customers
are ordered by id and are not permuted.

Not claimed: that `CoolDownKeepsSeatEmpty` survives a restart. The
reconciliation may give an old departure a cool-down after its seat was handed
on.

### Proofs

`SeatLifecycleProofs` proves, for every value of the constants that satisfies
the four assumptions of `SeatLifecycle`, every property of the three runs:

* `TypeCorrect`: `TypeOK` needs two strengthenings to be inductive. A request
  for one customer names exactly one (else a commit would read `subs[1]` of an
  empty list), and a rental that is not Plus is seated (else a cancellation
  would name no account).
* `SeatsAreExclusive` and `CoolDownIsExclusive`: both rest on `SeatStep`: every
  operation leaves each customer where he is or sees him off, with at most one
  exception, who takes a seat nobody else holds. From it "one holder per seat",
  counting occupants and cool-downs alike, is inductive while the server runs;
  counting occupants alone, a restart preserves it too, since it writes no seat.

* `CasesStayInStep`: none of the four case invariants is inductive alone. The
  invariant `FitTogether` is about one customer and all his cases: one case at
  most is open and one refunded, an open cancellation case is the one the pointer
  means, a refund has ended the rental, an active rental on a banned account has
  its open case, and a deferral excludes all of them. `RequestsServe` says what a
  handler that has read still relies on when it commits.
* `PaidTimeIsKept`, `PauseIsRespected` and
  `DeferralKeepsSeat`, action properties, from the same invariant: each names the
  few steps that could break it and shows what their guard asks again.
* `ReleasesAreFinal`: a cool-down that ended stays over, however many steps and
  restarts later. A restart recomputes it from the departures, so the proof needs
  more than the deadline (`MemoryOK`): either it is in the row and past, or the row
  is settled (`Settled`): the allowance covers it, and neither a request in
  flight nor a later departure, whose instants are not before it
  (`RequestTimes`, `DepartureTimes`), can push it out.
* `SeatsKeepTheirPromise`: the refinement of `SeatOccupancy`. Every operation is a
  boarding, a move, a departure with the cool-downs it starts and ends, or a
  stutter under the mapping; it needs that a refunded ban releases its seat (`BanRefundsRelease`).
* `AllowanceIsKept`: how many seats one step releases, for batches of any size.
  `teamSeatFreezeDeadline` counts the departures before each leaver; the proof
  counts places in the line of the batch, with bijections between sets of
  numbers, and so needs no induction over the batch.

The instances of the runs satisfy `TypeOK` too, which is not among the
properties listed because it is proved.

## BillingLedger

The money of one subscription. The rows of different subscriptions never meet in
the code modelled here, so one is enough; what it shares with the other customers
of its account is the ban, which `BanAccount` brings from outside.

| State | Stands for |
|---|---|
| `rental`, `schedule`, `price`, `next` | `business_type`; `boarded_at` with the interval form of `cron_expr`; `price_per_person_cents`; `next_price_cents` with its effective due date |
| `bills` | per due date the amount of its row in `bills`, or `None` |
| `changes` | the effective due dates that have a row in `subscription_price_changes` |
| `active`, `cases` | neither archived nor deleted; `after_sales_cases` with the bill it refers to, the amount it recorded and the refund it promises |
| `form` | per browser tab, what its edit form shows; `fresh` is the comparison of `updated_at` that refuses a stale one |
| `pay` | the payment between the read of `SetDuePaid` and the transaction of `setDuePaid` |

A payment is split in `BeginPay` (mutex, checks, `billAmountCentsForDueDate`)
and `CommitPay` or `RefusePay`, because cancellations, bans and refunds do not
take `dueNotificationMu` and may come between. Every other handler is one
step: `UpdateBill`, `DeleteBill` (also a payment taken back), `OpenForm` and
`UpdateSubscription` (the edit with `configureNextPrice` and the move or the
synchronisation of a bill), `UpdateNextPrice`, `RequestCancellation`,
`RestoreCancellation`, `BanAccount`, `UpdateCase`, `RefundCase`, `UndoRefund`,
`ReassignCase`, `ArchiveSubscription`, and `Restart` with the repair of
postponed prices (`NormalizeScheduledNextPriceEffectiveDates`). `Init` starts a
new subscription, optionally with a price that an older version scheduled for a
later period: that is what the repair exists for. There is no fairness: the
component only reacts.

Left out: costs, resale rows, schedules given as cron expressions, due
extensions, price benefits, and the amounts within a price change (only which
due date has a row matters, because the insert does nothing on a conflict).

### Runs

`ledger_prices` has two boarding days, two intervals, one tab and one case;
`ledger_refunds` Team and Plus, two cases, daily periods and back-dated bans.

Bounds. Two amounts make every comparison of prices, payments and refunds go
both ways. Three days (`MaxDay`, `Horizon`) hold a paid, a current and a next
period; a warranty of two days makes refunds full, partial and zero. One tab is
enough for a lost update, because payments, price scheduling and restarts are
the other writers; `ledger_refunds` needs none. Two cases are what two refunds of
one bill take. `Grace = 1` and `BanDelay = 1` let a request lapse, and a ban be
dated before a payment or a request. Deadlock is checked.

### Proofs

`BillingLedgerProofs` proves, for all prices, calendars, tabs and numbers of
cases that satisfy the four assumptions of `BillingLedger`, every property of
its runs:

* `LedgerTypeCorrect`, `BillsStayOnSchedule` and `ReferencedBillsStay`. They
  rest on one inductive invariant, `LedgerInv`. `BillsAreOnSchedule` is not
  inductive alone: a payment could be written off the calendar if the schedule
  were corrected after it was read. `PaysOpenPeriod` says why it cannot be: the
  mutex keeps every other writer of bills and of the schedule out while a
  payment is served. The same conjunct shows that a payment never overwrites a
  bill that a case refers to. The correction of a schedule is the hard step
  (`EditKeepsBills`): it is allowed with at most the first bill, which moves with
  it and then is the only one, and stays where it is if a case refers to it.
  `FirstDay` and `LastDay` (a set of days has a least and a greatest one) replace
  induction over the calendar.
* `RefundsEndSubscriptions`: a refund needs an active subscription, so nothing
  was refunded before it; undoing takes back the only one.
* `NoReceiptsDuringAfterSales`, an action property: the one step that adds a
  receipt asks for open cases again in its transaction.

* `ScheduledPricesStayAhead`, over the calendar and what is paid of it
  (`ScheduledStep` has the operations that may move either).
* `UpdatesAreNotLost`: a form whose snapshot is still fresh equals the row, because
  every writer of what it shows makes it stale.
* `PaymentsFollowPrices`: the amount that a payment read is still the price when it
  commits, since whoever changes a price waits for the mutex.
* `RefundsStayWithinPayments`, from `MoneyInv`: cases are settled one at a time
  (`SettledInTurn`), so a bill is refunded by one, and a case refunds or promises at
  most what it says was paid (`PromiseWithinPayment`), which the rounding of
  `proratedRefundCents` respects (`ProratedWithin`).

Nothing of this component is left to TLC alone.

## BusinessEmailOutbox

State: the bills a confirmation can refer to (`bills`: id and `fact`, the amount
and due date together, the columns the trigger watches), the rows of
`business_email_outbox` (`outbox`, numbered by their AUTOINCREMENT id), whether
SMTP is configured, the run of `ProcessBusinessEmails` under way (`run`: per mail
of the batch where its goroutine is, whether a failure was collected, whether the
25 seconds are over) and what the mail server took (`latest`). Instead of
`next_retry_at` and `updated_at` a row has `left`, the minutes until it is due or
is removed; the scheduler's tick (`BeginRun`) counts it down.

`Pay`, `CorrectBill`, `DeleteBill`, `GrantBenefits` and `DeleteMistaken` are the
transactions that write bills or mails: the mails are inserted, and untrue
confirmations cancelled, in the same transaction. All take `dueNotificationMu`,
which a run holds from beginning to end (`MutexFree`). `Fetch`, `Skip`,
`Accept`, `Refuse`, `FinishSent`, `FinishFailed`, `Expire` and `EndRun` are the
loop with its goroutines: the answer of the mail server may be lost (`Accept`
with `inTime = FALSE`), the result is written although the budget has ended, and
a failure ends the run. `Crash` loses the run. `ConfigureSmtp` is `ApplyConfig`,
which takes no mutex.

`MailDelivery` is the promise: a queue per subscription whose head alone is sent,
perhaps several times, until it is acknowledged; a change withdraws what it makes
untrue and adds at most one mail per customer, behind all others. A queue is the
set of the mails that wait, ordered by their numbers; `ImplementsMailDelivery`
maps the pending rows of a subscription, by id, to it.

Left out: customers without an e-mail address, for whom nothing is queued;
templates and recipients (a row keeps both as they were); errors of the database
itself. `Expire` does not happen before the first query, where it would only
shorten the run.

### Run

`outbox_delivery`: a customer whose address works and one whose address never
does, `Limit = 1`, so that a dead address can fill a batch by itself, delays of 1
and 2 minutes, retention of one minute instead of 24 hours, two mails, two bills,
one crash. Two mails are one behind the other (order, overtaking) or one per
customer (a dead address before a live one); two bills let a period be paid,
taken back and paid anew; a third mail would repeat these cases. It shows that
confirmations stay true, that a mail is sent twice only after a failed attempt
or a crash, the refinement, and that every mail to an address that works leaves
the queue. That the row a goroutine holds does not change under it and that only a
deleted registration loses a mail that waits is proved for every instance (below)
and not checked again.

Fairness. `WF_vars(Proceed)`: the ticker fires for ever, every attempt ends after
ten seconds at the latest, and the goroutines of a batch are scheduled.
`SF_vars(Answer(m))` is what is assumed of the mail server: a mail that is tried
again and again is answered in the end, with acceptance if its address works.
Edits, deletions, crashes and SMTP changes are under no obligation; the liveness
property speaks of the time while SMTP stays configured.

Liveness depends on the back-off growing (`ConstantDelay` breaks it), and on how
many addresses fail: a run ends with its first failing batch of 8 and a delay
reaches 64 minutes, so about 8 x 64 customers whose address fails for ever would
fill every run. The instance has one such customer; the code documents no number.

### Proofs

`BusinessEmailOutboxProofs` proves, for all sets of customers and facts, batch
sizes, back-offs and numbers of mails, bills and crashes that satisfy the three
assumptions of `BusinessEmailOutbox`:

* `OutboxTypeCorrect`, `BatchStaysPending` and `ConfirmationsStayTrue`, as one
  inductive invariant, `OutboxInv`. A result is written to the row that was read
  because the row is still pending (`BatchIsPending`), and it is because every
  writer waits for the mutex and the goroutines write different rows
  (`BatchKept`, `FinishedRow`). Confirmations stay true because each writer of a
  bill either leaves its amount and date alone or cancels (`CancelledRows`), and
  what it queues states the new bill (`QueuedRows`).
* `PendingMailIsKept`, an action property, from the same invariant: the clean-up
  takes rows that are over, and a result keeps its row.

* `SentOnceUnlessFailed`, an action property, from `TakenInv`: a mail that is the
  last its customer got and still waits is held by a goroutine that has not
  written its result, or a failure or a crash is on record. Numbers grow with
  time, so that no new mail looks as if it had been taken.
* `QueuesAreDelivered`, the refinement: a change withdraws and appends, `Accept` is
  a delivery of the head, the result an acknowledgement, everything else a
  stutter. The head is the row that the batch query reads, the oldest pending one.

Model-checked only: `EveryMailSettles` (liveness).

## DueNotifications

The reminders before and on a due date and the advance notice of a new price.
`ProcessDueNotifications` plans rows in `notification_log`, collects those whose
next attempt is due, checks each again and sends it.

| State | Stands for |
|---|---|
| `subs` | what the planner reads of each subscription: its effective due dates (`due`), the periods with a bill, the deferral with the period it began at, the active extension and the first period ever extended (`ext`, `pin`), the period a scheduled price starts in, the date of the last applied one, and whether it is active, has an open case or is archived |
| `log` | `notification_log` by its unique key (subscription, day, kind); `left` counts the slots until `next_retry_at` |
| `now` | the slot: a day is cut into `Slots`, of which the first is before nine o'clock |
| `run` | the run under way: when it read the clock (`at`), the rows whose retry was still to come then (`waiting`), the rows still to be tried by channel, the message being sent, the sender's answer |
| `told` | what a channel confirmed, without what it confirmed to a program that died before recording it |

Time passes (`Tick`) between runs and while one is under way. `BeginRun` is the
scheduler's tick with planning; it reads the clock once, and `Collect`, which is
`ListRetryableNotifications` with the grouping, in either order of channels,
goes by that reading, so a run that crosses midnight still sends what belongs
to the day it began on. `Check` is what is checked before a message (a
customer's mail has one row, the operator's IYUU digest all of its group), by
the clock of that moment: a row that is paid is cancelled, one whose customer
was archived since (`Gone`: `GetSubscription` finds no row) fails for good, one
that is not current is cancelled; `Confirm` and `Fail` the sender's answer, `Finish` the recording of one
row, `EndRun` the end; `Crash` loses the run. A missing
sender, template or address is a failed attempt, as in the code (`Fail`).

`Pay`, `DeleteBill`, `Defer`, `RestoreRenewal`, `CompleteDeferred`, `Extend`,
`Revise`, `SetNextPrice` and `ClearNextPrice` take `dueNotificationMu`
(`MutexFree`); `OpenCase`, `CloseCase` and `Archive` stand for the transactions
of bans, leave requests, refunds and archiving, which do not. Each is reduced
to what the planner and the checks read of it; `SeatLifecycle` and
`BillingLedger` have the rest.

Left out: corrections of a schedule, of a bill's date and of the operators'
settings, mails sent by hand, subscriptions of one month, deleted
registrations, several extensions at once. A schedule is a list of due days;
the calendar that makes it is not part of this module.

### Run

`due_reminders`: a Team customer with the due days 0, 2 and 3, so that one
period's reminder of the due day meets the next one's a day before, and a Plus
rental that shares the second of them, so that the digest has two rows. The
clock goes from the day before the shared due day (slot 4) to the first slot of
the day after it (slot 9) with three slots a day and one slot of it while a run
is under way (`MaxLag`, enough to cross midnight); that is enough for a row to be planned, retried once (`BackOff` has one
entry instead of four) and to expire. `Ahead = 1` day, `Notice = 2` days
(instead of 30) of which `Late = 1` (instead of 14) is the last on which a
notice is planned, extensions of one day, and two changes or crashes
(`MaxEvents`): a change and what takes it back, or a change and a crash. The
clock stops at `End`, where runs and waits go on; this only takes away expiry,
so it does not make the liveness property easier. The last due date of each schedule is
beyond `End`, as a schedule without an end always has one ahead.

It shows that for what is being sent no payment, deferral, extension or price
came after its check, that no run ends without having tried what was owed all
along, also after a cancellation and its reversal, and that no row waits for
ever. That nothing of a deferred renewal waits (`README.md:35`
of the repository) and that what a channel confirmed is not sent again unless
the server died is proved for every instance (below) and not checked again.

Fairness: `WF_run(Process)` and weak fairness of `Tick`. Time passes, the ticker fires for ever, senders return (all
have timeouts) and a run is one goroutine, so some step of it always follows.
No sender is assumed to succeed.

What the run's properties deliberately do not say, because the code does
otherwise: a reminder whose day was missed is not caught up
(`TestProcessDueNotificationsSkipsMissedReminderDate` asks for that); customers who are overdue are not
reminded again; a price notice that was sent is not repeated when the price for
the same date changes; a case opened after the run collected its rows does not
stop a message of it, which is why `OwedIsTried` sets customers with a case
aside and `ReadyIsOwed` does not mention them. Nor does archiving a customer
stop a message that was checked before, and a message may leave after midnight
or when the clock has made another period the first unpaid one; the properties
say that the operator's changes do not come in between, not that the clock
stands still. The back-off has four delays, 1,
2, 4 and 8 minutes, for the fifth attempt is final; the 16 minutes of the
comment (`service/subscription.go:3839`) are never waited.

### Proofs

`DueNotificationsProofs` proves, for all sets of customers, schedules, back-offs
and numbers of events that satisfy the three assumptions of `DueNotifications` (a
notice is planned at least a day before, so `Late` is positive):

* `RemindersTypeCorrect`. The first unpaid period is a minimum over the periods
  of a customer, and exists because the last due date is ahead of the clock and
  has no bill: `LastIsUnpaid`, and `DuesAreShifted`, which says that extensions
  move due dates forwards only. `Least` and `Greatest` replace induction.
* `SendingIsOwed`, from `RunInv`: what is being sent was current in a slot of the
  run (`Checked`), and stays so until its result is written, whatever time
  passes (`CheckedStays`). The changes that decide it wait for the mutex
  (`MutexSteps`); those that do not wait change the status only, and
  `CurrentIgnoresStatus` shows that it does not depend on that.
* `DeferralSilences`: deferring cancels, and planning passes deferred customers
  over (`PlannedKeys`).
* `NoSecondReminder`, an action property, from `ToldInv`: what a channel
  confirmed is recorded, or is in the message whose result is being written.

* `OwedRemindersAreTried`, an action property, from `OwedInv`: while a run is under
  way, what was owed in all its slots (`Wanted`) was tried or is still before the
  run (`Pursued`: still to be collected, in a group, or being sent). Planning
  inserts or reopens it, and a row never tried is due at once (`FreshRows`).

Model-checked only: `PendingSettles` (liveness).

## RedemptionStore, RedeemPage, RedemptionsPage

`RedemptionStore` has the rows of `redemption_codes` (`code`) and
`redemption_applications` (`app`, whose id stands for the tracking token) and the
seats in use (`sold`), with the transactions that change them:
`StoreApplication`, `InviteApplication`, `RejectApplication`, `SetCodeStatus`, and
the two by which an invitation ends with its registration: deleted as a mistake
(`ReturnApplication`, `DeleteMistakenTeamSubscription`: the application waits again
and keeps its code) and archived (`EraseApplication`: application and code are
deleted). Both pages extend it, so that what is proved of it holds under either.

`RedeemPage` is the customer's page in several tabs: `stored` is the token in
local storage, `tab` the page (announcement, form, dialog, what was last seen),
`stray` what was sent by a page that is gone. A submission is asked
(`ConfirmSubmission`), carried out (`ServerTakesSubmission`) and answered
(`SubmissionAccepted`, `SubmissionFailed`, which is also a lost answer) in
separate steps; `ReloadPage` may fall in between. A tab may go to the background
(`HidePage`, `ShowPage`), where it does not ask. `PollFails` keeps what was seen; when
nothing was, the page takes the application for one that cannot be found and asks
no more (`PollDue`). `OperatorDecides` and `OperatorTakesBack` are the other side,
each in one step.

`RedemptionsPage` is the operator's page: the polled list, the card on screen
with its invitation panel, free seats, codes (`desk`), and the mutations
(`calls`). The list moves under the panel; `PanelOf` says when the panel starts
anew. `CustomerSubmits` and `SeatChanges` are the environment.

Run `redeem_page`: one code, two applications, one seat, two tabs of one
browser. Two tabs are enough for a code submitted twice, two applications for a
code that is free again and a token that is replaced by another. Fairness:
`WF_vars(PollDue(t) /\ PollStatus(t))`. A page that is looked at asks every five
seconds while it is told "pending" (`RedeemPage.tsx:1003-1009`), and is assumed to be
answered sooner or later; single polls may fail at any time. In the background it
does not ask, and the property does not speak of it. Nor does it of a page that was
never told anything: after a first poll that fails it does not ask again
(`FirstPollFails.cfg`), so a decision reaches only who was told "pending" before.
Deadlock is checked. `RedemptionsPage` is checked in
`console_forms`.

Proofs. `RedemptionStoreProofs` has the lemmas about the transactions: the
strengthening `StoreInv` adds `HolderAgrees` to the types (the row of a code
points at the application that holds it), which each keeps.
`RedeemPageProofs` adds `AsksForCode` (what is on its way is the code of the form
on screen) and proves `RedeemTypeCorrect` and `CodesServeOneApplication`.
`RedemptionsPageProofs` adds `Consistent` (a price on a card was typed for its
application, a card waits for one call) and proves `RedemptionsTypeCorrect`,
`DeskKeepsCodes`, `InvitationsAreTyped` and `DecisionsAreFinal`, which
`WebConsoleProofs` restates for the console. Its hard part is
`EveryPlaceIsTaken`: the list shows one application a page, and a page up to its
length always has one, a counting argument that needs no induction over data
(`Smallest`, `Largest`). Model-checked only: `DecisionReachesCustomer`.

## The pages of the console

All of them have the same shape. `server` (or `row`, `sub`) is what the server
keeps for the page, `shown` the page's copy of it, `desk` selection, forms and
dialogs, `calls` the mutations under way, `changes` a bounded count of what
happens elsewhere. `Refetch` reads the copy again at any time, as query
invalidation, focus and polling do. A call is `sent`, carried out by the server
(in two steps where the code reads, and writes later) and answered
(`CallAnswered`) or lost (`CallFails`, before or after it was carried out).
Closing a dialog does not stop its call. None of them has fairness: they make
safety claims only, and an operator is under no obligation.

`RepricingDesk` (`GoalsPage.tsx`; `goal.go`; the lock and version checks of the
store). Ticking, the dialog for one price, exemptions, prices typed seat by
seat. `Check` is the validation, which takes the lock that serialises schedulings
(`Locked`), `Write` the transaction, which compares row versions (`stale`), the
charged price, the next price, cases and exemptions (`Unchanged`). Claimed:
`SafeguardsHoldWhenWritten`, at the step that writes and not at the one that
checks.

`CustomerCare` (`CustomerBenefitDialog.tsx`, `ExtensionRevisionDialog.tsx`,
`customer_care.go`). A form draws a key when it is opened and keeps due dates and
versions; `RecordCustomerBenefits` recognises a repetition by the key, and a
changed subscription by due date and version. `ReviseCustomerBenefitExtension`
replaces an extension by a shorter or longer one or takes it back. The schedule
of a customer is kept as the boundaries between its periods (`at`), each where the
extensions in force have moved it; an extension moves one boundary and all later
ones. Bills are written for any boundary (`DuePaid`) and taken back whatever
extensions are in force (`BillTakenBack`), and what is due is the first boundary
without one. A revision is also refused after a notification that was sent or a
price that was applied since; `CallFails` stands for these refusals. Claimed:
`DueDateIsTheOneAskedFor`, `PaidPeriodsStandStill` (`cycle/effective.go:10`: already
paid bill dates are never rewritten).

`GoalBoard`. Creating checks for an active goal in one step and inserts in a
later one (the unique index decides), completing adds up the profit in one step
and writes in a later one. A reading of the page has three steps, so that a
refresh of the market prices can overtake it; `Anew` is the cancelled and
restarted reading after a refresh. Claimed: `CompletedGoalsStay`,
`RefreshShowsWhatItFetched`.

`SettingsPage`. The form is copied on mount and sent whole. `WriteFile`,
`WriteRows`, `RollBack` are `putSettings` under its lock: file, then rows in one
transaction, then the configuration in use. Putting the old file back may fail too
(`RollBackFails`), the server may stop before the rows are written
(`StopsBeforeRows`), and it takes the file it finds when it starts (`Restart`). After
the first two the file is of one save and the rows are of another, until the next
save that goes through; `split` says so, and `OneSaveEverywhere` speaks of the rest.
Claimed: `OneSaveEverywhere`,
`PreviewIsOfThisText`, and `SavesKeepTheRest`: a save of an untouched form
changes nothing it should not, although the visual editor takes templates apart
and puts them together again, and a secret is not sent twice.

`AccountsPage` (with `account_cost.go`). A renewal registered by hand reads the account
(`MarkAccountRenewed`), looks whether it is registered (`LookForPeriod`), reads the
latest period (`CheckRenewal`) and writes (`AccrueRenewal`); the scheduler lists the
accounts (`ProcessAccountCostRenewals`), reads the ledger of each (`StartAccrual`) and
writes what is missing (`AccrueNext`). No lock spans these steps: an edit of the
opening date, a ban and the other way of renewing come between any two, and the
write compares the opening date alone. Claimed: `RenewalsFollowTheLedger`: what is
entered is the opening date or follows a month that is in the ledger, unless the
period it was worked out from has gone since (`Overtaken`). `LedgerHasNoGaps`, without
that exception, does not hold (`RenewalSkipped.cfg`).

`SubscriptionsPage`. The dialogs of one Team card over the transactions that
carry them out, days passing in between. Claimed: `DeferredAtFirstUnpaid`.

`AfterSalesPage`. Edit, refund, undo and reassign over a list that is out of
date; the server checks status, bill, seat and pause again. Claimed:
`RefundsStandAsPaid`.

`ClientSession` (`client.ts`, `csrf.ts`, `sandbox-mode.ts`, `auth-context.tsx`,
`csrf.go`). `browser` is what tabs share (cookie, storage, and the server's
sessions), `tab` each tab's mode, login, token and data, `requests` the writes.
A write chooses its path when it is made (`Submit`), takes or waits for a token
(`UseToken`, `FetchToken`, `TokenArrives`, `TokenRefused`), is served, and is
tried once more with a new token after a 403 (`Retry`). `Switch` and
`StorageEvent` are the change of side here and in another tab. Claimed:
`RunsOnceOnItsOwnSide`, `WaitersAreAnswered`.

`WebConsole` lays the variables of the pages on a common set and chooses a page
at the start; the router unmounts one page before it mounts another, and no state
but the session is shared by two, so pages are not interleaved.

### Bounds

The sizes are constants of `WebConsole`, given in the configurations, so that the
proofs are for all of them: `MaxPrice` 3, `LowPrice` 2 (below it an increase is
recommended), `FewPrices` and `TypedPrices` (typed where there are few or many
calls), `MaxGoals` 2, `MaxChecks` 1, and the numbers of calls, days and writes.

| Page | Instance | Enough for |
|---|---|---|
| repricing | two subscriptions, prices up to 3, one call, one change elsewhere | selections of which one member became ineligible |
| repricing calls | one subscription, two typed prices, two calls, one change | two calls that overtake each other, and a change between check and write |
| goals | two goals, one check of the market, two calls, one change | two creations, a completion during an edit, a reading overtaken |
| cards | two prices, two periods, three writes, two days, one call | a deferral on a card whose period was paid, or taken back, since |
| settings | three edits or saves, previews included; stops and failed roll-backs unbounded | a secret typed, saved, answered and typed or saved again; an older preview after a newer one |
| after-sales | one case, one amount, two calls, one change | a question confirmed after the case was settled by another call |
| redemptions | two codes, two applications, one call | a card that moves while its text is typed, or comes back after its registration was deleted |
| redemption calls | one code, two applications, two calls | a decision made twice, an answer for an earlier card |
| care | one subscription, three keys, one call, two changes, two periods that may be paid, extensions of one day up to day three | grant, grant again, revise; a repeated request; a later period paid first; a bill written and taken back under an extension |
| accounts | one account, three opening dates, renewals every two days, four days, one call | an opening date moved, and moved back, between any two steps of a renewal by hand and of the scheduler's |
| accounts, with departures | one opening date, two days, one departure | a cool-down set or released after the customer on the seat changed |
| session | two tabs, two writes, two logins, one sandbox | a switch in one tab while a write of the other waits; a token that is refused twice |

`console_desk` checks repricing, goals, cards, after-sales and the accounts with
departures, `console_forms` settings and redemptions, `console_session` care, the
accounts without departures, which never touch the ledger, and the session.
`TypeOK` is an invariant of the last; adding it to the configurations of the
other two also passes, and it is proved for all pages. `CHECK_DEADLOCK FALSE`: a page whose bounds are used up
may stop. Symmetry permutes subscriptions, codes and tabs, of which no page
orders or names any. `MCClientSession` with `SandboxReset.cfg` is the session
alone, with two sandboxes.

### Proofs

`WebConsoleProofs` proves properties of all eleven instances, as theorems about
`Spec` of `WebConsole`, for all sets of customers, accounts, codes, seats and
tabs and all bounds: every safety property that the three console runs check,
`TypeOK` of all pages among them. The only assumption is `PageAssumptions`: bounds
positive where a page needs one, opening dates among the days there are, a
renewal registered at most a month ahead (as the code's three days are), prices
within the bound, `Nobody` none of the others. A behaviour is one page's, so each
page has an invariant of its own that holds while the page is it:

* `SessionInv` (`WritesRunOnceOnTheirSide`, `WaitersHaveARequest`): a request that
  is not done has not run (`Sound`), the data of a tab is of the side it works on
  until it leaves (`Placed`), and a request waits only while its tab asks (`Asked`).
  `WorldsInv` counts sandboxes: those made and the resets under way are never more
  than may be made, so no tab works in, or has read, one that was not made. It
  takes the cardinality of a set of requests through every action (`Carried`,
  `CountKept`), for which the requests must be finitely many.
* The two instances of `RedemptionsPage` (`InvitationsGoWhereTyped`,
  `DecisionsStand`) take theirs from `RedemptionsPageProofs`. A rejection stands, an
  invitation until its registration is deleted or archived.
* `SettingsInv` (`PreviewsAreOfTheForm`, `FileAndRowsAgree`,
  `SavesKeepWhatWasThere`): one save at most is between file and rows, and unless
  the two were apart before it would put back what the rows have (`OneWriter`); the answer that the preview on screen
  waits for has the text of the form (`PreviewKept`); no secret that a form was
  told is saved is in it or on its way (`SecretsAreNew`); nobody goes back to a
  save before its rows are written (`SavesAreNew`), and what goes back to the rows
  that are stored now keeps them (`PartsAreKept`).
* `CardsInv` (`DeferralsAreForTheFirstUnpaid`): a deferral is for the first unpaid
  period, and whatever moves that period ends it. `LeastOf` (a set of naturals
  has a least element, by well-foundedness) gives the first unpaid period.
* `CareInv` (`PaidDatesAreNotMoved`, `DueDatesMoveOnce`): a repeated key writes nothing,
  a new extension moves the first unpaid boundary, a revision is allowed for the
  last one only and not over a later bill. What is hard is that shortening or
  taking back an extension keeps the boundaries apart (`Spaced`), although bills come
  and go under it: otherwise two of them would share a date and one bill would be
  taken for two periods. An extension in force has its days before its own boundary
  and behind every earlier one, also after any of the others were taken back. The
  dates in the rows do not say so, since an older extension may have been given with
  others in force that are gone; the invariant assigns each a place (`Fits`), with
  room before its boundary (`Room`), and extensions of one boundary one behind the
  other (`Apart`).
* `OwnersInv` (`LedgersAreFollowed`): the days of a ledger are anniversaries of its
  opening date, which is among them, and a renewal that was worked out and not
  entered yet, by the page or the scheduler, is the month after the period it was
  worked out from, an anniversary of the opening date that was read before it. The
  write compares that date, so what is entered is of the ledger, and if the period it
  was worked out from is still there, it is the month before (`WorkedOut`).

* `GoalsInv` (`CompletedGoalsKept`, `RefreshIsShown`): at most one goal is active, a
  call asks for what its kind needs (`GoalCall`), no refresh brings a price the
  server has not seen, and a reading that ends a refresh was made after the
  refresh was answered (`ReadAfter`), which is why it cannot show an older price.
* `AfterSalesInv` (`RefundsStand`): the types of cases, views, forms and calls. The
  property follows from what an action may make of a case (`Stands`), which
  is shown once for the page's calls and once for the other tabs.
* `PricesInv(S)` (`SafeguardsHold`): a call that was checked asks for a price other
  than the one charged when it was checked and, if it is for many, at most one
  step above it (`WithinSafeguards`); the write compares what it was checked with
  against the rows. The two instances are one with parameters,
  `Pricing(subscriptions, prices, most)`, so the proof is made once, for any set
  of customers, prices and number of calls, and used twice.

`ConsoleTypeCorrect` takes the types from these invariants. Where a bound is not
in one as it stands it is derived: a deferral lies within the periods because it
is for the first unpaid one (`CardTypesKnown`), the days of a ledger because they
are anniversaries no further ahead than may be registered (`OwnerTypes`), the
sandboxes because of the count above (`SessionTypes`). The types of the two
instances of `RedemptionsPage` are those `RedemptionsPageProofs` proves.

Of the safety properties of the pages' modules only `NoOldDataInANewWorld`
(`ClientSession`) is not proved: it does not hold, which is what
`sandbox_reset_keeps_old_data` shows.

### What the pages do not promise

These are consequences of the code that a reader may expect otherwise; the
properties are worded so as not to claim them.

* A refund refunds the amount stored by the time it is confirmed, which need not
  be the one the question showed.
* The settings form is saved whole: it reverts what another tab saved since.
* The dialogs of the goals page follow the current goal: what is confirmed may be
  about a goal created in another tab meanwhile.
* A late answer to a benefit closes the form that is open, also a newer one.
* The cool-down dialog acts on whoever is cooling down on the seat by then.
* What is submitted after a tab has switched sides and before its page is gone
  runs on the new side.

## Reading the proofs

Each proof module has one inductive invariant, a lemma per action and a theorem
per property. The assumptions are the named ones of the modules (TLC evaluates
them in the runs): bounds are positive, the value for "none" is none of the
others, finite sets where a minimum is taken. A least element is found with the
well-foundedness of the naturals (`WFMin`), never by induction. Out of the prover's reach, and left
to TLC: liveness, and what recursive definitions compute. No module uses
recursion.

## Not modelled

* **Bills, Plus rentals, calendar and dashboard pages.** Lists and forms over
  subscriptions and bills. What they write is in `BillingLedger`; their dialogs
  have the shape of `SubscriptionsPage` and `AfterSalesPage`. The bill form
  carries no version, so two tabs that edit one bill overwrite each other.
* **Notification senders.** SMTP and HTTP calls: the external channel of
  `BusinessEmailOutbox` and `DueNotifications`.
* **Abuse guard.** Sliding windows over addresses with a table of thousands; it
  does not meet the domain, and a small instance would not show its limits.
* **Cycle arithmetic.** Month ends and cron rules. The modules use equally spaced
  due dates.
* **Account naming, operations journal, operating expenses.** Labels, read models
  and simple records.
* **Sandbox copy.** A second database with demonstration data; switching to it is
  in `ClientSession`.
* **Within modelled parts:** profile columns and listing queries; resale rows and
  price benefits' amounts in the ledger; several extensions at once in
  `DueNotifications` (`CustomerCare` has them); the two command-line repairs;
  owner groups of more than one account on the accounts page (`SeatLifecycle` has
  pausing by owner); the ranking of candidates and forecasts on the goals page;
  texts, filters, sorting, paging and formatting everywhere, except where a
  property is about them.
