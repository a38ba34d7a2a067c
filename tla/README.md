# TxWatch in TLA+

PayPal TxWatch is a Laravel application that collects PayPal transactions, bank statement lines and pretix
orders, brings them together, and marks orders as paid in pretix when their money has arrived. This directory
models the parts of it that write, model-checks them with TLC, and proves what matters most with TLAPS.

## 1. The system

Processes that act on one database (PostgreSQL in `docker-compose.yml`), without transactions or locks around the code described here:

- the **scheduler** (`routes/console.php`): `paypal:schedule-sync` every minute, `pretix:schedule-import` every
  30 minutes, `enablebanking:sync` at minute 36 of every sixth hour, `bank:sync` daily;
- the **queue worker** (one in `docker-compose.yml`, redis, `retry_after` 1920 s): `SyncPaypalAccountJob`,
  `ImportPretixOrdersJob`;
- **web requests**: people pressing buttons in the Filament admin interface, the pretix webhook, the return from
  the bank's consent page;
- outside: pretix, PayPal, Enable Banking and the FinTS bank, reached over HTTP.

| component | state it keeps | operations | what is hard about it | module |
|---|---|---|---|---|
| Payment marking (`PaymentMarker`) | `pretix_payment_confirmations`; the order in pretix; the local copy | `mark()`: find order, refusals, pending payment, confirm, verify, record | two or three HTTP calls between a check and the row it looks for; lost answers; death after the booking | PaymentMarker, ConfirmationDesk |
| Bank journal (`JournalWriter`, `JournalPaymentReporter`) | `enable_banking_journal` | `record()`, `reexamine()`, `flagSecondCredit()`, `report()`, `closeEntry()` | pulls overlap; orders come after their money; people assign by hand meanwhile | Journal |
| Bank statements (`BankStatementImporter`, `BankReconciler`, `BankPretixReporter`) | `bank_transactions` | import, reconcile, propose, confirm, the buttons of the list | lists read at the start of a run and used to its end; results written after HTTP calls | BankDesk, LinkBook |
| pretix order import (`ImportPretixOrdersJob`, `PretixOrderImporter`) | `pretix_import_runs`, `import_running`, `last_successful_sync_at`, `pretix_orders` | guard, fetch by page, store, close; `failed()` | check-then-create guard; timeout, kill and redelivery; a mark taken after what it stands for was read | ImportJob |
| pretix booking (`PretixTransactionBooker`) and reconciliation | the rows of `transactions` that come from orders | `book()`, `bookRefunds()`; the reconciliation compares only | orders go back and forth between their statuses; a run books from a list it read once, and may end before it is through | Booking, ImportJob |
| pretix API client | - | three calls of `mark()`; read-only listings | I/O | in PaymentMarker, ImportJob |
| Enable Banking pull (`Sync`, `enablebanking:sync`, the callback and page of the settings) | the row of `enable_banking_connections`: status, session, account, last success, streak of failures | `sync()`, `syncSafely()`, `canPull()`, the command's guards, return from the bank, `disconnect()`, choice of the account | four unattended pulls a day; a pull that outlives the row it began from; entries that come late; a failure that may shut out the next try | EnableBankingPull |
| PayPal sync (`SyncService`, `CsvImportService`, `TransactionUpserter`) | `transactions` and their revisions, `sync_runs` | sync of a span by windows, split of a window, CSV import, upsert with supersede, manual assignment | look-up, supersede and create without a transaction; revisions in any order; windows that fail or split | PaypalSync, PaymentBook |
| PayPal schedule (`paypal:schedule-sync`, `SyncPaypalAccountJob`, `SyncService`) | `last_synced_at`, the queue, the scheduler's lock | due check, dispatch with a window, run, backfill, retry | the window reaches back from now and not from the last success; refusals and backfills count as syncs; a killed scheduler leaves its lock | PaypalSchedule |
| Two-factor PIN | hashed PIN, attempts, expiry | issue, attempt | access control, not the money this project is about | not modelled |
| Event assignment, settlements, exports, reports, audience analysis, error log, notifications, statement parsers, FinTS protocol, key handling | - | pure functions or I/O | nothing concurrent of their own | not modelled |

How they interact: the order import writes the local copy that `mark()`, the journal and the bank desk read; the
journal and the bank desk both call `mark()` (`JournalPaymentReporter.php:171`, `BankPretixReporter.php:166`), and
people call it through both; `mark()` is the only writer of confirmations and the only place that changes pretix.
An Enable Banking pull writes the journal and, in import mode, hands its kept entries to
`BankStatementImporter::importEntries()` (`Sync.php:129`). The order import books what it has stored, and `mark()`
touches the same local rows while it does (ImportJob's `MarkPaid`).

Every component with its sources and status, and every hazard with its line, is in `PROJECT.json`.

## 2. The modules

The modules follow one pattern: a worker has a record (`worker`, `proc`, `job`) with a `pc` and the locals the
handler carries, and a handler is cut into steps exactly where another process can get in between: before a
database read that matters, at each HTTP call, and between two writes. Amounts, purposes and dates are reduced to
relations given as constants (what fits, what a purpose yields), so that the control is the code's and the data are
only what the properties tell apart.

**PaymentMarker** - `PaymentMarker::mark()`. `Begin` is the entry with its two flags (`Armed`: a deviation may be
accepted by a person only); `FindOrder` is `findOrder()` with its narrowing by place; `CheckLocally` the refusals
in their order (amount, earlier confirmation, event, switch, status; `LocalRefusal`); `AskPending` the question for
the payment that waits; `Accepted`, `AnswerLost` and `Refused` the confirmation; `Verify` the question afterwards;
`Settle` reason and local copy; `Record` the row with its deduplication. `FetchOrder`/`StoreOrder` are the order
import, which may write an older page; `ChangeOrder`/`ChangePayment` are customers and staff in pretix; `Crash`
ends a call anywhere. `everPaid` is a history variable. `SerialSpec` is the same with one call at a time.

**ConfirmationDesk** - the abstract promise: an order is given at most one confirmation, and none is taken back.
`PaymentMarker!ImplementsDesk` is the refinement, with `given` mapped to the number of confirmed rows.

**Journal** - `JournalWriter` and `JournalPaymentReporter`. A pull takes the lines of its window one by one
(`TakeLine`: `firstOrCreate`, or the row as it is), re-examines a known row (`Reexamine` with `LeftAlone` for hand
assignments and unchanged pictures), marks second credits (`FlagSibling`, `FlagOwn` - two statements) and then
reports the open entries (`BeginReport`, `MarkPaid`, `Refuse`, `CloseEntry`). `Saved` is what Eloquent writes: the
columns that differ from the row *as it was read*. `Matches` is the recognition in its three stages.

**BankDesk** - `importEntries()`, `reconcile()`, `propose()`, `confirm()`, `confirmManually()` and the buttons.
`ListUnmatched` and `ReadClaimed` are the two reads a run works from; `MatchLine`, `ProposeLine`, `Ask` and
`WriteResult` are its loops; `Click` is Dismiss, Ignore and Unignore. `Revise` is a payout that gets a new revision
(a new row of `transactions`, the old one superseded).

**LinkBook** - the abstract promise of the bank desk: a line may be linked to a transaction that fits it, once, and then
neither is linked to anything else. `BankDesk!ImplementsLinks` maps the book's links to the rows that name a transaction.

**Booking** - what `PretixTransactionBooker` does with one order, as operators without state: a `Content` is what a
page of pretix says of an order (status, confirmed payments of each kind, total, refunds), `Money` is
`receivedMoney()`, `Rebooks` whether `book()` gets as far as the refunds, `Row` and `AddRefunds` the two writes,
`Counts` the filter of a settlement (`SettlementBuilder.php:73`).

**ImportJob** (extends Booking) - `ImportPretixOrdersJob`, the incremental fetch and the booking behind it. A job is a
slot that is idle, queued, running or lost; time is a clock in ticks, and a step without an HTTP call takes no time.
`pretix` is an order as pretix has it, `local` the row of `pretix_orders` with its `updated_at` in `touched`, `books`
its rows in `transactions`. `Take` is the guard on `pretix_import_runs`, `Start` the create of the row,
`Fetch`/`Store` one page, `List` the one query of the booker, `BookRow` and `BookRefunds` its two writes per order,
`Succeed` the new mark, `Close` and `Lower` the end; `Fail`, `TimeOut`, `Kill` and `Redeliver` the other ends.
`ChangeOrder` is pretix, `MarkPaid` what `mark()` leaves in both. A row of a run past its time is forgotten by
`Tick`, since the guard looks at it no more.

**EnableBankingPull** - the bank feed at its one connection. `Begin` is the command behind its guards (status,
consent, `TooSoon`) or a person who sees the button; `Fetch` and `FetchFails` are `Client::transactions()`, `Record`
and `RecordFails` everything `Sync` does with what came, `Succeed` and `Fail` what `sync()` and `syncSafely()` save -
over the row as it was read when the pull began (`Saved`), whatever stands there now. `Return`, `Opened` and
`NotOpened` are the return from the bank, before and after its HTTP call; `Disconnect` and `ChooseAccount` the page.
`EndSession` and `Book` are the bank, `Tick` is time. One entry stands for all: `entry` is one that no pull has
recorded yet, and its age. `used` counts the successful unattended pulls of the day and `streak` the failures in a
row; these three are history variables. `synced` is `last_synced_at` as the ticks since then.

**PaypalSync** - `SyncService::run()`, `CsvImportService::import()` and the `TransactionUpserter` both call. A
revision is a pair of payment and version, and stands for one `dedupe_key`: version 0 is the row of the CSV download
(its key is built from other fields), versions from 1 on are what the API reports. A process keeps the set of windows
it has still to ask for and takes the earliest (`Turn`); `FetchRecord`, `EndWindow`, `SplitWindow`, `GiveUp`,
`RefuseWindow`, `RefuseRun` are the answers of a search, `ReadLine` one line of a file. An upsert is `LookUp`,
`ReadPrior`, `Supersede`, `Create` - the four statements; `StatementFails` is the `catch` around them, which counts
whatever one of them throws and goes on with the next record. `Assign` is a person, `Report` PayPal, `Crash` the end of a
worker anywhere. `hand` and `cut` are history variables: what a person assigned, and which payments lost their current
row because the insert failed, or the process died, after the update (`Loses`); the assignment is lost with it, and
`hand` forgets it there. `clean` says that a run has counted no error. `run[s].owed` is fixed when a run begins: what PayPal
listed in its span then, or the lines of the file. Instants are integers; which payment a window lists, and that both
ends of a window belong to it, is an assumption about PayPal's search, as is that a page can hold a single record.

**PaymentBook** - what an upsert promises, in one step: a revision that is not older takes the place of the one shown and
takes over its event, an older one is only kept. `PaypalSync!ImplementsBook` is the refinement. A payment that is being
replaced counts as shown in its old revision until the insert, with the event the upsert carries; so the four
statements are three stutters and one `Store`, and a death or a failed insert after the update is a `Lose`.

**PaypalSchedule** - when a PayPal account is synced, what PaypalSync takes as given: there a sync begins at any time
with a span from a constant, here it has a clock and a span made at its dispatch, and what it does in it is one answer.
Everything is in minutes back from now: the mark `synced`, the jobs in the `queue` and the window of the `run`
(`end`; a window begins `Lookback` before it), the lock of a dead scheduler, the age of the one `entry`. `Fire` is the
command behind the lock of `withoutOverlapping()`, `Dispatch` its job - one more each minute while one waits or runs.
`Begin` and `BeginOther` are the worker's turn with a job of the schedule, or with a backfill or a job that is tried
again, whose windows are their own; `Fetch`, `Refuse` and `Die` its outcomes, `End` the mark that every answer leaves.
`Book` and `List` are PayPal, `Tick` is a minute. `clock`, `vain` and `deaths` are history variables: the pause since a
run was last through with a window, the runs in a row that did not bring the schedule's window, the deaths of
the scheduler in a row.

The journal and the bank desk take `mark()` as one step with its outcomes; what happens inside it is the subject of
PaymentMarker. `MC*` modules hold the small instances, `*_proofs` the theorems.

## 3. The runs

| run | question | instance | result |
|---|---|---|---|
| marker_serial | one call of `mark()` at a time: is an order confirmed once, as the abstract desk says, and do rows tell the truth? | two workers, two orders with one code, a late second payment, a credit a cent off that passes for exact and one too small, refunds, lost answers, deaths | holds |
| marker_twice | two calls that overlap: is an order confirmed once? | the pull and a person, one credit, two payments of equal amount | **violated** |
| journal_pair | are both entries of a pair marked, however the codes appear and move? | pulls in turns, three lines of which one leaves the window, two orders that arrive after their money | holds |
| journal_hand | a pull, a person, deaths: hand assignments stand, badge and model agree, what is shown as paid is paid, the journal catches up | a line that leaves the window and one that stays | holds |
| journal_norow | does every order marked paid have a row? | one purpose quoting two orders | **violated** |
| bank_desk | one run and people who click into it, deaths, revised payouts: are lines linked as in LinkBook, and do reports tell the truth? | two credits of one amount, a payout of two revisions, a booked transfer, one order | holds |
| import_job | jobs that overlap, time out, are killed and handed out again: when do they overlap, and does anything unfetched or unbooked get out of reach? | two jobs, one order that is open, paid, partly refunded or cancelled, a timeout of two ticks and a margin of two timeouts | holds |
| import_balance | does a refund count only together with its payment? | one job, an order that is paid and then open again with a refund | **violated** |
| paypal_sync | one sync or file at a time: are revisions kept in order, as if an upsert were one step, and does a success bring everything? | one process, three payments (one revised; one with an undated CSV row and a report that cannot be read; one with an unreadable CSV row only), two files, two spans, windows that split or are too large for it, statements that fail, deaths | holds |
| paypal_twice | two syncs at once: one current row per payment? | one payment, reported once or twice | **violated** |
| paypal_due | does the schedule lose a payment, or bring it late, over refused and killed runs, backfills and a dead scheduler? | one account, one late payment, two runs in a row for nothing, one death; the lookback is the least that makes up for them | holds |
| bank_feed | the schedule, the button and the settings page at one connection: is an entry missed, the quota spent, the streak wrong, the feed locked out for good? | one account, two sessions of which one has a deadline, a firing and a day of one tick, an overlap of two | holds |

Properties, and what they would catch:

- `OneConfirmationPerOrder`, `ImplementsDesk`: an order confirmed twice, or a confirmation that disappears.
- `ConfirmedIsBooked`, `VerifiedWasPaid`: a row that says more than pretix did. They are about the rows there are; a
  booking that left no row is not seen by them.
- `DeviationsAreSigned`: an amount more than a cent off that passes for an exact one, or that the automation accepts. A
  cent off does pass: see section 4.
- `DoublesAreMarked`, `HandAssignmentStands`, `BadgeAgrees`, `ShownPaidIsPaid`, `CatchesUp`: a second payment nobody is
  told of, a hand assignment lost to a pull, a badge that disagrees with the list, an entry that says "paid" with the
  status of another order, an entry that stays open for ever.
- `OneLinePerTransaction`, `ImplementsLinks`, `ReportedIsOnRecord`, `DismissedForGood`: a payout linked to two lines, a
  link that is changed or taken back by a later run, a line shown as reported that paid for nothing, a proposal that
  comes back after a person has dismissed it.
- `MissedIsInReach`, `UnbookedIsInReach`, `FlagHasAnOwner`, `OverlapsOnlyAtOnce`: an order the incremental fetch will never bring, one whose
  rows are out of date and that no later run looks at, a connection that shows "importing" for ever,
  a second import that begins while the first has time left.
- `BalanceNetsOut`: a settlement that subtracts a refund of a payment it does not count.
- `MissedIsInReach` of the bank feed, `QuotaIsKept`, `StreakIsTrue`, `NeverLockedOut`: an entry that came late or
  during an outage and no window reaches, a restarted schedule whose successes use up the day's accesses, a streak that
  tells the alarm the wrong length or cause, a failure that shuts out every later try.
- `MissedIsInReach` of the PayPal schedule, `ArrivesInTime`, `MissedArrives`: a payment that PayPal lists late, or during an outage, and
  no window of the schedule ever reaches; a lock or a mark that keeps the next sync from being dispatched.
- `OneCurrent`, `NewestIsCurrent`, `HandSurvives`, `ImplementsBook`: a payment that counts twice or not at all, one shown in an old
  state, an assignment a status update takes back. An insert that does not follow its update, because it failed or the
  process died, is excused in all four, and `SuccessHeals` says when the payment counts again; its assignment does not
  come back.
- `SuccessIsComplete`, `SuccessHeals`: a window nobody fetched in a run that ends as a success; a payment that stays
  without a current row although it has been fetched again.

Each property of a passing run has a mutant of the code (in `PROJECT.json`, defined next to the operator it
changes) that breaks it under the same configuration.

**Bounds.** Two workers are enough for every race here, because each check is against one other writer. A pair needs
two lines; journal_pair has three, so that an entry leaves a pair, or joins one that is marked, and two orders, so that it
can move. `MaxRecords` bounds the log of PaymentMarker to two rows, what a second confirmation needs; `MaxRevision` two
revisions of a payout; `MaxTime` of ImportJob five ticks, one more than the margin, and its
timeout two, since with one no run would have time left when the next looks at the guard; and `Moves` has no cycle, so that an order
changes three times at most. In EnableBankingPull `MaxAge` and `MaxStreak` saturate: no age and no streak above them is
told apart. An overlap of two ticks is the least with a bank that is a tick late and a pull that lasts one; the proofs
take any values. journal_hand has the line that leaves the window.

In PaypalSync three payments cover what a record can be (revised, undated, unreadable); two versions are an older
and a newer revision, the third revision is the CSV row; a window holds one. The first span
has a window for which the split is not enough; the second one's is split in two that hold one each, with a payment on
the instant they share. The windows are three units wide, a split two, so that the last window of each is cut off.

paypal_due has an interval of three minutes, jobs that wait up to two, runs of one, a payment that is listed after four,
two runs in a row that come to nothing and one death of the scheduler; `Lookback` is `JustEnough`, the least
`LookbackAssumption` allows (31). With three minutes less `MissedIsInReach` is violated.
The bound of `ArrivesInTime` is tight to two minutes in this instance: two less still hold, three less do not.

**Fairness** is assumed in three runs. In journal_hand the scheduler starts a pull again and again (strong fairness of
`BeginPull`, since a person at the journal may be in the way at any one time), a pull or request that runs goes on (weak
fairness of `Work`), and processes do not die for ever. `CatchesUp` is about lines the bank goes on delivering: for the
others the code promises nothing (`JournalWriter.php:124` needs the line). In bank_feed time passes and a pull that runs
goes on; the schedule fires, a session that is open is answered, what was fetched is recorded and the result written
again and again (strong fairness of these steps of the schedule, because people, deaths and failures come between).
`NeverLockedOut` excuses the feed when the session is gone, or when people connect anew for ever.

In paypal_due the scheduler, the worker, the end of a run, PayPal's listing and time have weak fairness: both services are
restarted (`restart: unless-stopped`), and a run is over within the time a job may take. Faults are bounded in a row, and
`Tick` waits for what takes no longer than it may.

**Deadlock** is checked in bank_feed and paypal_due, where time never stops. It is off elsewhere: a run that has no work left, with its
bounded counters used up, is a system at rest.

## 4. What the runs found

1. `PaymentMarker.php:84` says "ONE CONFIRMATION PER ORDER, EVER". The check (`:90`) and the row it looks for are
   separated by HTTP calls; two calls both pass it (marker_twice). With one call at a time it holds (marker_serial,
   and for all constants theorem `OneConfirmationWhenSerial`), and with calls that overlap where an order has one
   payment (`OneConfirmationWhenOnePayment`).
2. `PaymentMarker.php:17` says "EVERY ATTEMPT LEAVES A ROW". The deduplication at `:329` drops the row of a second
   order settled from the same money (journal_norow).
3. `PretixTransactionBooker.php:64` says "mirror the status so it stands out, and book its refunds so the balance nets
   out". An order that was paid and is open or expired again has its payment mirrored to P or D, which
   `SettlementBuilder.php:73` leaves out, while its refund is booked as S and counts (import_balance). The test at
   `tests/Feature/Pretix/PretixTransactionBookerTest.php:144` covers the cancelled order, whose V counts.
4. `TransactionUpserter.php:64` says "exactly ONE row per transaction_id is "current"". Two syncs that bring a
   payment for the first time at the same time (the schedule and a backfill by `paypal:sync --sync`, or the command
   and the worker) can leave it with none: the second one supersedes the row of the first and then fails on the
   unique `dedupe_key` (paypal_twice). Later fetches find the key and skip it, so nothing heals it. With one sync at
   a time no payment has two current rows, and one has none only where the insert did not follow the update
   (paypal_sync, theorem `OneCurrentWhenSerial`): after a death there, or after an insert that fails - a value the
   column does not take, an error of the database - and is caught and counted (`SyncService.php:144`,
   `CsvImportService.php:72`) while the run goes on. The next clean success of the same source makes it good
   (`SuccessHeals`).

Three more sentences of the repository are not what the code does. No run has them violated; the models do what the
code does, and the properties say so:

- *"auf den Cent".* `PaymentMarker.php:33`, `PretixPaymentConfirmation.php:126`, `BankTransactionResource.php:149`,
  `EnableBankingJournalResource.php:369` and `EventResource.php:62` say that an amount is confirmed, unless
  a person accepts the deviation, only if it is right to the cent. `TOLERANCE` is a whole cent and is compared with floats: 10.01 on an order of 10.00 passes, and the row says
  `exact_amount_and_code`. Which pairs pass is the constant `CentSlack`; `DeviationsAreSigned` therefore speaks of more
  than a cent, and theorem `ExactWithoutSlack` says that the sentence would hold without it.
- *"must survive the new revision"* (`TransactionUpserter.php:52`), of an event assigned by hand. It goes over from the current row. An
  insert that fails after the update leaves none, and the next revision starts without the assignment, with one sync at
  a time and nobody dead; a sync that met this ends as a success. `HandSurvives` counts the assignment as lost from there.
- *"the one state a retry cannot fix"* (`EnableBankingConnection.php:95`). "expired" is said to block until the account
  holder returns, and `EnableBankingRecoveryTest.php:64` tests that `canPull()` is false. The run that is refused writes
  "error" (`Sync.php:191`), and the next one asks the bank again, on a session whose deadline is ahead.

## 5. What is proved

For every value of the constants, under the named assumptions of each module:

- **PaymentMarker_proofs**: `TypeCorrect`, `ConfirmedIsBookedHolds`, `DeviationsAreSignedHolds` and
  `VerifiedWasPaidHolds` for any number of calls that overlap and die - for the deviations from the assumption that only
  amounts a cent apart can pass for equal, and `ExactWithoutSlack` without that slack; `OneConfirmationWhenSerial` for calls one at
  a time, and `DeskImplemented`, that they refine ConfirmationDesk: the row a call appends is the first confirmed one of
  its order (`Give`), and every other step leaves the counts alone. For calls that overlap, `PaymentConfirmedOnce` says
  what is left of the promise: no payment is on record as confirmed twice, as pretix confirms a pending payment to one
  call only (`OneHolder`). `OneConfirmationWhenOnePayment` follows: the race of marker_twice needs a second payment. The properties speak of the log only and are not inductive: the invariant adds what each call holds in
  its locals (`Inductive`): past the first check the evidence is a credit, past the question the payment belongs to
  the order, past the confirmation it is booked, and a verdict says what the row will say.
- **BankDesk_proofs**: `TypeCorrect` and `ReportedOnRecord` for any number of runs and people. `Stage` says what each stage
  knows: the line it will write is in the table, it was not reported when read, and a success not yet written is on record.
  `OneLineWhenSerial` and `DismissedWhenSerial` assume one run (`OneRun`), with any number of people beside it, and
  add `Claims` (the run knows every transaction any row holds) and `Offers` (no line it has still to offer is
  proposed or dismissed). Each step is shown to link or offer nothing (`LinksKept`, `ReportsKept`,
  `ClaimsCarried`, `OffersCarried`) but the two that do. `LinksImplemented` is the refinement of LinkBook under the same
  assumption: `MatchLine` is a `Link`, or nothing; every other step leaves the links alone.
- **ImportJob_proofs**: `TypeCorrect`, `NothingOutOfReach` and `FlagNeverSticks`, from the assumptions that a lost
  job is handed out no earlier than its timeout (1800 and 1920 s as deployed) and that the overlap of the fetch is
  twice the timeout (3600 s). The invariant (`Inductive`) says how old a page that is about to be written can be
  (`Clocks`, `Pages`), that whatever a run has not dealt with yet changed late enough for its successor
  (`Progress`), which row or job answers for each run (`Owners`). `NothingUnbooked` adds that an order a run has still to
  book is either as the run read it or was touched after it began (`Lists`), and that an order it is through with is
  booked or will be looked at again (`Booked`). `OverlapsAreRare` rests on `OnRecord`: from the row it writes until it
  closes it, a run that has time left is one the guard sees.
- **EnableBankingPull_proofs**: `TypeCorrect`, `NothingMissed` and `QuotaKept` for any number of accounts, sessions and
  ticks, with the two pulls at the same time; `StreakWhenSerial` for one pull at a time. `NothingMissed` rests on
  `OverlapAssumption`: the overlap is at least as long as the bank is late and a pull lasts. Its invariant (`Reach`) adds
  what each pull was told and is going to ask for: one that was told of nothing leaves an entry no older than the bank
  may be late. For the streak it is that no one but the pull
  at work writes its columns between its two ends (`Alone`, `Fresh`),
  for the quota that the successes of a day are no more than the slots it has had.
- **Journal_proofs**: `TypeCorrect` and `BadgeAgreesAlways` for any number of pulls and people who overlap and die: a
  save that mixes an old picture with a new row still leaves a method that fits the code (`AllPlain`), because what a
  process holds keeps the code of the row (`Held`). `HandOutranks` assumes `~Overlap` (`InTurns`: one process at a time,
  what it holds is what the table says). `ShownPaidHolds` assumes `~Overlap` and `NoReversal` - pretix takes no payment
  back - and follows "paid" from the orders a pull has loaded to the recognition, the row and the code `mark()` returned
  (`PaidBy`, `LastPaid`). `DoublesMarked` assumes `Undisturbed` - `~Overlap`, no crashes, no clerks, no
  line that fits two orders - and shows that a pair is marked or about to be by the one pull at work (`PairsMarked`,
  `Carries`). TLC finds a counterexample when any one of the four is dropped.
- **PaypalSync_proofs**: `TypeCorrect` and `SuccessIsCompleteAlways` for any number of syncs that overlap and die, any
  spans, window lengths, split steps and limits. The invariant (`Complete`) says of each revision a run owes that it,
  or a later one, is stored, in the hands of the upsert, in the rest of the file, or in a window still ahead -
  unless an error was counted - a statement that fails is one - or a window refused. It rests on `SplitCovers`: the windows of a split leave no gap.
  `OneCurrentWhenSerial`, `NewestWhenSerial` and `HandSurvivesWhenSerial` assume `~Overlap`; the invariant (`Revised`)
  adds what the one process at work knows between its statements (`Locals`, `Prior`: the prior revision is the newest
  stored, and carries the assignment) and that an assigned payment has a current row or one about to be written; a
  failed statement and a death end an upsert alike (`Stops`).
  `SuccessHealsWhenSerial` joins the two: revisions are stored in the order in which they are reported (`Listing`), so
  that what was cut off is missing altogether (`Missing`) or the payment is shown again (`Healing`), and what a run
  owes is no older than it (`OwedLater`, while it has counted no error); a run that has brought it all has therefore brought the payment's row.
  `BookImplemented` is the refinement of PaymentBook under `~Overlap`, with statements that fail and deaths: the statements
  leave the book alone but for the insert, which is a `Store`; a death or a failed insert after the update is a `Lose`.
- **PaypalSchedule_proofs**: `TypeCorrect` and `NothingLeftBehind`, from `LookbackAssumption`: the lookback is at least
  the delay of PayPal's listing, a `Cycle` for each run that may come to nothing, and the way to the next dispatch
  (the last run, the interval, a minute, and `Expiry` for each death of the scheduler). The invariant (`Inductive`) says
  how long the pause since the last window can be at each stage: while the mark is fresh (`Marks`), due but kept back by
  the lock (`Pause`, `Locks`), waiting (`Queued`), asking (`Window`); and that what is not stored is older than the delay
  only by the cycles that came to nothing and that pause (`Reach`). `ArrivesInTimeHolds` is the response time of the
  whole, from the same invariant. With the deployed numbers - interval 15, expiry 10,
  lookback 240 minutes, a listing after three hours, jobs that wait and last two minutes - the assumption holds with
  exactly one failed sync and one death of the scheduler.

Only model-checked: `CatchesUp`, `NeverLockedOut` and `MissedArrives`, because liveness under fairness is beyond the prover. `ImportAssumption` and `BankAssumption` are about the deployed configuration and are
evaluated in every run.

## 6. Known limits

Seen while reading, not covered by a property, and left for later modules or runs:

- a hand assignment can be overwritten by a pull that read the row before it (`JournalWriter.php:187`, `:210`);
  journal_hand therefore lets a person and the pull take turns;
- a pair stays unmarked when a pull dies between insert and mark (`JournalWriter.php:111`), when two pulls at once move
  three lines to one order, and when a line fits two orders and `closeEntry()` moves it back; journal_pair leaves these
  out, as `DoublesMarked` does;
- two reconciliations at once link one payout to two lines, since each reads the claimed transactions at its start
  (`BankReconciler.php:36`); bank_desk and `OneLineWhenSerial` are about one run. They can also report one line twice, and
  the later answer, a refusal, then stands over "reported" (`BankPretixReporter.php:178`);
- an entry whose line has left the window stays open (`EnableBankingJournalEntry.php:88`);
- a payout that is revised after it was linked is a new transaction, and may be linked to a second line;
- `propose()` overwrites the order a person named before a refusal (`BankPretixReporter.php:118`);
- two import jobs that both pass the guard may write an older page over a newer one; the next fetch heals it, which
  is what `MissedIsInReach` says;
- the interface raises `import_running` before it dispatches; the model's dispatch does not fail;
- with the `retry_after` of 90 s that `config/queue.php` gives the database queue, a job would be handed out while
  it runs; the assumption of ImportJob is that of the deployed redis queue.
- `book()` looks at orders that were touched since the last success only: switching `import_paypal_orders`
  or changing `bank_transfer_fee_cents` does not rebook the others, although the docblock says "unchanged
  orders are already booked correctly" (`PretixTransactionBooker.php:30`). The first is a
  constant here, the fee is left out;
- an order whose payments turn out to be PayPal's alone keeps its row on S, and its refunds are not booked; an
  order that is paid and cancelled between two imports is never booked; a payment that leaves `confirmed` after a refund
  is subtracted twice. The properties are about when an order is booked, and `BalanceNetsOut` about one status;
- `mark()` changes pretix and then the local row; `MarkPaid` is both in one step, what lies between is PaymentMarker's;
- the quota counts successful pulls: a pull that fails leaves `last_synced_at` alone, so that a schedule that restarts
  over a failing feed asks the bank at each start;
- the status "expired" that a dead session leaves becomes "error" with the next refused run, though nothing was connected
  (section 4); a pull that outlives `disconnect()` writes "active" or "error" over it; a return from the bank that outlives
  `disconnect()` leaves an open session with the status "new"; the streak's columns mix when two pulls overlap;
- connecting another account keeps `last_synced_at`, so that the first pull of it goes back no further than the overlap;
  a list that was cut off moves the mark as well and says so in a notice. `Released` gives such entries up;
- a sync that outlives the worker's time limit, or loses its connection, leaves its run on "running"
  (`SyncService.php:77` catches PayPal's answers only); the next one begins from its own window;
- a death or a failed insert after the update of an upsert loses the manual assignment with the row
  (`TransactionUpserter.php:78`, section 4), and an event assigned while an upsert of the payment is under way can be lost with
  the superseded row; `HandSurvives` counts neither;
- after a death or a failed insert in the middle of a CSV line only the same file brings the payment its current row back: the API's
  revision is stored already and is skipped. `SuccessHeals` is about the same source;
- a CSV line without a readable date always counts as newer (`TransactionUpserter.php:70`), and
  `marked_irrelevant_at` is not carried over to a new revision;
- a window that is too large after the last split is counted as an error, and the run still ends as a success
  (`SyncService.php:114`); a span that is the wrong way round succeeds with nothing;
- the schedule's window reaches back from now (`PaypalScheduleSyncCommand.php:33`), and with the default lookback of four
  hours `LookbackAssumption` has room for one failed sync: an interval of 60 minutes even without a failure, or an outage
  of more than the hour between lookback and delay, can lose a payment that is listed three hours late. The warning on the
  dashboard comes after two hours without a success (`PaypalAccount.php:104`), and a backfill's success counts for it;
- a backfill, a job that is tried again and a refused run set `last_synced_at` like a sync of the schedule, and put the
  next one off by an interval; while a job waits or runs, the schedule adds another one each minute;
- the message of a rate limit says the sync will be tried again by itself (`PayPalClient.php:158`): `SyncService`
  takes the answer as a partial run and the job as done, so that only the schedule's next window does so - a
  backfill is not tried again.
- JournalWriter.php:391 says "BOTH ENTRIES GET MARKED": `closeEntry()` (`JournalPaymentReporter.php:153`) puts an entry on
  an order by hand without looking for another credit, and leaves both unmarked. `DoublesAreMarked` and `DoublesMarked`
  are about pulls one at a time, nobody at the button, nobody who dies, and no line that fits two orders.

**Not modelled.** Wording, logging, mail, layout, formats of statements and API fields, signing and keys, statistics
and exports; two-factor authentication (access control); the event assignment and the reconciler of the orders, which
write one column from what they read or only compare; the state token of the bank's redirect, the bank's name and key,
`last_error`; the transfer fee and the columns of a booked row that only describe it. The program is PHP, and every
modelled line is under `app/`, `routes/`, `config/` or `database/`. The JavaScript of the repository is Filament's
published and minified build (`public/js/filament`), the build's configuration (`vite.config.js`) and an empty
entry (`resources/js`): there is no behaviour of this program in it to model.

## 7. Plan

1. The event assignment and its rules, once they run in more places than at the end of an import.
2. Two accounts that share the one worker in PaypalSchedule, so that `Waiting` follows from the runs of the other.

Each new module comes with one passing run.
