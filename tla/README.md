# Verification of console-back

TLA+ specifications of the NestJS backend in `src/`, the TLC instances that check
them, and theorems about them that TLAPS proves. Every definition is written from
the source; `PROJECT.json` maps each one to the lines it stands for.

    tlc -workers 2 -config RecurringTransactions.cfg MCRecurringTransactions
    tlapm RecurringTransactionsProofs.tla

## 1. The system

The same code base runs as three kinds of process (`src/ecosystem.config.js`):
the **API** (`main.ts`, several cluster instances), a **worker** (`worker.main.ts`,
Bull queue) and a **scheduler** (`scheduler.main.ts`, cron jobs). They share a
MongoDB database and a Redis server and nothing else. There are no database
transactions, no locks and no optimistic versions: every handler is "load a
document, await, change it in memory, save the changed paths", and any other
handler of any process may run at each `await`. That is where the hard behaviour
of this system is, and what the specifications are about.

| Component | State | Operations that change it | What makes it correct |
|---|---|---|---|
| **Recurring transactions** (`finance/services/finance-recurring-transactions.service.ts`) | one document per series: frequency, interval, start, end, nextRunDate, lastRunDate, runCount, isActive, deletedAt | create, update, remove, bulk delete, pause, resume, skip next, edit future, generate | each date generated once; the document agrees with the transactions; a stop is final; missed dates are made up |
| **Scheduler** (`scheduler/services/`) | six cron triggers per process, list of due documents | daily generation, session cleanup, queue monitoring, token cleanup, database maintenance | each trigger does its work once, a failed item does not stop the others |
| **Cron job tracker** (`admin/services/cron-job-tracker.service.ts`) | per job: history (100 entries), success and failure counters | record an execution | bounded history consistent with the counters |
| **Filter presets** | presets with `isDefault` | create, update, remove, restore, bulk delete, set default | one default per user |
| **Financial goals** | amounts, achieved, milestones | create, update, add and subtract amounts, milestones | achieved and milestones agree with the amount; no contribution lost |
| **Transactions, templates, receipts, OCR** | transactions, usage counts, receipt data | CRUD, use a template, attach and read a receipt | counts agree with uses; receipt data belongs to the receipt |
| **Import** | import history, imported transactions | upload, preview, import | an import ends completed or failed |
| **Budgets** | budgets and periods | CRUD, rollover | what is left goes into the next period |
| **Categories** | ordered lists | CRUD, reorder | order values distinct |
| **Portfolio, settings, preferences** | many collections of the same kind, or one document a user | CRUD, publish, upsert | dates in order, slugs and first documents unique |
| **Accounts, users, auth, sessions** | account and user documents, sessions, tokens | register, verify, log in, refresh, reset, deactivate, delete | user and account exist together; a token is used once; a deletion is complete |
| **E-mail and its queue** (`queue/queues/email`) | Bull jobs: waiting, active, delayed, failed | enqueue, process, retry, stall | each mail handed over at least once or reported failed |
| **Rate limiting** (`common/storage/throttler-redis.storage.ts`) | counters in Redis or memory | increment | limited hits in a window; a block lasts |
| **WebSocket gateways** | sockets, presence, typing, rooms, history, events per user | connect, disconnect, message, join, type | who is shown online is connected |
| **Analytics, search, exchange rates, upload, metrics, queue board, Redis wrapper, bootstrap** | none of their own | read | nothing in them depends on order or on another actor |

How they interact: controllers call services; the scheduler calls the services of
other modules (recurring transactions, sessions, accounts); producers put jobs into
Bull and the worker takes them; the goals, presets and recurring services share
`softDeletePlugin` and `bulkSoftDelete`.

The behaviours a test would hardly reach (there are two smoke tests in the
repository) are listed with their lines under `hazards` in `PROJECT.json`: two
handlers on one document, a list or a flag that is stale when it is used, one save
of two that fails, a failed or missed cron run, a loop that moves by calendar
months, a counter read and written back in two Redis calls, mails sent again after a
timeout.

## 2. Plan

In this order, the most important behaviour first. All of it is written, and every
safety property that the runs find to hold is proved.

1. `RecurrenceCalendar`, `RecurringTransactions`, `RecurrenceDates`: the series and
   their dates. Proved: `RecurringTransactionsProofs`.
2. `FilterPresets`. Proved: `FilterPresetsProofs`.
3. `FinancialGoals`: contributions, achieved, milestones. Proved: `FinancialGoalsProofs`.
4. `MailDelivery` (abstract) and `EmailQueue` (Bull's states, attempts, back-off,
   stalled jobs, crashes). The refinement and the safety part proved:
   `InfrastructureProofs`.
5. `Accounts`: users, accounts, sessions, tokens. Proved: `AccountsProofs`.
6. `Transactions`: transactions with their receipts, templates, mapping and imports.
   Proved: `TransactionsProofs`.
7. `Budgets`: rollover and listings. Proved: `BudgetsProofs`.
8. `Documents`: the portfolio's collections, categories, preferences. Proved:
   `DocumentsProofs`.
9. `RequestThrottle` and `ChatGateway`: what an API process keeps in memory, composed
   in `MCApiProcess`. Proved: `InfrastructureProofs`.

## 3. The modules

What a request's body holds. `main.ts` calls `app.init()`, which registers the routes,
before `useGlobalPipes` (83, 181), so that no body meets the `ValidationPipe`: services get
the plain JSON. A field that a client leaves out is absent, and `Object.assign(doc, body)`
keeps the document's own; all modules model updates that way. The models assume of clients
what the DTOs say of the types: a field is left out or has a value of its type, and it is
null where the service treats null as "none". Nothing in the code sees to that but the
schemas' own rules on `save`; what the services check themselves is in the models.

### RecurrenceCalendar

`CalculateNextRunDate` is `calculateNextRunDate` (lines 39-68). A date is a number of
*half days* since 1 January 2000: even numbers are midnights, odd ones every later time
of the day. Two values suffice because the code compares dates with midnight
(`setHours(0,0,0,0)` in the cron), with the end of the day (`findDue...`) and with each
other. `AddMonths` is JavaScript's `setMonth`: the day of the month is kept, and a
month that is too short overflows into the next. The server is taken to run in UTC, so
that a day has one length.

### RecurringTransactions

| TLA+ | code |
|---|---|
| `stored`, `docs` | the collection; soft-deleted documents stay in it |
| `job[a]` | a request handler or a cron process between two awaits: which operation, which document, the document as loaded (`loaded`), the in-memory copy (`mine`), and the loop's `currentDate` and limit |
| `armed`, `due` | the 1 AM trigger still to come, and the rest of the list it loads |
| `Create`, `BulkDelete` | one write, so one step |
| `Pause`, `Resume`, `SkipNext`, `Remove`, `Update`, `EditFuture`, `ManualGenerate` | load and check, up to the await of the save |
| `Save`, `EndCurrent`, `CreateSuccessor`, `SaveGenerated` | the saves; `editFuture` has two |
| `SkipBeforeStart`, `InsertTransaction` | one turn of the loop of `generateTransactions`; each transaction is saved on its own |
| `CronFires`, `CronTakes` | `handleRecurringTransactionGeneration`: read the due list, then one item after the other |
| `Fail`, `Crash` | a write that throws or a request's process dying; a cron's process dying |
| `Tick` | half a day |

`SaveModified` is mongoose's `save`: it writes the paths that differ from the loaded
ones. It decides many interleavings: a generation that loaded an active series does
not write `isActive` unless it ended the series, so a pause survives it.

Left out: templates, categories, amounts and ownership (no property tells them apart;
all series belong to one user and one user's requests never reach another's), reads,
validation messages. `bulkSoftDelete` finds the ids that the user owns and updates
them in a second call; both are one step, since ownership never changes and
`updateMany` sets the same value whatever happened in between. Intervals are positive
integers, as the schema's `min: 1` has it for every number; it lets `null` pass, which is
listed under `hazards`.

History variables, read by no action: `posted`, `reposted` (dates with one and with
more than one transaction), `made` (their number) and `causes`, which says what
disturbed a series: **overlap** - a handler that writes nextRunDate started while
another one was between its load and its save; **unsavedRun** - a generation ended
after a transaction and before its save; **rewind** - an update saved a nextRunDate
that lies not after the series' last run. They let the safety properties say exactly
when the ledger is right: `causes[s] = {}` is a condition on the history of the users
and the failures, never on the outcome.

### RecurrenceDates

The run dates of one series that nobody edits, next to the same dates kept as year,
month and day and moved one day or one month at a time (`CivilNext`), the reference
definition for the closed forms of `RecurrenceCalendar`.

### FilterPresets

One user's presets. Setting a default (`SetDefault`, `Update`, `CreateDefault`) is a
load, an `updateMany` that unsets the others (`ClearOthers`; it is not a query the
soft-delete plugin filters, so deleted presets are unset too) and a save (`Save`,
`InsertDefault`). As in the core module the save writes changed paths only: a handler
that read its preset as the default already saves nothing, whatever happened since.

`UpdatedBy` and `Assigned` model `Object.assign(filterPreset, body)`: an update asks to
make its preset the default, or no longer the default, or leaves `isDefault` out, and then
keeps and does not write it. `updateMany` is one step, though MongoDB updates one document
after the other. `restore` is an operation of the service that no route calls yet.

History variables: `wanted`, the default by the last request answered, and `causes`:
**twoSetters** - two requests that set a default ran together; **stale** - one that
sets ran together with one that unsets or deletes; **halfway** - a request that sets
ended between its two writes.

### FinancialGoals

One goal. A contribution is four awaits (`Start`, `Save`, `Check`, `Mark`): load, save
the sum, load again, save the milestones the sum has reached. `Saved` is mongoose's save
in more detail than above, because a goal holds an array: a changed milestone is written
by its position and guarded with the document's version (`Stale`, `Conflict`), and a
replaced array is guarded and raises the version. An update keeps what it leaves out: it
may bring an amount (kind `set`) or none (`keep`), a target or none, and it replaces the
milestones (`whole`) or leaves them alone.
`balance` is the sum as it would be if each contribution had seen the one before;
`causes` holds **overlap** (two requests held the sum, or one the sum and another a target
or an `achieved` computed from it: `Holds`), **bornFull** (created with its target reached)
and **failed**, which the next look at the milestones takes back.

### MailDelivery and EmailQueue

`MailDelivery` is what the queue promises, seen from outside: an accepted mail is pending
until it is confirmed, which needs a copy taken by the server, or given up; a mail that
was given up may be tried again; the server may take more than one copy, and late.

| TLA+ (`EmailQueue`) | code |
|---|---|
| `Ask`, `SetPreference` | `EmailService`: optional mail is dropped when the user does not want it |
| `AddEmailJob` | the producer; Redis answers or the caller gets an error |
| `Take`, `HandOver`, `Complete`, `AttemptFails` | Bull takes a job, `handleSendEmail` calls `sendMail`, which resolves or rejects |
| `Timeout`, `OrphanEnds` | the job's `timeout` fails the attempt, while nothing stops the sending |
| `LockExpires`, `MoveStalled` | a job whose worker died or was too busy goes to another worker, `maxStalledCount` times |
| `Promote`, `RetryJob`, `CleanJobs` | back-off, an administrator's retry, removal of finished jobs |
| `Crash`, `Restart` | a process dies and is started again |

Bull is not under `src/`; it is modelled from the options `queue.config.ts` gives it and
from what the processor and the admin controller rely on, and those definitions are
marked external. `doubts` is a history of the attempts whose outcome the queue could not
know: an answer lost, a timeout, a worker that died after sending, a lock lost.

### Accounts

Users, accounts, sessions and tokens, each request split at its database calls:
registration (`CheckEmail`, `CheckName`, `CreateUser`, `CreateAccount`,
`CreateVerification`), login (`CheckPassword`, `CheckActive`, `CreateSession`), reset and
change of a password, verification, the requests of a user with a token, and deletion,
which is a sequence over collections without a transaction (`VerifyDeletionToken`,
`DeletePortfolio`, `ListSessions`, `DeleteSession`, `DeleteAccount`, `DeleteUser`). A
password or a token is named by the request that made it. `Admitted` is what the two JWT
strategies look up for each request. `Expire` lets a token's time run out at any moment
and `CleanupExpiredDeletionTokens` is the nightly job. Hashes, signatures and mails are
left out. `past[q]` is the set of requests that were over when `q` arrived: two requests
overlap if neither is in the other's `past`. The properties here and in the next modules
use it to say which other request, at work at the same time, explains an anomaly.

### Transactions

Transactions, templates, categories, receipts with what OCR read, the mapping from a
merchant to a category, and imports. A handler is `Load`, a look at a category
(`ValidateCategory`), `Save`; a save writes the fields that changed. `Suggest` stands for
OCR and the suggestion of a category; `Learn`, `InsertMapping` and `Override` for
`updateMerchantMapping` and the client's choice in `applyOcrData`. Imports go row by row
(`SaveRow`, `FailRow`), and are closed (`CloseImport`) or end in the catch
(`CatchImport`). An update of a transaction or a template may leave out type or category
(`keeps`); `NextStep` and `Checks` say which of the two services then looks at the category:
a transaction's is checked when its type changes, a template's only when the update brings
one. The amounts, currencies and texts of all these are left out. The kinds
of requests that meet in one behaviour are a constant, `Mixes`.

### Budgets

Budgets, the spending per half month, and the requests. A rollover loads the budget twice
and reads the clock twice (`FindForRollover`, `Reload`, `Sum`, `RollOver`); listings
load each budget again (`List`, `StatsOf`). Amounts count transactions. `Updates` are the
documents an update may make of the one it loads: what it leaves out stays, a start is
compared with the end it brings or with the stored one, and an end alone with nothing.

### Documents

Fourteen collections with the same operations, of which one is looked at in a behaviour:
they never meet. `Collections` says for each which operations its service has, which of
them a route reaches - `Routed` is Nest's rule that the first route that fits answers,
by which `PATCH reorder` is an update - and what it keeps: dates in order, a slug, an
order, one document a user. Slugs are searched one after the other (`CheckSlug`), orders
with one search (`FindOrder`), and unique indexes (`Unique`) see deleted documents.

### RequestThrottle and ChatGateway, composed in MCApiProcess

`RequestThrottle` is `increment` for one key: `Get` and `SetEx` are two calls to Redis,
`Fallback` and `CountHere` use the record of the process, whose timer (`TimerFires`)
deletes whatever record is there when it fires. Redis fails and returns, the process
restarts. A call waits for Redis at most `MaxDelay`, less than a window, since the client
gives up after ten attempts to reconnect.

`ChatGateway` is the chat: connections, guards and events of each socket. Tokens are
verified without I/O, so that no event comes between a guard and its handler, and each
is one step. Presence is kept by user and written by socket. `leftSince[s]` marks that
another socket of the user closed since `s` opened.

Both live in an API process and share no variable, so the instance explores each with
the other where it starts; a restart stops both, and is in both.

## 4. Properties and runs

| Run | Checks | Shows |
|---|---|---|
| `recurring` | `TypeOK`, `AtMostOnce`, `LedgerMatches`, `StoppedStaysStopped` | every interleaving of the handlers on two series |
| `recurring_live` | `CatchesUp` | a missing occurrence is made up after failures and missed runs |
| `recurring_cluster` | `NeverTwice` fails | cron in two processes: duplicates without any failure |
| `dates` | `CalendarIsCivil`, `OneMonthLateAtMost` | seven years of dates against the civil calendar |
| `presets` | `TypeOK`, `OneDefault`, `AnswerStands` | the default preset under two requests at a time |
| `goals` | `TypeOK`, `NothingLost`, `AchievedAgrees`, `MilestonesCaughtUp`, `ReachedStaysReached` | contributions, updates, failures and version conflicts on one goal |
| `mail` | `TypeOK`, `CopiesExplained`, `OneSender`, `GivenUpLate`, `KeepsPromise`, `EveryMailSettles` | the queue refines `MailDelivery`, and every queued mail settles |
| `accounts` | `TypeOK`, `LastPasswordStands`, `TokenUsedOnce`, `NoStrayUsers`, `DeletionComplete`, `InactiveStays` | three requests of any kind on users, sessions and tokens |
| `transactions` | `TypeOK`, `CategoryFits`, `UsesCounted`, `ImportAccounted`, `DiscardStands`, `DeletedUntouched`, `RemovedMappingStays` | transactions with what surrounds them |
| `budgets` | `RolledNext`, `RefusedByDeletion` | rollovers across the end of a month, listings during deletions |
| `documents` | `DatesInOrder`, `ClashesExplained` | the collections under three requests |
| `api_process` | `ThrottleHolds`, `PresenceExplained` | the limit, blocks and presence |

- `AtMostOnce`: a date gets a second transaction only if the series was disturbed in
  one of the three ways. This is the strongest form that is true: each of the three
  does lead to duplicates.
- `LedgerMatches`: a document at rest of an undisturbed series has counted exactly its
  transactions, none later than `lastRunDate`, all before `nextRunDate`.
- `StoppedStaysStopped`: a pause, an end or a deletion is not lost to a handler that
  loaded the document before it.
- `CatchesUp`: an active series with an occurrence of this morning or earlier missing
  is generated, stopped or ended.
- `OneDefault`: a second default, visible or deleted, needs two setters at the same
  time; no failure, deletion or restore leads to one.
- `AnswerStands`: barring the three causes, the visible default is the preset asked for
  last, or none if it was unset. Each cause does upset it.
- `NothingLost`, `AchievedAgrees`: unless two requests held the sum at once, the saved
  amount is the balance, and `achieved` says whether it reaches the target.
  `MilestonesCaughtUp`: when nobody is at work, no milestone that is reached is left
  open - conflicts included, because the other request's check comes later. A request that
  fails half-way leaves some open, but not beyond the next request that looks at them.
  `ReachedStaysReached`: only an update that brings milestones takes a reached one back.
- `CopiesExplained`: a recipient gets one copy and one more per doubt at most.
  `OneSender`: two workers have one mail only after a doubt. `GivenUpLate`: a failed mail
  had all its attempts or stalled. `KeepsPromise`: `MailDelivery!Spec`.
  `EveryMailSettles`: what waits is completed, failed or removed some day.
- `LastPasswordStands`: no request's save brings back a password that was replaced
  before the request came. `TokenUsedOnce`: a reset token sets a second password only
  for requests that overlap. `NoStrayUsers`: a user without account is what a failure, a
  deletion at work or a race for one e-mail leaves. `DeletionComplete`: after a deletion
  only a login or an insertion that overlapped it has left something. `InactiveStays`:
  only a reactivation admitted before the deactivation brings a user back.
- `CategoryFits`: category and type agree but for imports, overrides and overlapping
  updates of one document. A template whose type was updated alone (`TypeAlone`) may be left
  with a category of the other type, which gets into no transaction: using the template
  checks it again. `UsesCounted`, `ImportAccounted`: counts tell what was
  inserted. `DiscardStands`: OCR data comes back only from an extraction that was not
  over. `DeletedUntouched`: only a request that overlaps the deletion writes into a
  deleted transaction. `RemovedMappingStays`: a removed mapping blocks its name for good,
  whoever inserts. It is what the code does and not what its documents want (section 6).
- `RolledNext`: what is left is carried into the next period, and is at most the budget,
  unless a period ended or the budget was updated while the rollover ran.
  `RefusedByDeletion`: a listing is refused only if a listed budget was deleted meanwhile.
- `DatesInOrder`, `ClashesExplained`: dates out of order, duplicate keys and equal orders
  come from a request decided on what another has changed since, a client's own order, or
  a deleted post that holds the slug.
- `ThrottleHolds`: at most two windows' quota passes in the length of a window, less what a
  request may wait for Redis, and nobody passes before the end of the block that was
  announced, unless a record changed between its two calls, a call failed, a timer deleted
  a block (`BlockHolds` only) or the process restarted.
- `PresenceExplained`: whoever is shown online or typing has a socket open, and whoever
  has one is shown online unless another socket of theirs closed since.

Bounds. `recurring`: two series (one may be the successor of the other), one cron, two
requests at the same time, three requests in all, one failure, two days (five half
days, so two runs of the cron), dates of the users at noon of the first day, so that an
occurrence is missed by the first run and met by the second. Three requests are enough
for create, then two that overlap, with the cron as a third actor; 775 000 states.
`recurring_live` exchanges one request for a second failure and adds an end date on
the last day: a run may fail twice and the series ends or is caught up.
`recurring_cluster` has two crons and neither failures nor a second request. The date
runs start from every kind of awkward day (ends of months, 29 February, the last day
of the year) with intervals 1, 2 and 5. The presets need three documents
(one that is the default, two that become it), two requests at a time and six in all:
create two, set, delete or unset, restore, set again.

`goals`: two requests at a time and four in all (create, two that overlap, one after
them), targets of 1 and 2, so that an update moves the target across the amount, a milestone
at 1, amounts up to 2, one failure; 2.6 million states.
`mail`: one mail (mails share nothing but the workers), two workers, three attempts
instead of the code's five (the first, one in the middle, the last), one stall, two crashes,
one lost lock, one manual retry. `accounts`: an owner who has a session and pending
tokens, two names and two e-mails, so that registrations clash with the owner and with
each other, three requests - two that overlap and one before, after or across them - and one failure. `transactions`: one
transaction with a receipt, one template, a category of each type, two copies or rows per
request, and ten mixes of the kinds that touch the same documents, three requests or
two. `budgets`: two requests and four half months, so that a month ends within a
rollover. `documents`: two users, a stored document, three requests, two attempts at a
slug. `api_process`: four requests with a limit of 2 and a window of 2 in four time units, so
that a block begins, outlives its record and ends; two users, one with two tabs.

Users' requests, series and presets are interchangeable, and symmetry is used in the
runs without liveness. Where requests or time are used up (`CHECK_DEADLOCK FALSE`) the
system may stop because users may send no more; the recurring and mail runs never stop.

Fairness. `recurring_live`: weak fairness of the clock, of each cron's trigger and list,
and of the next await of a handler that has started - an event loop runs what is ready,
`@nestjs/schedule` fires every day, and every await of a database call returns or
throws. Requests and failures get none, and both are bounded. `Tick` waits for the
cron to be done: a run takes less than half a day. After the last day (`Horizon`) time
stands still and the cron fires again each time, which stands for the later days.
`mail`: weak fairness of the producer's call, of Bull's timers (stalled check, promotion of
delayed jobs, expiry of a lock nobody renews), of an answer or an error for an attempt
that runs (the job's `timeout` and the SMTP connection's own see to it) and of the restart
of a process (pm2); strong fairness of taking a waiting job, since a worker is free again
and again. Nobody has to ask, to fail, to die or to retry by hand.

## 5. Proofs

`RecurringTransactionsProofs` proves three results about dates, for every frequency,
positive interval and start:

- `NextRunDateLater`: the next run date is a date and lies after the one it is computed
  from. The argument is that month starts grow by 28 to 31 days (`MonthStart`), so the
  month of a day exists, and that adding months moves the first of the month by at least
  as much as the day within the month keeps. It is also why the generation loop ends.
- `DatesAreCivil`: `DatesSpec => []CalendarIsCivil`. A day or a month further in the
  closed forms is a day or a month further in the civil calendar, since the month of a day
  is unique and its length is the civil one (leap years included). Many days or months
  further need the recursive definitions of the reference: were there a number for which
  they differ, there would be a least one, which the single step excludes.
- `LateByOneMonth`: `DatesSpec => []OneMonthLateAtMost`. The property is not inductive: a
  late date could be late again. `DatesInv` adds that a date a month late lies on one of
  the first three days of its month, which no month is too short for.

About the series it proves, for every set of series, crons and requests,
every schedule and every bound, from the assumptions on the constants in
`RecurringTransactions` (actors disjoint, at least one series, frequencies, positive
intervals, dates in `Nat`):

- `Typing`: `Spec => []TypeOK`.
- `NoDateTwice`: `Spec => []AtMostOnce`.
- `LedgerAgrees`: `Spec => []LedgerMatches`.
- `StopIsFinal`: `Spec => StoppedStaysStopped`, from the invariant `RestrainedJobs`:
  what a handler read was not deleted, and only resume and update hold a document that
  is more active than the one they read.

Neither `AtMostOnce` nor `LedgerMatches` is inductive: between a transaction and the save of its series
the document is behind, and what is true then is a statement about the job that will
save it. `IInv` adds it:

- `JobsInv`: a job works on a stored series, and what it holds is what it loaded, but
  for the fields its operation changes; only a generation has inserted anything.
- `SeriesInv(s)`, for an undisturbed series (`causes[s] = {}`): at most one job moves
  it (`OneMover`), that job's `loaded` agrees with the document on everything about
  runs (`FreshMover`), and the ledger is accounted for by the document, or by the
  job's copy and cursor once it has inserted (`LedgerInDocs`, `LedgerInJob`); dates
  beyond the accounted ones have no transaction, so the next insertion is a new one.

Most actions do not move a series: `CalmStep` settles them once. The others start a
mover (`StartInv`: no other may be there, or `causes` gets its mark), go on with it
(`GenerateInv`), or end it (`SaveInv`, `AbandonInv`).

`FilterPresetsProofs` proves, for every set of presets and requests, from `None` not
being a preset, `PresetTyping` (`Spec => []TypeOK`), `DefaultAlone`
(`Spec => []OneDefault`) and `AnswersStand` (`Spec => []AnswerStands`). The strengthening
for the second, `Alone`: unless two setters met there is at most one setter, and once it
has unset the others, no preset but its own is the default; other saves never make a
default (`Fit`). The third needs more (`StandsInv`): between the two writes of a setter
there is no default, or the old one, and the property says nothing of it; what holds then
is that nobody who unsets or deletes is at work beside a setter, that the default is the
one answered last until the setter has unset it (`Answered`), and that what each request
has read is still so as far as its writes depend on it (`Current`).

`InfrastructureProofs` proves about the queue, for every set of mails and workers and every
number of attempts, stalls, crashes, lost locks and retries, from the assumptions that
`None` is no mail and no worker and that the bounds are natural numbers:

- `QueueTyping`: `Spec => []TypeOK`.
- `OneSenderHolds`: `Spec => []OneSender`. `GivenUpLateHolds`: `Spec => []GivenUpLate`.
- `QueueKeepsPromise`: `Spec => KeepsPromise`, the refinement of `MailDelivery`: each step
  changes the outcome of one mail as one of its actions does, hands a copy over, or
  stutters (`OneMoves`, `CopyRefines`, `NoneMoves`).

The inductive invariant `QueueInv` adds three parts. `Settled`: only active jobs are
locked, what a worker or an orphan sends was queued, and a worker that has sent counts in
`copies` - without it a completion might confirm a mail nobody took. `Watched`: a worker
without the lock of its job has raised a doubt, so that a second one needs a doubt.
`Alone`: until a job stalls, one worker at most has it, it is active, and that worker
knows its attempts - without it `moveToFailed`, which counts from the attempts as they
were when the job was taken, might fail a job early. The three ways in which an attempt
ends share one lemma (`Ending`).

- `CopiesAreExplained`: `Spec => []CopiesExplained`. Copies are compared with doubts, and
  an attempt raises its doubt before, with or after its copy. `Accounts` keeps the books
  for each mail: copies, sendings that go on without their job, and workers that are
  sending, are together at most the doubts plus one, and not even that one while the mail
  is held by nobody and not done.

`FinancialGoalsProofs` proves `GoalTypes`, `NothingIsLost` (`NothingLost`),
`AchievedIsRight` (`AchievedAgrees`), `MilestonesCatchUp` (`MilestonesCaughtUp`) and the
action property `ReachedStays` (`ReachedStaysReached`), for every set of requests and of
milestones, every target and bound; amounts, targets and marks are natural numbers. What
makes them inductive (`GoalInv`): what a request awaiting a save holds follows from what it
loaded (`JobsInv`: `Derived` for the sum, `Marking` for the milestones); unless two held
the sum, there is at most one that does and it loaded the goal as it is (`SumInv`); there are
no milestones before there is a goal (`FreshInv`). `CaughtInv` is the reason why milestones
catch up: every open milestone that the amount has reached is covered by a request that will
look at it, or that marks it and is not stale; a failure breaks that, and the next look at
the goal restores it for all milestones at once.

`AccountsProofs` proves `AccountTypes`, `PasswordsStand` (`LastPasswordStands`),
`TokensSpent` (`TokenUsedOnce`), `DeletionsComplete` (`DeletionComplete`),
`StraysExplained` (`NoStrayUsers`) and the action property `DeactivationStays`
(`InactiveStays`), for every set of owners, requests, names and e-mails. It assumes that
owners and requests are different things, that `None` is none of them, and that the number
of failures is one. The properties speak of answered requests; `AccountsInv` says what is
true on the way to the answer. `DeletionInv` follows a deletion through its collections:
what it is past holds nothing but what an overlapping login or insertion has put there, and
whoever came after it does not find the user (`GoneInv`). `TokenInv`: a token was ever
stored on one account only, and is gone from it once used, so that a request which comes
later and holds it has not found it. `EmailInv`: whoever took a registration's e-mail since
it was looked up is a registration beside it. `Works` says what any step of a request may
change, so that each part has to look at the few steps that disturb it.

`TransactionsProofs` proves `TransactionTypes`, `DiscardsStand` (`DiscardStands`),
`ImportsAccounted` (`ImportAccounted`), `CategoriesFit` (`CategoryFits`), `UsesAreCounted`
(`UsesCounted`) and the action properties `DeletedStays` (`DeletedUntouched`) and
`RemovedMappingsStay` (`RemovedMappingStays`), for every set of documents, categories and
requests that is finite, and every number of copies, rows and failures. `ShapeInv` ties
what a request holds to what it loaded, by its kind and step; it is what makes a save,
which writes the difference, harmless to the fields its kind does not change.
`MadeInv` gives each new document one step that made it. `DiscardInv` and `DeletedInv` find
for whatever contradicts a discard or a deletion the request beside it. `FitInv` says that
documents fit and so do those in the hands of requests that have checked them; an update
checks the category against a type it has read, which is right as long as nobody changed it
(`SeenInv`). A template that need not fit is the exception from the start (`TypeAlone`), and
the transaction a request makes of it is not: it comes into `FitInv` with the check. `UsesInv` bounds a template's count by its uses from above always, and from
below when they came one after the other, both for the count that is stored and for the one
a request has read.

About the API process it proves `ThrottleKeeps` (`ThrottleSpec => []ThrottleHolds`) for every limit,
window and set of requests, from a wait that is shorter than the window. Neither half is
inductive. The first is about every span of time, the records only about now: `Windows`
divides the requests that passed into those of the current record, those of the one before
and older ones, with at most a quota in each of the first two; `StoredWindows` and
`HereWindows` say when the older ones ended, so that a request that passes meets, within a
span back from it, the last two at most. `Blocks` says that the record that counts is
blocked as long as was announced, and that Redis keeps it.
The proof corrected the property: a record lasts from the *arrival* of the request that
made it, read before its calls to Redis, and requests are counted when they are answered.
With a limit of 4, a window of 4 and waits up to 3, more than six requests pass within four
units of time. The promise holds over a window less the longest wait but one unit
(`Span`), and over the whole window in the process's own memory, where nothing waits; with a
wait of one unit both are the same.

It also proves `PresenceFollows` (`ChatSpec => []PresenceExplained`) for every set of
users, sockets and rooms. The invariant adds to the property only the shape of the
variables it speaks of (`Shaped`); all ways of closing a socket are one lemma
(`DisconnectKeeps`), and so are all steps that open and close none (`OthersKeep`).

`BudgetsProofs` proves `RolloversCarry` (`Spec => []RolledNext`) and `RefusalsExplained`
(`Spec => []RefusedByDeletion`), for every set of budgets and requests, every amount and
every length of the periods. What a rollover holds is followed from load to load
(`Carries`): the amounts of its two loads agree, or an update was saved between them by a
request that had not answered when the rollover came; the new budget starts where the
second reading of the clock puts it until somebody updates it. `Lists` says that what a
listing has still to load was there when it was listed, so that whoever deleted it overlaps.
`PastOver` is what makes two requests overlap: nobody who is still at work was over when
another one came. `Calm` says what a step of one request leaves of the budgets and the
other requests, so that each invariant is looked at once for the request that moves and
once for all others (`OthersKeep`). That the sum of a window is a natural number needs the
partial sums to exist: no number up to the end of time is the least one without them.

`DocumentsProofs` proves `DatesStay` (`Spec => []DatesInOrder`) and `ClashesAreExplained`
(`Spec => []ClashesExplained`), for every collection, every set of users and documents and
any number of requests, from finitely many documents, natural dates and orders and `None`
being none of the others. `Brings` says what a request means to write, `Current` what it
has read that nobody has written since: for a save the dates it loaded, for an insertion
that the slug is free, that the user has no document, that the new order is above all
others. A write then either overtakes a request or leaves alone what it looked at
(`OthersOvertaken`), and a step that writes nothing concerns its own request only
(`QuietStep`), so that each action is left with what it does to its request and to the
documents. Two facts had to be added that no property states: a mark that an order was
given is never taken back (`GivenStays`), which a save that only changes such an order
relies on, since it writes no mark of its own, and the unique indexes themselves
(`Distinct`). That the
next order is the largest needs finitely many documents: no smallest set of them is without
a largest (`OneIsLargest`). Which operations and promises go together is read from the
fourteen collections once (`CollectionsAre`).

Model-checked only:

- `CatchesUp` and `EveryMailSettles`: liveness is out of the prover's reach; and that
  `NeverTwice` fails.

## 6. Where code and documents disagree

`findings` in `PROJECT.json` quotes the lines. One has a run of its own,
`recurring_cluster`: the generation job runs in every API process as well as in the
scheduler (`app.module.ts:72`), while the README gives cron jobs to the scheduler alone.
The others were met while reading and have none:

- recurring transactions: occurrences later than midnight are due on their day and not
  generated on it; `editFuture` drops the occurrence at the handover date; monthly series
  on the 29th to 31st skip a month; `interval` multiplies every frequency;
- bootstrap: the validation pipe, the filter and the interceptors of `main.ts` are set after
  the routes are registered and apply to none of them;
- presets: two requests leave two defaults (what `OneDefault` excludes otherwise);
  `GET default` is shadowed by `GET :id`;
- accounts: deletion leaves the finances; sessions never expire; an inactive user has no
  way to reactivate; the create-owner script changes nothing for a registered e-mail;
- transactions: `applyOcrData` stores a category unchecked; an override strengthens the
  wrong mapping; a removed mapping can never be made again (`RemovedMappingStays` holds);
  a template's type is changed without a look at its category (`TypeAlone`);
  a duplicate loses its currency; statistics sum deleted transactions;
  `baseAmount` is stale after an update; an import takes a category of either type;
- budgets: what was carried over is carried again; a successor may end before it starts;
  nothing calls the rollover;
- documents: `reorder` routes are shadowed; the last slug that is tried is thrown away
  free or not; deleted posts hold slugs; an end of null is checked as the stored one;
  public lists ignore `isPublic`; preferences are not deleted with the user, and the base
  currency may leave the supported ones;
- process: the throttle's window is a thousand times too long and its limit one too low;
  the monitoring gateway disconnects every client; the cron tracker's registry is read
  before it is filled; every failed attempt is logged as final; `sendEmail` sends nothing.

## 7. Not modelled

- Analytics, search, export, metrics, queue board: they read other components' data and
  change nothing.
- The cron job tracker: its list is empty when it is read, and it only displays.
- Monitoring gateway: it disconnects each client before it keeps any state.
- Upload and OCR's parsing, exchange rates, the Redis wrapper, mail templates: external
  I/O, a fixed table, formats.
- Bootstrap, configuration, filters and interceptors: wiring. DTO validation does not run
  (section 6); the sets from which requests take their values are what well-behaved clients
  send (section 3).
- Within the modelled parts: texts, amounts of transactions, currencies, paging,
  ownership checks between users who share nothing, the avatar's file, `restore` and
  `reorder` where no route reaches them.
