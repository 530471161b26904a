# mr-wallet in TLA+

Specifications of mr-wallet: a multi-tenant personal-finance API (NestJS,
Prisma, PostgreSQL, `src/apps/api`), its web application (Next.js,
`src/apps/web`) and the protocol of its offline devices
(`src/packages/sync-protocol`). They are written from the TypeScript sources;
the documents under `src/docs` and the comments are used only as the statement
of what is promised.

Contents: [1 the system](#1-the-system), [2 modules](#2-modules),
[3 runs](#3-runs), [4 bounds](#4-bounds), [5 fairness](#5-fairness-and-liveness),
[6 proofs](#6-proofs), [7 disagreements](#7-where-code-and-documents-disagree),
[8 not modelled](#8-what-is-not-modelled), [9 plan](#9-plan).

Services are named by their files: TX is
`src/apps/api/src/modules/transactions/transactions.service.ts`, DE the one of
debts.

## 1. The system

One Node process (the deployment has one instance) serves HTTP requests
concurrently: a handler runs until its next `await`, so two handlers interleave
at every database access. The state is in PostgreSQL (READ COMMITTED, the
default). A handler may group statements in an interactive SQL transaction
(`prisma.$transaction(async tx => ...)`); most statements are on their own.
Nightly jobs (`@Cron`) run in the same process and interleave with requests.
Modules call each other through facades, and through events emitted after the
commit (`events.emitAsync`). The browser sends requests whose answers come in
any order or not at all.

| Component | State it keeps | Hard behaviour | What makes it correct |
|---|---|---|---|
| accounts, transactions, reconciliation, soft delete | `Account.currentBalanceMinor`; entries, transfer legs, fee lines; `deletedAt` | rows read before the SQL transaction; deletes that escape it; a unique index that counts deleted rows; a difference computed from an older balance | balance = opening + live rows; transfers in pairs; fees with their parents; each increment once |
| debts | `Debt`, `DebtInstallment`, `DebtPayment` | a payment is up to six separate statements, and the booking may be refused halfway; schedules with a history | installment = sum of its payments; outstanding = principal not repaid; a schedule repays its principal exactly |
| budgets | `Budget`, `BudgetPeriod` | recomputations race; events that are not emitted; the rollover cascade; alerts from an older row | spent = what the ledger holds, carry = what was left, one alert per threshold |
| recurrence | `RecurrenceRule.lastGeneratedAt`, skipped dates | the job against the hand, the order of materialization | each due occurrence once, none revived, none missed |
| goals | `SavingsGoal`, `GoalContribution` | a transfer and its contribution in separate commits, recomputations that cross | amount = sum of contributions, status follows, transfers follow |
| notifications | `Notification`, `DeviceToken` | look up, then insert; a failure counter written from an old read | once per event; a revoked device stays quiet |
| auth sessions | chain of `Session` rows; a cookie shared by tabs | rotation races, reuse detection, the grace window | one open end, a revocation reaches everything, no false alarm |
| identity, login throttle | `User`, `OAuthAccount`, four kinds of tokens, failures in memory | check-then-use tokens, unlinking, OAuth signup, lock tested before the password | an account can always be entered, a token works once, guesses are bounded |
| sync | `IdempotencyKey`, cursor of the change feed | the key is stored after the operation; stamps are older than commits | each operation once, answers true, the outbox drains, no change missed |
| import, attachments | `ImportBatch`, previews in memory; rows and files of photos | a batch commits line by line; a row and its file are written apart | a line once, a revert leaves nothing, a listed photo can be seen |
| categories, rules, forecasting | category tree, rules; a cache by horizon | check, then write; a delete outside its transaction; the cache filled after awaits | entries stay filed, a served forecast is fresh |
| web application, offline cache, PIN | lists, dialogs, cookie, encrypted answers, digest of the PIN | late answers, double submissions, lost answers, several people on one browser | the list asked for, written once, what is told is so, nothing shown to another |
| reporting, currency, calendar, amortization, statements, export | functions of the rows and of text | rounding, month ends, ambiguous text | reports agree with the ledger, dates land, amounts are read as written |
| audit log, saved searches, providers and mail | own tables, or none | none | see section 8 |

How they interact: `debts`, `recurrence`, `goals`, `import`, `reconciliation`
and `sync` book transactions only through the facade of `transactions`, which
changes balances only through the facade of `accounts`; `budgets`,
`notifications` and `forecasting` listen to the events of the others; `web` calls
the API and keeps what it was answered.

The hazards of the code are listed at their lines in `PROJECT.json`
("hazards"), with the properties that cover them. Three have none: the removal
of an account against an entry, two payments of one debt at once, and two
budgets created at once; each says why.

## 2. Modules

| Modules | What they are | Run |
|---|---|---|
| `LedgerData`, `Ledger`, `Reports` | rows and sums; one atomic action per request of accounts, transactions, reconciliation; what reports compute from them | `ledger` |
| `LedgerRequests` | the same requests, database access by database access; refines `Ledger` | `requests`, `requests_rollback` |
| `Debts`, `Amortization` | one debt: schedule, payments, sweep, refused bookings; the engine | `debts` |
| `Calendar`, `Statements`, `StatementFiles` | dates, bank statements, files: pure functions | `debts` |
| `Budgets` | budgets, periods, events, cascade, alerts, repair script | `budgets` |
| `Sessions` | refresh rotation, revocation, tabs | `sessions` |
| `Identity` | users, links, tokens, throttle | `identity` |
| `SyncPush`, `ChangeFeed` | a device that sends its outbox; a device that pulls changes | `sync_push`, `change_feed` |
| `Notices`, `Recurrences`, `Goals`, `Jobs` | notifications; a rule; a goal; the three composed with the scheduler | `jobs` |
| `Imports`, `Pages`, `PinLock`, `Attachments`, `Submissions` | batches; forms; the PIN gate; photos; the four side by side | `imports` |
| `Screens`, `Categories`, `Forecasts`, `Offline`, `Views` | the page of transactions; categories; the forecast cache; the service worker; the four side by side | `views` |
| `LedgerProofs`, `SessionsProofs`, `IdentityProofs`, `SyncProofs`, `JobsProofs`, `ViewsProofs`, `SubmissionsProofs`, `PlanningProofs` | theorems, for every value of the constants | section 6 |
| `MC...` | instances for TLC | section 4 |

Every definition that stands for code is listed with its lines in `PROJECT.json`
("map"). A statement of a handler is a step of the request that runs it: `req[w]`
(or the like) holds what the request has read so far and how far it is; a step
ends where the code awaits the database. Where one `CONSTANT` is an upper bound
of something the code does not bound, its comment says "bound". History variables
(at the end of each VARIABLES list) are written by the actions and read by
properties only, never by a guard.

### Ledger

`accountState`, `opening`, `balance`, `tx` are the columns of `Account` and the
rows of `Transaction`. A row has a state (never inserted, live, soft-deleted), an
account, a type, an amount, a source, a transfer group and the parent of a fee
line. A transfer group is named by the id of its outbound leg: the group is a
fresh UUID drawn with it, so the name identifies it as well.

| Action | Code |
|---|---|
| `CreateAccount`, `RemoveAccount` | `AccountsService.create`, `remove` (refused while live rows remain) |
| `CreateTx`, `CreateTxWithFee` | `TransactionsService.create`, without and with `feeMinor`; also the bookings of debts, recurrence, import |
| `Transfer`, `TransferWithFee` | `transfer` |
| `UpdateTx`, `UpdateDropFee`, `UpdateChangeFee`, `UpdateAddFee` | `update`: `feeMinor` absent, zero or null, given with a fee line, given without one |
| `RemoveTx`, `RemoveTransfer` | `remove`, `removeTransferGroup` |
| `Reconcile` | `reconcile` when the declared balance differs |

Requests that change nothing (refusals, replays of a live id, a reconciliation
without difference) are stuttering. `bulkDelete` and `bulkUpdate` loop over the
single requests. Labels, categories, tags and dates are left out: no balance
depends on them; the date and category checks can only refuse. `Transfer` has no
guard that its two accounts differ: only the schema of the transfer route has it
(`transaction.dto.ts:60`), and a goal contribution calls `transfer` past that schema.

`Reports` gives every account a currency and adds nothing to the state: net worth,
cash flow, spending, the unaccounted line, the summary and the pages of the list
are operators over the rows, with the lookup of a rate (manual before provider,
pegged, latest before the day) and the rounding of `convert`.

### LedgerRequests

A worker serves one request. `remove` reads its row, then its fee line (or the
legs, then their fee lines), and opens its SQL transaction only then; `update`
reads its row before and its fee line inside. The transaction adjusts account
rows first, so `Enter` and `LockRow` take the locks of the accounts they touch,
all in one step (the order in which two accounts are locked can only produce a
deadlock, which the database turns into a failure of one request: `Fail`). All
other effects of the SQL transaction appear at its commit, because READ COMMITTED
hides them until then. The deletes are the exception: `softDeleteExtension` runs
`getDelegate(client, model)` on the client it was built from, not on the `tx` of
the caller, so `DeleteFee` and `DeleteRows` change the database at once and
survive a `Fail`.

`outdated` collects the accounts on which a request acted from a read that had
become old, or on which it died after a committed delete; `DriftExplained` says
that nothing else ever makes a balance drift. `ImplementsLedger` is the
refinement: with `logicalTx` (a deletion counts when its request has deleted its
last row) and `logicalBalance` (on an account that a removal is about to reverse,
the reversed balance) for `tx` and `balance`, every step taken while `outdated` is
empty is a step of `Ledger` or a stutter.
Inserting handlers write in one SQL transaction; they are the atomic actions of
`Ledger`, blocked while a worker holds the lock of the account.

### Debts, Amortization, Calendar, Statements, StatementFiles

`debt`, `inst` (by sequence number, as the unique index has it) and `pay` are the
three tables, for one debt. None of the handlers runs in one SQL transaction, so
a refusal halfway leaves what was written: `refused` is the refusal of a booking
on the linked account, `Clashes` the refusal of a regeneration by the unique
index, and `aborted` remembers that one happened. Requests are served one at a
time. In `Debts` a schedule is any list of lines whose principal adds up;
`Amortization` computes it, by recursive functions over fractions where the code
rounds floating-point numbers.

`Calendar` (periods of budgets, occurrences, due dates, streaks, the months of the
forecast), `Statements` (amounts, dates, layouts of rows, suggested recurrences)
and `StatementFiles` (delimiter, header, spreadsheet cells, similarity of labels,
written CSV) have no variables: each function is compared with a definition that
says what it is for (a period follows another without a gap, an amount that was
written in a format is read as that amount or refused).

### Budgets

`entry` is what the sums read, `budget` and `period` the two tables, `task` what a
request, event handler or job has still to do. `WriteEntry`, `WriteFeeLine` and
`RemoveCategory` are the writes of the ledger and of categories, with the events
they emit or fail to emit; `Concerned` to `EvaluateAlert` are the handler of
such an event; `ReadCascade`, `StoreCascade` the rollover; `Nightly` to
`InsertPeriod` the job; `PlanRepair`, `ApplyRepair` the script. An update is two
steps: `CheckUpdate` reads the row and keeps what it read, `UpdateBudget` writes the
fields it was given to the row as it is by then, and cascades if the result differs
from what was read. `stale`, `skewed`
and `misled` note which rows a known cause (a write without an event, two tasks
that crossed, a lost task, an update that had nothing to cascade because another
one had changed the row meanwhile) may have left wrong.

### Sessions and Identity

A refresh token names its row, so a token is modelled by its session. `Lookup`,
`Close`, `CreateSession`, `Commit` are `refresh()` in its SQL transaction (the
conditional UPDATE locks the row; other requests see both writes at the commit),
`ResolveGrace` and `ResolveReuse` its two other ends; `StartRevoking`,
`EndRevoking` a statement over the rows that exist when it starts. `Tabs` share the
cookie; `Answer`, `LoseAnswer` set it or not. `slipped`, `detached` and `trouble`
are histories.

`Identity` has one step per statement: `Begins` a request, `FindUser`, `Insert`,
`CheckToken`, `MarkUsed`, `FindLink`, `CountLinks`, `DeleteLink`, `VerifyPassword`
and so on follow the handlers of `auth.service.ts`; `Lose` ends any of them
between two statements. A user is named by its email, a link by the identity at
the provider (both unique over deleted rows).

### SyncPush and ChangeFeed

`Push(r)` sends the outbox; the request then goes through `FindKey`,
`CheckVersion`, the handler, `StoreKey` for each of its operations in
the order of their numbers, and `Answer`; `GiveUp`, `LoseRequest`, `OtherDevice`,
`RaiseMinimum`, `Upgrade` are what else happens. Handlers differ in what is committed
when they stop. `RunCreate` and `RunOther` commit once or refuse. Those of several parts
(`bulkCategorize`, `planCreate`, `recordPayment`) commit one and then the others
(`RunRest`), which may be refused. A contribution (`RunBooking`, `BookRow`) commits its
transfer and then its row, whose insert may fail; so does a payment, whose installment
comes first. `Malformed` is the `ZodError` of a handler: the push route accepts any
payload (`z.unknown()`), and what is no domain error gets the whole batch a 500.
`torn` holds the operations that took effect without the device or the key table having
noted it, `halfway` those that were refused after their first part was committed.

In `ChangeFeed` a writer stamps a row (`Stamp`) and commits it later (`Commit`);
a page reads its tables one after the other (`ReadTable`) and moves the cursor
(`Receive`).

### Notices, Recurrences, Goals, Jobs

`Notices` defines the workers (`Goes`, `Ends`, `Begins`, `Continue`), shared by the
three, and everything that ends in a notification or a push. `Recurrences` adds
one rule: `Job`, `NextDue`, `Already`, `BookOccurrence`, `MarkGenerated`, by
the job and by hand. `Goals` adds one goal: `FindReplay`, `Transfer`,
`InsertContribution`, `RemoveTransfer`, `DeleteContribution`, then `ReadGoal`,
`ReadSum`, `WriteGoal`, which are `recomputeCurrent`. `Jobs` composes them: `Tick`
is the scheduler, `Lose` ends a request between two statements.

### Imports, Pages, PinLock, Attachments

`Imports`: `Upload`, `Stage` (preview), `Commit`, `ImportRow` (one SQL transaction
per line), `RefuseRow`, `Complete`, `Unstage`, `Revert`, `RevertRow`, `EndRevert`;
by hand `Enter`, `Update`, `Remove`; `Restart`. `Pages` is a table of forms (what
keeps each from being sent twice, which lists it loads, who tells the end) and one
machine for all: `Press`, `Check`, `Do`, `ReadLists`, `ShowLists`, `Fail`, `Vanish`,
and `Look`, `Arrive` for dialogs of a row. `PinLock` is the gate with its attempts
and timer. It is mounted beside every page and renders nothing unless it is locked, so
a page shows (`Shows`) until the store has answered. Going from page to page, logging in
and out included (`router.push`), leaves it as it is; a load starts it again. The store
may fail at every access (`CannotCheck`, `CannotCompare`, `CannotLeave`, `CannotSave`).
`Attachments` writes row and file in separate steps. `Submissions`
moves one of the four at a time: they share no state.

### Screens, Categories, Forecasts, Offline

`Screens`: filters, cursor stack, the dialog that creates, deletion, answers in any
order. `Categories`: `CheckNew`/`Insert`, `CheckChange`/`Store`, `CheckRemoval`/
`Move`/`Drop`/`Commit` or `Break` (the drop commits on its own). `CheckAdjustment` files
a reconciliation under the category of the adjustments, of either kind, as `create` lets
it (RG-A9). `Forecasts`:
`ReadWorth`, `ReadRest`, `Keep` against `Change` and `Announce`. `Offline`: a visit
asks the network, keeps the answer under the key of the browser or falls back on
what was kept, while people log in, out, get locked out or delete their account.
`Views` moves one of the four at a time.

## 3. Runs

| Run | Question | Properties | States |
|---|---|---|---|
| `ledger` | does any sequence of requests break a balance, a pair, a fee line, a report? | `BalanceDerived`, `TransferPaired`, `FeeLineIntegrity`, `ReportsAgree` | 115 000 |
| `requests` | what do requests do to each other, and a failure in between? | `DriftExplained`, `ImplementsLedger` | 138 000 |
| `requests_rollback` | is a deletion in the SQL transaction that asked for it (RG-A3)? No: section 7 | `QuietBalance` | stops |
| `debts` | do installments, payments and outstanding stay in step; is the arithmetic right? | `InstallmentTracksPayments`, `AllocationBounded`, `PaidOffLeavesNothingDue`, `EngineRepays`, `DatesAndAmountsHold` | 115 000 |
| `budgets` | when is a period wrong, a carry wrong, an alert repeated? | `SpentExplained`, `RolloverExplained`, `AlertOnce` | 1.73 million |
| `sessions` | can tabs, losses and revocations fork a chain, outlive a revocation, or raise a false alarm? | `OneOpenEnd`, `RevocationReaches`, `NoFalseAlarm` | 831 000 |
| `identity` | can an account become unreachable, a token work twice, a lock be passed? | `AccountWhole`, `TokenOnce`, `GuessBound` | 591 000 |
| `sync_push` | what does a lost or repeated push do, and does the outbox drain? | `AppliedOnce`, `AnswerIsTrue`, `Drains` | 1.26 million |
| `change_feed` | which changes does a device miss, and does it converge? | `FeedExplained`, `Converges` | 729 000 |
| `jobs` | what do the job, the hand and the events repeat or lose? | `NoticeOnce`, `RevokedStaysQuiet`, `OccurrencesKept`, `GoalsKept`, `NotRevived` | 1.73 million |
| `imports` | what is imported twice, left after a revert, told wrongly, shown in spite of the PIN? | `LineOnce`, `RevertIsClean`, `HandedInIsKept`, `PinHolds`, `PreviewHolds` | 3.15 million |
| `views` | which answer is on screen, which entry is in a category that is gone, which forecast or answer is served? | `ListIsAsked`, `WrittenOnce`, `EntriesFiled`, `ForecastFresh`, `OfflineReads` | 2.30 million |

A property of the form "P unless h" names, through history variables, every
cause by which the code leaves P: the run shows that there is no other. Most
of them come from statements that are not in a common SQL transaction, where
the promise alone would be violated and a list of its violations would say
nothing about the rest.

Every run ends: what the code does not bound is bounded by the constants, and
the last states have no successor (`CHECK_DEADLOCK FALSE`: the system stops only
because its bounds are used up). Each property of a passing run has a mutant in
`PROJECT.json`, a plausible slip in the code (reversing with the new account,
deleting one leg, forgetting a replay, keeping a late answer...), for which TLC
finds the property violated.

## 4. Bounds

- `ledger`: 2 accounts in two currencies, 3 rows, amounts 1..2, openings {-1, 2}.
  Three rows hold an entry with a fee, a transfer with a fee, or three competing
  entries; requests of different rows meet only in the sums. Amounts of 2 tell a
  changed amount from an unchanged one. The theorems remove these bounds. Two
  tables of rates hold a provider, a manual and a pegged one, above and below 1.
- `requests`: 2 workers, `MaxRequests` = 2 removals, updates or reconciliations,
  new rows of amount 1. Two requests give every pairwise interleaving on one
  row, its fee line or one account; insertions are not counted.
- `debts`: 3 payments, schedules of up to 2 lines (`MaxSequence`), principal 0..2,
  interest 0..1: a partial payment, a settling one and an extra one, each of which
  may be deleted and paid again. The engine: seven principals to 20, rates 0,
  1/10, 1/5, 1/2, up to 6 periods, so rounding up, down and to even, installments that
  fall short and schedules cut at the cap; larger inputs are the theorem's. The calendar: 2023 to 2027, so a leap year in
  the middle, rules anchored on days 1, 15, 28 to 31, 14 steps of any frequency.
  Amounts of 0 to 8 digits in every format; texts of up to 4 characters of 7;
  labels of up to 4 letters of 2.
- `budgets`: 1 budget over a category with a subcategory, 1 entry, 2 workers, 3
  requests, events or jobs, months 0 and 1, thresholds 50 and 100. A write and its
  event, another write, and a job or script are three; two months are a carry.
- `sessions`: 4 rows, 2 tabs, 6 requests, 1 change of the password.
- `identity`: 2 emails, 2 identities, 1 token of any kind at a time, 2 workers, 3
  requests, 1 loss, 1 free failure, backoff up to 2 ticks. Three requests are two
  that cross and one that uses what they left.
- `sync_push`: 1 row, 2 operations, 2 requests in flight, 2 losses or timeouts,
  1 edit by another device. Two operations give a batch that stops halfway. Creations
  and updates may be malformed (`Malformable`): one kind whose handler parses first, one
  that may parse after the version check; the theorems allow every kind.
- `change_feed`: 3 rows in 2 tables, 2 writers, 4 writes, pages of 1 row (every tie
  and every boundary), 3 instants, 1 lost page.
- `jobs`: 2 workers, 3 days, two schedules, 3 requests or jobs, 1 loss or refusal, 2
  contributions, targets 1 (which one contribution reaches) and 3 (which none
  does).
- `imports`: 1 file with a repeated line, 2 batches, 3 rows, 1 event; on the
  pages 2 wishes, 3 presses, 1 lost answer; 2 PINs, one or none of them in the browser at first, 6
  entered (the limit is 5), 2 at a time, 3 loads, logins, logouts or changes, 2 failures of
  the store or lost logouts; 2 requests on 2 photos with 2 faults.
- `views`: 5 clicks and 1 lost answer over 2 filters of 3 pages; 2 categories of 2
  kinds and that of the adjustments, 2 entries, 6 requests, 1 broken; 3 changes and 4 forecasts of 2 horizons; 2
  people, 3 visits, 3 moves.

Symmetry is used on identifiers that no operator orders, and only in runs
without temporal properties that symmetry could hide (`[][A]_v` formulas whose
`A` treats the identifiers alike are kept).

## 5. Fairness and liveness

Two specifications state fairness, and their runs check liveness.

- `SyncPush`: `WF(\E r : Push(r))` and `WF(Serve(r))` for each request. A device
  sends its outbox again after every answer, failure or timeout; a handler that
  runs goes on until it answers or fails, unless it is lost, and losses are
  bounded. `Drains`: the outbox ends up empty, unless the device must be upgraded or an
  operation fails for ever: one that is malformed, or one that would insert the id of a
  deleted row. It blocks the outbox once what is before it has been applied; that
  stays in the outbox too, for a 500 tells the device nothing. Nothing is assumed of the
  user, the other device or the faults.
- `ChangeFeed`: `WF` of `StartPage`, `Receive`, the reads of a page and each
  `Commit(w)`. A device polls; an SQL transaction commits. `Converges`: the replica
  ends up equal to the rows that were not overtaken by the cursor.

The other specifications promise safety only: a request may be abandoned at any
point, and a job that is lost is not run again before the next night.

## 6. Proofs

`tlapm` checks the proof modules from nothing. The theorems hold for every value
of the constants that satisfies the assumptions of the modules, all named and
next to the constants: bounds are natural numbers (some are not even that), the
absent references are not ids, ids of the ledger, of replicated rows and of contributions are finite in
number, so are the entries of a budget, amounts are positive and alert thresholds
are percentages of 1 to 500 (`budget.dto.ts:20`), a file is a sequence of keys, rates are
positive fractions, the two currencies differ and a page of the list has room for a row. No
assumption is made in a proof module.

| Module | Theorem | States |
|---|---|---|
| `LedgerProofs` | `TypeCorrect`, `BalanceIsDerived`, `TransfersStayPaired`, `FeesStayAttached`, `NoRowOnDeletedAccount`, `DriftIsExplained`, `RequestsImplementLedger`, `ReportsHold` | `TypeOK`, `BalanceDerived`, `TransferPaired`, `FeeLineIntegrity`, `RowsOnLiveAccounts`, `DriftExplained`, `ImplementsLedger` (the refinement), `ReportsAgree` |
| `SessionsProofs` | `OneLiveSession`, `RevokedForGood`, `RevocationsReach`, `NoFalseAlarms` | `OneOpenEnd`, `RevokedIsFinal` (action property, proved only), `RevocationReaches`, `NoFalseAlarm` |
| `IdentityProofs` | `BlockedGuessesAreBounded`, `TokensAreSingleUse`, `AccountsStayWhole` | `GuessBound`, `TokenOnce`, `AccountWhole` |
| `SyncProofs` | `AppliedAtMostOnce`, `AnswersAreTrue`, `FeedIsExplained` | `AppliedOnce`, `AnswerIsTrue`, `FeedExplained` (an invariant and an action property) |
| `JobsProofs` | `JobsAreKept`, `NoticesOnce`, `RevokedDevicesStayQuiet`, `OccurrencesAreKept`, `NoneIsRevived`, `GoalsAreKept` | the invariant, `NoticeOnce`, `RevokedStaysQuiet`, `OccurrencesKept`, `NotRevived` (action property), `GoalsKept` |
| `ViewsProofs` | `OneRowPerOpening`, `TheListIsAsked`, `NoEntryLost`, `KeptIsFresh`, `KeptAnswersAreRead`, `ViewsHold` | `WrittenOnce`, `ListIsAsked`, `EntriesFiled`, `ForecastFresh`, `OfflineReads` (action property), and the five of the composition |
| `SubmissionsProofs` | `EachLineOnce`, `RevertsAreClean`, `CommitsKeepToThePreview`, `PagesTell`, `TheGateHolds`, `PhotosAreKept`, `WhatIsHandedInIsKept`, `SubmissionsHold` | `LineOnce`, `RevertIsClean`, `PreviewHolds` (action property), `PageTells`, `PinHolds`, `AttachmentsKept`, `HandedInIsKept`, and the properties of the composition |
| `PlanningProofs` | `InstallmentsTrackPayments`, `AllocationsAreBounded`, `NothingIsDueWhenPaidOff`, `EngineHolds`, `SpentIsExplained`, `RolloverIsExplained`, `AlertsFireOnce` | `InstallmentTracksPayments`, `AllocationBounded`, `PaidOffLeavesNothingDue`, `EngineRepays`, `SpentExplained`, `RolloverExplained`, `AlertOnce` |

Each invariant was checked by TLC on the instance of its run before it was proved.
Each proof has one lemma per action, and under it one step per conjunct of the
invariant that the action can disturb.

**Ledger.** `IInv` is `Structure /\ BalanceDerived`. `Structure` adds `Provenance`:
a row that is a leg or a fee line got that role at its insertion, and its ids
refer to the rows inserted with it. `TransferPaired` and `FeeLineIntegrity` speak
of live rows only: without knowing that a fresh id is referred to by nobody, an
insertion could complete a group or a parent that an older row already names.
`BalanceDerived` needs the structure in turn: what a removal reverses equals the
net of what it deletes only if the legs and the fee lines are exactly the rows
read. None of it needs the legs of a transfer to be on two accounts: what a row does to
the balances does not depend on the others. Sums are cardinalities of sets of (row, minor unit) pairs, so that the
library's theorems about finite sets carry the arithmetic.

**Reports.** To `IInv`, `ReportsInv` adds only that finitely many accounts were ever
created; nothing else is needed of the ledger, the rest is arithmetic over one state. The
reports add up with the community `SumFunction`, a recursion over finite sets. `SumStep`
solves it, and the smallest subset that would be a counterexample (`SubsetOrder`, the
library's well-founded order) carries the rest: a sum is linear (`SumLinear`), filing
rows under a key changes no total (`SumByKey`), and terms that are near each other have sums
that are near (`SumNear`). `convert` is half a unit off at most (`RoundsToNearest`), so
a report is near the exact value of what it adds up (`ConsolidateIs`) by as many halves
as it converts. That the net worth less the opening balances is what the month
nets then follows from `BalanceDerived`, once the two legs of each pair cancel
(`PairsCancel`); the pairs between currencies do not, and `ReportsAgree` names them.
For the pages, `PageInv` says that what was left at a cursor is on the pages since or
still left, a page at a time; the list is empty after at most as many pages as rows.

**Requests in flight.** `RequestsInv` is what makes `DriftExplained` inductive.
`AllSound` says what a request still knows of the rows it has read: they were live, and
type, source, group and parent cannot have changed; only state, account and amount can,
and whoever acts on a change of these adds the accounts to `outdated`. `HoldsLocks` is
why one removal at most is about to write an account, so that `logicalBalance` is the
stored balance less what that one reverses. `GoneAreDeleted` and `DeletedOnce` keep two
requests from both reversing the deletion of a row, unless it was moved in between or
its account is outdated. `RowsKept` says that even a deleted row lies on a live account:
an UPDATE names the row by id and also reaches deleted ones. Each step is then one
equation (`DriftStep`): what the stored balance moves by, plus the change of what is
still to be reversed, is what the rows move by.

The first attempt failed for a good reason. An update may commit a fee line to another
account after a removal has deleted that line; if the removal then fails, its deletion
stays and the account the line had been moved to drifts, which the history did not name.
TLC shows it with three accounts and three requests, beyond the bounds of the run. The
code can do that, so `Fail` now adds the account on which the deleted row lies.

The refinement needs no further invariant. `LogicalMoves` turns `DriftExplained` before
and after a step into what the balances move by; the rest is to see that the rows the
request wrote are those the atomic handler writes. With nothing outdated they are: what
a removal has read is all it should delete (`RemovedIs`), and what an update rewrites is
as it has read it (`UpdateKnown`, `NewFeeKnown`). All accesses but `DeleteRows`, the
commits of updates and reconciliations and the insertions change nothing the ledger shows.

**Sessions.** `ChainInv` says which rows exist (`Unmade`), that successors form
chains (`Chains`), what a refresh in progress knows (`Known`, `Holding`) and that
one request at most holds the lock of a row (`HeldOnce`): the conditional UPDATE
is what makes the last hold. `ReachInv` adds `OldPasswords` and `OldSuccessors`:
a request that started before a revocation marks what it inserts after it.
`CalmInv` is `trouble \/ Calm`: while nothing was lost or late, the cookie is that
of the open end or of its predecessor inside the grace window (`CookieIsFresh`,
`AnswersAreNew`, `NoneIsLate`), so no lookup can find a superseded row too old.

**Identity.** `RequestInv` types the requests and ties each to the rows it has
read. `GuessInv` counts: passwords verified in the present block, plus the logins
that are between the check and the verification, stay below the number of workers.
`TokenInv`: a request that has passed `MarkUsed` holds the token alone (`Spent`,
`HeldAlone`), unless `doubled`. `AccountInv`: an account has a way in or its
creation is still to add one; a request about to delete a link has left another.

**SyncPush.** `PushInv` follows each operation through the request that carries
it: before the key is looked up it was not applied or is torn (`Waiting`,
`Fresh`), between its first part and the key it was applied exactly there (`Noted`),
and a refusal found it not applied, or came after its first part, which `halfway`
holds (`Excused`, `Parked`). Every operation of a batch that a request is past took
effect or found its row (`Past`, `Told`), also when a later one is malformed and the
whole batch is answered with a 500.

**ChangeFeed.** `FeedInv` relates a page in progress to the tables as they are now:
what was read of a table is true of every row that did not slip (`ReadIsTrue`), and a
row that was to be read and is not there comes after a whole page of others of its
table (`ReadIsWhole`). The merge keeps that: `FirstOf` is closed downwards
(`FirstOfIs`) and full if it leaves something out (`FirstOfIsFull`), so a full table
keeps everything after it off the page (`FullKeepsOff`), the cursor stops before each
row that was left out, and `hasMore` is true (`OffThePage`). Ties of `updatedAt` make
no exception because positions are ordered by (updatedAt, id). The last and the first
of a finite set come from comparing ranks, without induction.

**Jobs.** `JobsInv` is `Typed /\ NoticeInv /\ RuleInv /\ GoalInv`; the three share
the workers only, so the steps of one part are foreign to the others and one
lemma for each part says that. `NoticeInv`: two requests past the lookup of one
key make it `doubled` (`NoneAhead`), a push that will fail with an old counter is
the only way to `slipped` (`Silenced`). `RuleInv`: what the job has taken from its
days is booked, skipped or excused (`Taken`, `NoneLeft`), and a day that was booked
is behind `lastGeneratedAt` or its mark is on its way (`Behind`, `NotAgain`).
`GoalInv`: whoever writes the goal has read the sum of now (`SumComes`), and as long
as the status is wrong somebody comes who has read that status (`TargetRead`,
`StatusComes`); a transfer is paired with its contribution or the request between
the two is still there (`Paired`, `Withdrawing`). The attempt to prove the first
version of `GoalsKept` failed for a good reason: `recomputeCurrent` reads the goal
before the sum and writes after it, so a second recomputation can write back a
status that follows from a target the user has changed since. The model's history
now counts that race as a cause, and section 7 reports it.

**Views and Submissions.** Their parts share no variable, so an invariant of a
part is one of the composition: a step is one of the part, or leaves all its
variables alone. `Categories` needs `HandsSound` and `HandsApart` (what a request
has checked is so, or it is doomed already, or it files an adjustment in the category
of the adjustments, which is never removed), `Forecasts` needs `Heard` and
`AnnouncedIsCommitted`, `Screens` needs `AnswerOnTheWay` (a submission whose answer
has not come is on the wire or lost). 
`Imports`: while a batch is not torn one request at most commits it and the lines
it has still to import have no row (`Whole`); a revert of it has read all its rows,
and leaves what the user touched (`Clean`, in `RevertInv`); a row that looks like a
line of the preview is unseen by it or is the row of that line (`Previewed`, in
`PreviewInv`). `Pages` needs to know of every packet on the wire what the server has
done for it (`Earned`); that a form which is sent once at a time has one packet under
its flag (`FlagsHold`), so a wish that is done twice was sent by a form without a flag
or sent again after a loss (`Repeated`); and that newer lists are on their way
(`Brings`). What the proof relies on in the table of the forms is one predicate,
`GoodPage`, proved of every page. `PinLock`: the counter equals the wrong entries of
the page, and all entries in flight are the same one, unless they crossed
(`CountInv`); a gate that knows of a PIN and is not locked was opened in its page
(`GateInv`), whoever logs in or out meanwhile. `Attachments`: whoever uploads a photo is alone with it until its row
is written (`Owning`); file and row differ only between two statements of a handler,
or since one was cut off (`Accounted`).

**Debts.** The three properties need each other: `DebtInv` says of every installment
what its live payments add up to, as amount, interest and principal (`Sound`), and
that a payment is allocated whole (`Allocated`). Without the second, deleting one of
two payments could leave a PARTIAL installment with nothing left to pay. Whatever
regeneration, skipping and the sweep do, they change rows of which nothing is paid
(`Rescheduled`), so one lemma serves all of them, and any list of lines the engine may
produce. Sums are cardinalities here too; payments need not be finite in number, only
those made so far are.

**Engine.** `EngineRepays` is arithmetic alone. Banker's rounding keeps the order of
fractions (`RoundMonotone`), so an annuity pays at least the first interest
(`AnnuityCovers`) and every line takes from its balance between nothing and all of it
(`CountPartIs`, `RepaymentIs`): balances run down (`BalancesRunDown`), interest with
them, and the lines add up to what is no longer left (`ScheduleRepays`). The smaller of
two balances stays the smaller under the same installment (`LessIsLess`), which is why
paying more is never worse. The recursive functions are solved, and the inductions over
lines made, by `LeastNumber` again. The attempt to prove it corrected the property: that the
installment of a schedule needs at most one line more than the schedule held within the
bounds only, and is false (section 7).

**Budgets.** `BgInv` says what a worker that waits for the database still knows
(`SoundTask`): the sum it has read is the sum (`SumKnown`), the last period it goes on
from is the last and carries what it read (`RowsKnown`), the plan of a cascade or of
the script, put over the rows as they are now, makes the chain whole (`StoreRight`,
`RepairRight`), each unless `late` says that a step of another worker has changed what
was read. An update whose write moves the amount or the rollover, but gives what it had
read before, does not cascade: it makes the budget `skewed`. Every step is therefore proved twice: it leaves its own promise behind, and
it marks as late every task whose promise it breaks (`OthersSound`). `Chained` is the
rollover of a budget, `Announced` bounds what was announced by `lastAlertPct`, which is
what makes an alert fire once. That the cascade computes a chain at all is the lemma
`CarriesRule`: its loop is a recursive function over months, and the induction over
them is the principle of the least month (`LeastNumber`), proved from the library's
theorem about well-founded relations. What the proof needed of the model was a matter
of form: sums are cardinalities, as elsewhere, the script and the cascade share one
definition (`Carries`), and `None` is not a worker.

Model-checked only, because beyond this prover: `Drains` and
`Converges` (liveness), and what the recursive functions of `Calendar`, `Statements` and
`StatementFiles` compute for every input (`DatesAndAmountsHold`: induction over texts,
through the library's folds on sequences, and over dates in a table of months): TLC
evaluates these over the bounded inputs of section 4.

## 7. Where code and documents disagree

With a run:

- `requests_rollback`. RG-A3 (`src/docs/04-modules.md:38`) says balance and
  deletion are in one SQL transaction. The soft-delete extension runs the deletion
  outside it; the failure of a single removal, nobody else around, leaves the row
  deleted and the balance as it was.

Found while modelling. The models do what the code does; where a property would
be broken by it, the property names the cause.

Ledger and reports
- RG-T11 and RG-T14 (`src/docs/04-modules.md:113`, `:118`) and the comment at TX:363
  say the fee line follows the account of its parent; `update` touches it only if
  `feeMinor` is in the request. `feeForTransactionId` is unique over deleted rows
  (`schema.prisma:290`), so a fee that was removed cannot be added again.
- A transfer between currencies writes the same number on both legs (TX:505-545)
  although `src/docs/03-modele-donnees.md:308` and `docs/08-devises.md:139` promise
  two amounts; it changes the net worth (RG-T5). The page offers accounts of one
  currency only; the API and sync do not refuse. The summary (TX:619) adds
  amounts of all currencies.
- A contribution to the account it is paid from (`goals.service.ts:124-133`;
  `goal.dto.ts` compares nothing) makes a transfer from an account to itself, which
  the schema of the transfer route refuses (`transaction.dto.ts:60`).
- A list whose cursor row was deleted skips the row after it. RG-RP2: reports use
  the rates of different days. The drift check may report a mismatch that is not
  there (`reconciliation.service.ts:63` reads balance and rows separately).
- `money.allocate` says largest remainder and gives the rest in order.

Debts
- The glossary (`src/docs/00-glossaire.md:46`) defines the outstanding principal as
  what is not repaid; `recordPayment` clamps at zero (DE:305), and deleting either
  payment of an overpaid manual schedule adds its whole principal back.
- The test at `debts.spec.ts:168` says a paid-off debt has no installment due; the
  booking comes between the status and the skipping (DE:319) and may be refused.
- `simulatePayoff` may show more installments than are due for an extra payment of
  nothing: 10 000 over 365 days are 27 a day, and 27 a day are 371 days.

Budgets
- The comment at `repair-budget-periods.ts:192`; RG-B1 (`docs/04-modules.md:152`): a
  change of `monthStartDay` makes periods overlap or leave gaps
  (`budgets.service.ts:123`); the 50/30/20 template (`docs/05-api.md:272`) is refused at
  its second budget and leaves the first (`budgets.service.ts:234`).
- RG-B5 (`docs/04-modules.md:156`) has every change of the amount or the rollover carry
  through. `update` compares what it wrote with the row it read before (`:102`): of two
  that overlap, one that turns a change back to what it had read does not cascade, and
  the cascade of the other may have used the row in between. `RolloverExplained` names it.

Synchronization
- RG-SY6 (`docs/14-sync-protocol.md:125`): "atomic per operation". One that is several
  commits may be refused after the first: `bulkCategorize` at its second entry (TX:582),
  `recordPayment` when its booking is refused (DE:319), the template of a plan
  (`budgets.service.ts:243`). The device is told "rejected" and the data have changed.
  `AnswerIsTrue` names it (`halfway`).
- `docs/14-sync-protocol.md:140` parks a refused payload as `VALIDATION_FAILED`. A payload the
  schema of its handler refuses is a `ZodError`, which `push` rethrows
  (`sync.service.ts:121-122`): the whole batch gets a 500, at every retry, and what was
  applied before it stays in the outbox. `Drains` names it (`Blocked`), against RG-SY7.
- A contribution whose id is that of a deleted one makes its transfer and then fails at
  its row, at every retry: each makes one transfer more. Nothing bounds it.

Recurrences, goals, notifications
- RG-R2 (`docs/04-modules.md:134`): without `dayOfMonth`, which the page never sends,
  occurrences drift after a short month. Suggestions ignore amounts (+/-10 %) and
  the 3 days (`docs/04-modules.md:142`), and call entries of one day weekly.
- RG-G2 is not implemented. A goal's status may follow a target that was changed
  meanwhile (`goals.service.ts:81-97` reads, sums, writes).
- RG-N2, RG-N6, RG-N13, RG-N16: look-ups without a unique index, reminders decided
  on an older row, a revoked device set active again (`notifications.service.ts:227`).

Accounts of people
- The comment at `auth.service.ts:330` against two removals at once; the comment
  at `:596` (changePassword keeps the present session); the version check leaves a
  window (`sync-conflict.error.ts:35`); a verification link signs in a deleted user.
- PIN: RG-S6 (`docs/07-securite-audit.md:49`, `:53`) says it never leaves the browser;
  the preferences send it (`POST /me/pin`). `lockMinutesRef` is never set from the
  profile. A PIN removed after the page loaded is still asked for, one set after it
  does not lock that page. RG-S7 (`:54`), "the lock hides the interface": the layout
  renders the page beside the gate, which covers nothing until the store has answered
  (`PinLockGate.tsx:83`), so it shows at every load. RG-S8 (`:55`): attempts are counted per page and per
  screen, and a lost logout keeps the session after five wrong entries. If the store
  fails after it, the page stays locked, and a PIN that was removed opens nothing.
- Offline: logging out in AppShell, or a failed refresh, never purges the cache
  (RG-OF3, RG-S4, `offline-cache.ts:1`, ADR-0008:48 say it does); two parallel first
  fetches each make a key (`sw.js:46`).

Categories, rules, forecasts
- RG-C4 (`docs/04-modules.md:75`, `docs/03-modele-donnees.md:244`): the delete of a
  category commits outside its transaction (`categories.service.ts:151`),
  `reassignTo` may be the category itself (`:134`), children of a removed parent are
  orphans, an update of an entry writes back the category it read (TX:406). Rules
  give a category without checking its kind (TX:246-258). The name of a removed
  tag can never be used again.
- RG-F1 (`docs/04-modules.md:251`): the cache is set after awaits and undoes an
  invalidation (`forecasting.service.ts:76-82`); recurrences, accounts and unbooked
  payments announce nothing. The forecast counts debts twice, subtracts
  installments owed to the user and those of deleted debts, skips PARTIAL ones,
  never projects late ones nor the rest of the month, and leaves months without
  expense out of the history and planned contributions out of the future.

Import, export, photos
- `docs/06-import-export.md:136` rolls a batch back as a whole; each row is a
  transaction of its own, and a row of zero makes a batch that can never be
  finished. Probable duplicates are looked for among existing rows only, within
  72 hours from midnight (`docs/06` section 7). The amount parser drops what follows
  a second decimal separator (`amount-parser.ts:36`); `isDayMonthAmbiguous` is unused.
- Delimiters: one title line without the delimiter hides it (`docs/06:46` promises a
  preamble); a header after ten title lines is missed. Spreadsheet cells have a
  point and ISO dates whatever the user said; the page always sends "," and " "
  (`import/page.tsx:77`), so amounts with decimals and dd/MM dates are refused.
- The export has six files where `docs/06:172` lists fifteen.
- Viewing a photo whose file is gone ends the process: the stream has no error
  handler (`attachments.controller.ts:46`). Uploads that are cut off leave files.

Pages
- A reload that fails after a committed write is told as the failure of the write;
  `onEnablePush` says success when it was refused; uploads have no catch; shared
  busy flags; Ctrl+Enter ignores them. Schedule, payments and attachments of the
  row opened before are shown under the next one (`debts/page.tsx:306-309`).

## 8. What is not modelled

- The audit log (an append nothing reads back), saved searches and saved column
  mappings (rows nothing depends on), mail and the providers of OAuth (external).
- Tags: renaming and the links to entries. Currency: fetching and editing rates.
  Export: what is gathered for the archive. Money kernel: all but `convert`.
  Forecasting: the amounts of the months. Web: markup, charts, the page of reports.
- Accounts: archiving; a removal against an entry that comes in. Debts: two
  requests at once, an end of the process between two writes.
- Wording, formatting and logging everywhere.

The components and their status are in `PROJECT.json`.

## 9. Plan

1. `DebtRequests`: the statements of `recordPayment`, `removePayment` and the sweep
   interleaved, against `Debts`.
2. The removal of an account in `LedgerRequests`; two budgets in `Budgets`.
3. The page of reports and the trends behind it, in `Reports`.
