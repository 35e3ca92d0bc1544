# A verification project for G-Master-API

G-Master-API is a gateway in Go between users with API tokens and some forty
providers of language, image, music and video models. It picks a channel (a provider
account), relays the request, retries on other channels and charges the user. The money
is the hard part: every request holds an estimate before its price is known, the hold is
adjusted or returned later by another goroutine, poller or process, and wallet,
subscription and token are three accounts that separate database calls move. Around it
are a console in the browser (React, `web/`), most of the repository's lines, whose
screens keep copies of what the server stores while calls overlap, and a desktop
application (`electron/`) that runs the server as a child process.

This directory holds TLA+ models of these parts, TLC configurations that check them on
small instances, TLAPS proofs for every instance, and the plan for the rest.
`PROJECT.json` lists components, runs, mutants, the map from definitions to source lines,
hazards, findings and theorems. Source paths below are relative to `src/`.

## 1. Inventory

| component | state | operations | talks to |
|---|---|---|---|
| billing session (`service/billing_session.go`, `funding_source.go`, `billing.go`) | in memory: hold, token hold, extra reserve, settled/refunded flags | NewBillingSession, preConsume, Reserve, Settle, Refund | quota store, subscriptions |
| violation fee (`service/violation_fee.go`) | none | ChargeViolationFeeIfNeeded | quota store, while a refund may be running |
| asynchronous tasks (`service/task_polling.go`, `task_billing.go`, `model/task.go`, `relay/relay_task.go`) | `tasks` rows: status, progress, quota | RelayTask, sweepTimedOutTasks, updateVideoTasks, updateSunoTasks, tryRealtimeFetch, RefundTaskQuota, RecalculateTaskQuota | providers, billing session, quota store |
| subscriptions (`model/subscription.go`, `service/subscription_reset_task.go`) | `user_subscriptions`, pre-consume records, orders | pre-consume, post-consume, refund, reset, expire, cancel, invalidate, delete | billing session, payments |
| quota store (`model/user.go`, `token.go`, caches, `utils.go`) | `users.quota`, `tokens.remain_quota`, their Redis copies, batches in memory | increase, decrease, batchUpdate | everything that charges |
| relay handler and retry (`controller/relay.go`, `service/channel_select.go`) | retry counter, group index | Relay, RelayTask, getChannel, shouldRetry | channels, billing session |
| channels and abilities (`model/channel.go`, `channel_cache.go`, `ability.go`) | channel rows, cached copies, multi-key status | select, disable, enable, delete | relay handler, task polling |
| realtime billing (`service/quota.go`, `relay/websocket.go`, `relay/channel/openai/relay-openai.go`) | usage counters of a websocket session | preConsumeUsage per response, PostWssConsumeQuota at the end | quota store, billing session |
| image jobs (`controller/image_generation_job.go`) | a `tasks` row and a goroutine | submit, run, finish, fail | tasks' sweep, billing session |
| payments (`model/topup.go`, `redemption.go`) | orders, codes | complete, recharge, redeem, transfer | quota store |
| desktop shell (`electron/main.js`) | child process, probes, windows, dialogs, quit flag | startServer, checkServerAvailability, createWindow, before-quit, tray, menus | the server, the operating system |
| playground (`web/src/hooks/playground`, `components/playground`, `pages/Playground`) | messages, requests, timers, localStorage | send, stop, regenerate, delete, edit, role, import, reset, clear | server (SSE or fetch), localStorage |
| console: settings (`web/src/pages/Setting`, `components/settings`, `helpers/api.js`) | a copy of the options, a form, what was loaded | list, edit, save by one PUT per option, refresh | options of the server |
| console: prices (`pages/Setting/Ratio`) | models as prices, the expression editor's form, text and rules | edit, switch, preset, save all models, rebuild | options of the server |
| console: tables (`web/src/hooks/*`) | rows, page, keyword, spinners | list, search, page, row operations | server |
| console: model tests (`hooks/channels/useChannelsData.jsx`, `ModelTestModal.jsx`) | results, models under test, stop flag | single test, batch, close | server |
| console: edit dialogs (`components/table/*/modals`) | the record edited, the form, closing timers | open, load, save, close | tables, server |
| midjourney, check-in, pricing, affinity, rate limits, desktop authorisation, two-factor login, adaptors, other screens of the console, logs | see `PROJECT.json` | | |

**What is hard.** Steps of two actors on the same rows (a refund goroutine and a fee, two
pollers and a sweep, a user's fetch and a poller); a copy of a row read before a network
call and written after it; one of two writes failing; a process that dies with a session
in memory; retries of a call that is not idempotent; timeouts racing late answers; a
limit reached by concurrent settlements. In the browser: calls answered in another order
than they were made, answers that arrive in a form that has become another one's, several
writes of which some fail, handlers that see the state of an old render, three copies of
one text kept equal by effects. `hazards` in `PROJECT.json` lists them with
their lines and the properties that would catch them.

**What makes it correct.** Every request ends having paid exactly what it owes, on the
funding source and on the token; nothing, fault or crash, ever leaves a user with a
profit; a subscription stays within its total; every task ends, is billed as its row
says, and is refunded at most once; every request and refund ends. What a screen shows is
what the server has, what it saves goes to the record it was meant for and changes nothing
else; no spinner and no batch stays for ever; an application that ends leaves no server.

## 2. Modules

| module | models | used by |
|---|---|---|
| `BillingSession` | sessions of concurrent requests over one wallet, token and subscription | everything below |
| `MCBillingSession` | symmetry | runs `billing_*` |
| `TaskPolling` | tasks from submission to their last billing step | |
| `MCTaskPolling` | symmetry | runs `task_*` |
| `QuotaLedger` | what the quota of subscriptions promises: the abstract specification | `SubscriptionQuota` |
| `SubscriptionQuota` | the transactions on subscriptions, with row locks and without; implements `QuotaLedger` | |
| `MCSubscriptionQuota` | totals and periods | run `subscription_quota` |
| `DesktopShell`, `MCDesktopShell` | the desktop application | run `desktop_shell` |
| `Playground` | a conversation, its requests and its stored copy | |
| `BillingExpr` | billing expressions as the price editor writes and reads them, and what they charge | `PricingEditor` |
| `PricingEditor` | the price editor and its expression editor | |
| `MCWebEditors` | either of `Playground` and `PricingEditor` | run `web_editors` |
| `SettingsForm` | a settings card under its screen; 26 cards | |
| `ConsoleTable` | a table page; 10 tables | |
| `ModelTest` | the model tests of a channel | |
| `EditDialog` | a dialog that edits a record; 6 dialogs | |
| `MCWebConsole` | one page of the four kinds | run `web_console` |
| `M`**`Proofs`** for M = `BillingSession`, `TaskPolling`, `SubscriptionQuota`, `DesktopShell`, `Playground`, `PricingEditor` | theorems about M, section 5 | |
| `ConsoleProofs` | theorems about `SettingsForm` and `ConsoleTable` | |
| `DialogProofs` | theorems about `EditDialog` and `ModelTest` | |

### BillingSession

One wallet, token and subscription (`wallet`, `token`, `subUsed`, `subActive`) are shared
by the `Requests`; the rest of the state is per request. `pc[r]` is the handler's
position, `bg[r]` that of the goroutine `Refund` starts. Session fields keep their names:
`preConsumed`, `tokenConsumed`, `extraReserved`, `trusted`, `settled`, `fundingSettled`,
`refunded`; `held` is `consumed` of the wallet source or `preConsumed` of the
subscription source. `record[r]` is the request's SubscriptionPreConsumeRecord.
`taken`, `tokTaken`, `feePaid` and `fault` are history.

| code | actions |
|---|---|
| NewBillingSession | `Begin` (preference, group rule), `TryWallet`, `WalletRefuses`, `WalletUnreadable`, `TrySubscription` |
| preConsume, PreConsumeTokenQuota | `CheckToken`, `TakeToken`, `TakeTokenFails`, `PreConsumeFunding`, `FundingInsufficient`, `FundingFails`, `RollbackToken` |
| Reserve | `ReserveFunding`, `ReserveCheck`, `ReserveToken`, `ReserveTokenFails`, `RollbackFundingReserve` |
| SettleBilling, Settle | `RelaySucceeds`, `SettleNothing`, `SettleFunding`, `SettleFundingFails`, `SettleToken` |
| Refund and its goroutine | `RelayFails`, `RefundWallet`, `RefundSubscription`, `RefundSubscriptionFails`, `RefundExtra`, `RefundToken` |
| ChargeViolationFeeIfNeeded, PostConsumeQuota | `ChargeFee`, `NoFee`, `ChargeFeeToken` |
| ExpireDueSubscriptions; the process dies | `ExpireSubscription`; `Crash` |

Every database call is a step of its own, so everything that can come between two calls
does. With `DBFaults` each call may fail without effect; the one exception is
RefundSubscriptionPreConsume, which runs two transactions: its first may commit and the
second fail.

Abstractions. A transaction is one step: the isolation is taken as serialisable. SQLite
gives that; on MySQL and PostgreSQL the code asks for row locks with
`tx.Set("gorm:query_option", "FOR UPDATE")`, which gorm v2 (`go.mod`) ignores, and what
follows from that is the question of `SubscriptionQuota`. Reads of
quotas are exact (no Redis copy, no batch updater: planned `QuotaStore`). One
subscription, one period. `Reserve` has no caller in the repository; it is modelled as a
call made once while the request is relayed. Requests for free models, which open no
session, are left out.

### TaskPolling

`status`, `complete` (progress is 100 %) and `reason` (a fail_reason beside a status that is not
FAILURE) are the row; `seen[p][t]` is the status in a
poller's copy, `answer` the provider's answer it is applying, `bill` what it is about to
charge or refund. `upstream[t]` is what the provider made of the task, `paid` and
`tokPaid` what it has cost.

| code | actions |
|---|---|
| RelayTask | `SettleSubmission`, `Insert` |
| sweepTimedOutTasks | `ListTimedOut`, `SweepTask` |
| TaskPollingLoop, updateVideoTasks | `ListUnfinished`, `ChannelFound`, `ChannelMissing`, `RoundOver` |
| updateVideoSingleTask | `FetchTask`, `FetchNothing`, `ApplyAnswer` |
| updateSunoTasks | `FetchBatch`, `SunoItem`, `SunoFailure`, `SunoSave` |
| RefundTaskQuota, RecalculateTaskQuota | `AdjustFunding`, `AdjustToken` |
| tryRealtimeFetch | `FetchStart`, `FetchAnswer`, `FetchWrite` |
| providers, time, administrators, crashes | `UpstreamEnds`, `TimeoutPasses`, `DeleteChannel`, `Crash` |

An answer is a status, `AT100` (not final, with a progress of 100 %, which overrides the one the
status implies: `task_polling.go:477`), or from Suno a reason beside a status that is not final
(`FAILING`) or is SUCCESS (`TAINTED`), for which the task is refunded just as for a failure.

Abstractions. SUBMITTED and QUEUED are folded into IN_PROGRESS, which the code treats
alike. All tasks of an instance share a channel. The limits on rows per round, tasks
without an id (old data) and free tasks (which are never billed) are left out. The set of
legacy tasks is a constant (the cutoff in the code, `service/task_polling.go:51`, is
2025-02-22, its comment says 2026-02-22).

### SubscriptionQuota and QuotaLedger

`row[s]` is a subscription (status, used, the period its next_reset_time closes),
`record[r]` the idempotency record of a request. Time is `clock[s]`, the period it is by now,
and `past`, the subscriptions whose end_time has passed; the number of periods is bounded
per subscription (`MaxPeriods`). A transaction reads rows and the time into `snap[p]` and
saves the rows whole in a later step, so two of them overlap, and a period may end between the read
and the save: whether a row is `Due` is decided with the time that was read. `locks` is chosen at the start:
with it rows that were read stay locked, without it they do not. The code asks for locks
with `tx.Set("gorm:query_option", "FOR UPDATE")`, which gorm v2 ignores; SQLite serialises
transactions all the same.

| code | actions |
|---|---|
| PreConsumeUserSubscription | `PreRead`, `PreWrite` |
| PostConsumeUserSubscriptionDelta (settlement) | `SettleRead`, `SettleWrite` |
| RefundSubscriptionPreConsume, refundWithRetry | `RefundRead`, `RefundWrite` (the inner transaction), `RefundSave`, `FailAttempt` |
| ResetDueSubscriptions, ExpireDueSubscriptions, cleanup of records | `ResetList`, `ResetRead`, `ResetWrite`, `Expire`, `Cleanup` |
| AdminInvalidateUserSubscription, AdminDeleteUserSubscription | `AdminInvalidate`, `AdminDelete` |
| time; a call that fails | `PeriodEnds`, `SubscriptionEnds`; `Fails` |

`QuotaLedger` has no transactions: a booking or a new period is one step on what is used and
on what each request holds of it. The refinement maps `used` to the rows and `exact` to the
subscriptions whose books are still right: none without locks, and with locks all except
those in `slipped`, on which a request gave back more than it held. `SlipsExplained` says
that this needs a failed call or a period that has ended, with row locks and without.

### DesktopShell

The main process of Electron is single-threaded: a callback is an action. The child is
`proc` and `handle` (the variable serverProcess), `started` the promise of startServer,
`attempt`, `inflight` and `waiting` the probes. A probe that times out is destroyed, which
raises its error handler too, so that both schedule a next probe (`ProbeTimesOut`).
`foreign` says that somebody else answers on the port. A quit is `TrayQuit`, `SystemQuit` or
a dialog's, then `BeforeQuit` waits for the child's end or 5 s (`OnClose`, `QuitTimer`).

### Playground

`message` is what is shown, `stored` the copy in localStorage, `soon` and `later` the timers
of 0 and 100 ms, `modal` the open dialog with what its closure captured. A message's text
is the set of requests it came from. Reports of requests (`Chunk`, `Done`, `BadChunk`,
`StreamError`, `StreamBreaks`, `FetchEnds`) change the last message, as the code does, not
the one the request was made for. `AnswersNotMixed` is what must be true as long as the request's own
answer is being generated. Once that has ended (cleared away, or failed by a bad chunk) its stream may
still run, and does write into the next answer; the code has no guard against it and no property
speaks of it. `StoreRefuses` is a write to localStorage that throws, which `saveMessages` only logs.
`QuickUser = FALSE` means that a user does nothing within the 100 ms before a regeneration
is sent; with `TRUE` two answers are generated at once and `OnlyLastGenerates` fails.

### BillingExpr and PricingEditor

The expression of a model is `(base) * (condition && ... ? multiplier : 1) * ...`. A text is
kept as what it means to a parser (a disjunction of conjunctions of facts), and parsing is
modelled with its defects: conditions are cut at every `&&` outside parentheses, so a
comparison or a search of a parameter, whose own text has one, is written but not read
back; factors are cut at every `*`, whatever operators are beside it. What an expression
charges is evaluated in every situation of a request (which facts hold).

`opt` are the options of one model, `m` the hook's model, `ed` the expression editor: its
mode, form (`cfg`), text (`raw`) and rule groups. React effects that keep these equal run
with the handler that causes them. A save sends one call per option, of which all, none,
one or all but one succeed. The properties name what the code gets wrong: `Exempt` (an input price that
is emptied sends the loaded ratios back; one of 0 loses the ratios; a model that was billed
by an expression does not know that its completion ratio is fixed; an empty expression is
not saved), `Misread` (a sum whose last term has a factor is read as if the factor were the
sum's; a missing expression is shown as prices of 0), `behind` (the editor stays mounted
when options are loaded anew, or shows a text without the model's rules).

### SettingsForm, ConsoleTable, ModelTest, EditDialog

Screens of the console are copies of a few templates. `SettingsForm`, `ConsoleTable` and
`EditDialog` model the template once and describe every card, table and dialog by the points
in which its code differs (`Cards`, `Tables`, `Modals`); the description is chosen at the
start. `Spread` is the object `{ ...g, ...f }` of JavaScript. `SettingsForm` has the server's options, the screen's, the form and what was loaded,
up to two saves of several PUTs each and the listing in flight; equal GETs in flight are
merged, as `web/src/helpers/api.js` does. What a card loads is not always what is listed: `reads`,
`Unread` and `Instead` say which values it cannot show and what it shows for them (a number of 0
in SettingsPerformance, a text that does not parse in SettingGlobalModel, an empty menu, a price
of 0 in the Waffo card), `Canon` which spellings it chooses; `ValueOf` is what it sends for a field. `ConsoleTable` has the calls in flight, answered in
any order, and what the page remembers. `ModelTest` has the batches, which go on after the
dialog was closed and see only the stop flag. `EditDialog` has loads, saves and closing
timers that outlive the dialog they were made for.

`CleanIsStored` names two cards it leaves out where they are wrong: with 0 stored the first shows the
number it had and takes it for loaded, with such a text stored the second takes its default for
loaded. For other values, and the 24 other cards, it holds.

Histories keep apart what the code does not handle, and every property says which of them it
excepts: `stale` (a save answered by a listing read before it), `upset` (listings that
overlap on a table that does not number them, a row operation over a listing, a fault, a
refresh that names no page), `upsets` (a dialog opened over a load or save, before the last
one was forgotten, sent before it was loaded, emptied by a refused save). Without these
exceptions TLC refutes the properties within a few steps: a user's values saved under
another user's id, rows of a page that is not the one shown, an update that creates.

External, from how `src/` uses them: a Semi button that shows `loading` cannot be pressed, a
spinner covers what it surrounds, a side sheet drops its form after closing, tab panes stay
mounted; axios has no timeout but a call ends one day.

## 3. Runs

| run | instance | shows |
|---|---|---|
| `billing_exact` | 2 requests, wallet 4, token 5, subscription 4, trust above 3, fee 1, no faults | `ExactCharge`, `LedgersAgree`, `SubscriptionLedger` |
| `billing_faults` | 2 requests, every call may fail, the process may die anywhere | `TypeOK`, `NoProfit`, `SubscriptionWithinTotal` |
| `billing_liveness` | 2 requests, the group decides the source, faults and crashes | `EventuallyOver` |
| `billing_refund_retry` | subscription only, faults | violates `RefundIdempotent` |
| `task_video` | 1 task, 3 pollers, faults and crashes, limited subscription | `RefundWithinCharge`, `ChargeMatchesStatus`, `FinalIsFinal` |
| `task_suno` | 2 tasks (one legacy), 1 poller, faults and crashes | `ChargeMatchesStatus` |
| `task_liveness` | 1 task, 2 pollers, 1 fetcher, a channel that may go | `TypeOK`, `EventuallyFinal` |
| `task_realtime_reopens` | 1 poller, 1 fetch | violates `RefundWithinCharge` |
| `subscription_quota` | 2 subscriptions (limited), 2 requests, one period that ends, one subscription that ends, one failing call, with and without row locks | `TypeOK`, `UsedWithinTotal`, `RefundedOnce`, `SlipsExplained`, `EndedStaysEnded`, and that `QuotaLedger` is implemented |
| `desktop_shell` | both modes, 3 retries, 2 windows, 2 requests to quit | `TypeOK`, `NoOrphan`, `ProbesBounded`, `QuitEnds`, `StartEnds`, `ForeignReported` |
| `web_editors` | playground: 2 requests, 4 messages, 4 acts; prices: 2 edits, 2 saves, 1 failure or refresh | `OnlyLastGenerates`, `AnswersNotMixed`, `StreamedAnswerStored`; `ShownIsCharged`, `UntouchedKeepsPrice`, `EditorShowsPrice` |
| `web_console` | settings: 2 saves, 2 edits, 1 fault; tables: 2 pages (`NPages`), 4 calls, 1 fault; tests: 2 channels (`NChannels`), 3 models, 2 at a time, 2 batches; dialogs: 2 records (`NRecords`), opened twice, 1 fault | `CleanIsStored`, `FieldsKept`; `FreshRows`, `PagerAgrees`; `ShownIsTested`, `SummaryComplete`; `OwnContents`, `IntentKept`; for all pages `PagesSettle` |

**Bounds and why they are enough.** Two requests are all that the shared accounts need:
whatever other requests do to a request is a change of three numbers, and one other
request can make every such change between any two of its steps. The quotas are chosen so
that two requests together exceed the wallet, the token and the subscription and one does
not, that the wallet is above and below the trust threshold, that a settlement goes up,
down and nowhere, and that a reserve is granted and refused by the token. For a video task
three pollers allow two winners of different guarded updates and a loser; the sweep may be
any of them. Suno's batches need two tasks (one answered, one not). `MaxRefunds` (2 with two Suno tasks, else 3: a first refund and one more than there may be) and
`MaxFetches` stop loops which the code does not bound; they are named in the
guards. Two subscriptions of which one ends let a request be moved to the other; a second
period, end or fault repeats the first. Probes: 3 retries are the fewest with which two
chains of probes can overtake each other. Four acts are a question, its answer, one edit of
any kind and a reload (a save that fails counts as one); two requests are enough to report in the wrong order. Two price edits
reach a change of mode with a change in it, two saves a save of what the first one left. Two
saves, or listings, or openings are what overlaps; `EditDialog` alone was also checked with
three openings (636 321 states). 3 models in chunks of 2 have a full and a last chunk.
Pages of the console share no state, so `MCWebConsole` and `MCWebEditors` open one of
them per behaviour. Deadlock is not checked where the user may simply stop.
`Requests` and `Pollers` are symmetric in the runs that check no liveness.

**Fairness.** `BillingSession`: weak fairness of each refund goroutine and of each handler
except while it waits for its provider, since goroutines are scheduled and database calls
return; nothing is assumed about which outcome a call has, nor of the provider (the HTTP
client has no timeout unless RELAY_TIMEOUT is set, `service/http_client.go:47`), and a crash
ends a request. `TaskPolling`: weak fairness of each poller's round (TaskPollingLoop is an
endless loop started with the process and does not crash in the liveness run), of Insert,
and of time passing. A provider need never answer: the sweep alone makes tasks end, so the
liveness run has it switched on. A request to a provider must end, though, which the code
guarantees only with RELAY_TIMEOUT (`FetchesEnd`): the sweep and the polling are one loop,
so a provider that hangs stops both. With `FetchesEnd = FALSE` TLC refutes
`EventuallyFinal`. `DesktopShell`: callbacks and timers of the main process run and probes
end (they have a timeout of their own); nothing is assumed of the user, and a server that was sent SIGTERM need
not obey. `MCWebConsole`: what the browser does by itself goes on (`Goes`: calls are
answered, refused or fail and are handled, timers fire); nothing is assumed of the user. The
console sets no timeout for its calls, so that a call ends is an assumption about the
network.

**What a mutant is.** Each property of a passing run has in `PROJECT.json` one plausible
bug of a mapped definition under which TLC reports it violated: a clamp, a guard or an
exemption dropped, a reserve given back twice, a retry without end.

## 4. Findings

* `model/subscription.go:1300` RefundSubscriptionPreConsume returns the usage in a
  transaction of its own before its record is saved; a retry after a failed save returns it
  again, although the comment calls the function idempotent and `refundWithRetry` depends
  on it. (`billing_refund_retry`)
* `relay/relay_task.go:477` tryRealtimeFetch reopens a task that timed out and was refunded;
  it is refunded again later. It may also write FAILURE without a refund.
  (`task_realtime_reopens`)

Seen while modelling, without a run of their own; the properties except them by name or by
a constant:

* `service/task_polling.go:322` the tasks of a channel that cannot be loaded fail through
  TaskBulkUpdateByID, whose comment (`model/task.go:433`) forbids that use, and are not
  refunded (`ChannelMayGo`).
* `service/task_polling.go:245` a Suno task is refunded before its failure is saved: a crash
  in between refunds it twice. `:242` a Suno item that comes with a reason is refunded whatever
  its status: one that succeeded is saved as SUCCESS and has cost nothing.
* `service/task_polling.go:477` an answer that is not final but says 100 % takes the row out of every
  listing: it is not polled, swept or refunded again and keeps its charge (`TakenForDone`).
* `controller/relay.go:574` RelayTask stores the settled quota although the settlement
  failed; `:595` an insert may fail after the charge; one transient provider error ends a
  task; an item of a Suno answer that was not asked for is a nil task.
* `model/subscription.go:1216` without row locks a settlement loses another one's booking,
  and a row read before a cancellation is saved as active again.
* `web/src/pages/Setting/Performance/SettingsPerformance.jsx:229` a threshold of 0, which the form
  allows, is loaded as the number the form had (90 after a reload) and taken for loaded, so that
  this number cannot be saved; `web/src/pages/Setting/Model/SettingGlobalModel.jsx:149` does so with a
  text that does not parse, which its `onSubmit` lets through (`Unread`).
* `web/src/components/playground/configStorage.js:54` a conversation that cannot be stored is only
  logged (`StoreRefuses`).
* the other exceptions of the console's properties, above.

Note what `billing_exact` means by "owes": a settlement that the subscription refuses is
only logged, and the request keeps what it had pre-consumed.

## 5. Proofs

Every theorem holds for all values of the constants that satisfy the named assumptions of
its module, which only give their types (`QuotaAssumption`, `FlagAssumption`,
`DialogAssumption`, `TestAssumption`, `TableAssumption`, ...). In particular the bounds that
stop TLC (`MaxRounds`, `MaxCalls`, `MaxFaults`, ...) are arbitrary. Hypotheses beyond that are
part of the statement. Each inductive invariant was checked by TLC on the run's instance
before it was proved. A proof has one case per action; where many actions do the same to the
part a property is about, a lemma first says which of a few kinds a step is (`Kind` for
subscriptions, `TaskStep` for tasks, `Frame` and `Same` for sessions) and the invariants are
proved for the kinds.

| module | theorem | states |
|---|---|---|
| `BillingSessionProofs` | `TypeCorrect`, `ChargeIsExact`, `LedgersAlwaysAgree`, `TotalIsRespected`, `NobodyProfits`, `SubscriptionBooksExact` | `TypeOK`, `ExactCharge`, `LedgersAgree`, `SubscriptionWithinTotal`, `NoProfit`, `SubscriptionLedger` |
| `SubscriptionQuotaProofs` | `TypeCorrect`, `WithinTotal`, `RefundsOnce`, `SlipsAreExplained`, `EndedForGood`, `ImplementsLedger` | `TypeOK`, `UsedWithinTotal`, `RefundedOnce`, `SlipsExplained`, `EndedStaysEnded`, `LedgerImplemented` |
| `TaskPollingProofs` | `TypeCorrect`, `VideoRefundWithinCharge`, `VideoChargeMatchesStatus`, `VideoFinalIsFinal`, `SunoChargeMatchesStatus`, `SunoFinalIsFinal` | `TypeOK`, `RefundWithinCharge`, `ChargeMatchesStatus`, `FinalIsFinal` |
| `DesktopShellProofs` | `TypeCorrect`, `ServerNotLeftBehind`, `ProbesAreBounded` | `TypeOK`, `NoOrphan`, `ProbesBounded` |
| `PlaygroundProofs` | `StreamedAnswersAreStored`, `OnlyLastIsGenerated`, `AnswersAreNotMixed` | `StreamedAnswerStored`, `OnlyLastGenerates`, `AnswersNotMixed` |
| `PricingEditorProofs` | `UntouchedPricesKept` | `UntouchedKeepsPrice` |
| `ConsoleProofs` | `NoFieldIsLost`, `CleanMeansStored`, `RowsAreFresh`, `PagersAgree` | `FieldsKept`, `CleanIsStored`, `FreshRows`, `PagerAgrees` |
| `DialogProofs` | `SpinnersAreTests`, `SummariesAreComplete`, `RecordsKeepTheirContents`, `SavesGoWhereMeant` | `ShownIsTested`, `SummaryComplete`, `OwnContents`, `IntentKept` |

**BillingSession.** `BillingInv == TypeOK /\ StepInv /\ LedgerInv`. ExactCharge speaks only of
requests that are over, so it says nothing about the step before; `LedgerInv` says at every
label of the handler and of the goroutine what each account has paid in terms of the
session's own fields. TypeOK alone is not inductive either: that holds stay natural numbers
needs that the difference in flight is not negative and that a wallet reserve is part of the
hold it rolls back (`StepInv`). `OwnLedger` is the request that moves, `Frame` and
`SameLedger` all others. `TotalIsRespected` reduces every movement of funding to a credit or a
debit that was checked. `NobodyProfits` holds with faults, where LedgerInv says nothing:
`CoveredInv` bounds from below, at every label, what a request has paid by what it may still
get back. `SubscriptionBooksExact` compares one number with a sum over the requests; the sum is the
cardinality of a set of units (`Units`), so that a step which moves one request's amount by d
moves the sum by d without an induction (`UnitsSplit`, `UnitsMove`). It also needs that a goroutine
does not outlive a crash (`NoOrphans`).

**SubscriptionQuota.** `Inv` has, next to types and positions, `LimitInv` (what is about to be
saved respects the total, however stale), `LockInv` (with locks, a row read is the row
there is), `LedgerInv` (with locks, used is the number of units held, except on subscriptions
that slipped), `RefundInv`, and `SlipInv` (nothing failed and no period ended: every request
holds what its record says). `ImplementsLedger` is the step simulation: every step is a
booking, a new period, both at once on one or several subscriptions, or a stutter of
`QuotaLedger`.

**TaskPolling.** The video theorems assume `VideoAssumption` (platform video, no realtime
fetches: a fetch does violate RefundWithinCharge, run `task_realtime_reopens`).
`VideoRefundWithinCharge` also assumes that no estimate is below the quota: RelayTask stores the
settled quota although the settlement may have failed (`controller/relay.go:574`), and a task
that was charged less than its row says is refunded more than it paid. It covers channels
that go away; the other two assume `~ChannelMayGo` as `task_video` does. `CopiesInv` says that a
poller's copy is of an unfinished row, `OnceInv` that at most one poller has a bill for a task
and only after it won the guarded update, `CoveredInv` that what a bill would return has been
paid, `ExactInv` that an undisturbed task has cost what its row says less the bill in flight: also of
a task put at 100 % unfinished, which keeps its charge.
The Suno theorems assume `SunoAssumption` (the instance of `task_suno` for any number of tasks: no
fetches, a channel that stays, one polling process). One process is how the code is meant to run
(`main.go:128`: only the master node polls), and the property needs it: nothing guards the saves
of `updateSunoTasks`, and a second poller with an old copy refunds again.
`SunoInv` says per task that the poller's copy is of
an unfinished row (`SunoRow`, `SunoCopy`), and at each label of a bill what the task has cost
(`SunoBill`, `SunoCost`): a refund comes before the row is saved, so between the two the
cost and the row disagree. A row with a reason has failed for `ChargeMatchesStatus` (`Failed`),
since it was refunded, even when its status is SUCCESS.

**DesktopShell.** `Held`: the variable serverProcess names a server that runs, so a quit
finds it. `Budget`: a probe in flight counts for the two timers it may still set; the bound on
probes is not inductive without counting both.

**Playground.** `CoverInv`: a streamed answer that is shown as complete is in the copy that the last
timer of 0 ms will store, or is stored if no such timer waits. The order matters: every save is of
the whole conversation, so an older save that runs last would undo a newer one. It holds for
every user, and with saves that fail: the later timers store the newer conversation, and after a
failed save nothing is claimed until the next one (`wiped`). The other two theorems assume `~QuickUser`; with a quick user they are false
(`handleMessageReset` waits 100 ms before it sends, and a message sent in between is answered at
the same time). `CalmInv` says why that is the only exception: while a timer of 100 ms runs nothing
is generated (`Waits`), a dialog that deletes was opened in a quiet conversation and stays so, and
the one that brings an edited question back holds a conversation with at most its last message in
progress (`Asks`). `ApartInv`: the conversation that dialog holds is as long as the one shown and
no message of it says more (`Behind`), and what the request of an unfinished answer reported is at
one place, in the conversation, in every copy and behind the dialog (`Apart`).

**PricingEditor.** `PriceInv` follows a model nobody changed through any number of partial saves and
refreshes. Billed by an expression (`TieredInv`): server, model, editor and a save in flight hold
the base and the rules of the first expression, although these are cut differently when a rule
cannot be read back. Billed by ratios or a fixed price (`RatioInv`): the hook's model was built from
options that say the same, `SameRatios`, which a locked completion ratio and prices that
are products of ratios make weaker than equality. `RatiosRoundTrip` (ratios to prices and back)
and `SplitSaved` (an expression cut and joined) are the lemmas about the data. `AtPlaces` keeps the
groups that have a text, by their places instead of with SelectSeq, so that this needs no
induction.

**SettingsForm.** All 26 cards satisfy `Regular` (what their descriptions have in common; proved for
each), from which the steps are proved once. `CleanInv` follows an option from the save
that carries it to the listing that brings it back: in hand, asked for, read, or shown.
`AnsweredInv` and `Shapes` tell when a save has ended, `FieldsInv` which options a form has.
`CleanMeansStored` excepts the values in `Unread`, of which only two cards that compare have any.

**ConsoleTable.** `FreshInv`: at most one answer in flight will be used, and it is the one asked
for last; `CaptureInv` for row operations, whose closures hold the rows of an old render;
`PagerInv` for the page number, which the channels page does not take from the answer.

**ModelTest.** `Owned`: a test of a batch belongs to a batch that waits for it; `Reached`: models up
to the batch's position have a result or are under test.

**EditDialog.** `FormInv` and `PutsInv` (the load in flight is the shown record's, a save carries a
record's own values to it), `Forgotten` and `Meant` (timers and what the page remembers).

**What the proofs changed.** Three attempts failed because a definition was not what it seemed: a
CASE in `TaskPolling` and one in `PricingEditor` had overlapping arms, of which TLC takes
the first and the semantics any (now IFs); the reset of a subscription read the time at its
save, not, as the code does, when the transaction starts. `SlipsExplained` turned out to hold
without row locks too and now says so.

**Only model-checked.** Liveness (`EventuallyOver`, `EventuallyFinal`, `QuitEnds`, `StartEnds`,
`ForeignReported`, `PagesSettle`): fairness is out of the prover's reach. `EditorShowsPrice`
compares what two texts charge in every situation, and the texts are folded from rules the user
may edit to any length: for every input that needs induction over data. `ShownIsCharged` is a
statement about `Ratio` and `Times`, which look for a quotient among the bounded numbers
the run uses; edits without a bound leave them.

## 6. Plan

Proofs that could follow: `ShownIsCharged` with fractions as pairs of integers in place of
`Ratio` and `Times`; the refinement of a specification of one task's bill by `TaskPolling`.

Modules that would follow, in the order of what they add: `RealtimeBilling` (a websocket
session that charges each response and settles the sum), `ImageJob` (the job's goroutine, its
row, restart and sweep), `ChannelSelect` (the retry loop over groups and priorities),
`QuotaStore` (Redis copy and batch updater), `Payments` (webhooks, codes, transfers). The
number of runs is kept to a dozen: a new module joins a run with pages or processes it
shares no state with, as the console's do.

## 7. Not modelled

Most lines of the repository are the console's JSX: layout, columns, charts, wording, and
helpers that turn a record into elements (`helpers/render.jsx` alone has 3353 lines). They keep
no state that outlives a render, and a model of them would be a second copy of the text. The
map therefore covers a small share of the JavaScript, about 7 %: the hooks, handlers and
effects in which calls, timers and copies of server state meet. What is left of that kind:
the dashboard's list editors, SystemSetting and OtherSetting, ParamOverrideEditorModal (a
form over a JSON text), CreateDeploymentModal, top-up pages, tags, subscription plans, Ollama
and multi-key dialogs, and the second factor asked for before sensitive operations.

On the server: provider adaptors, arithmetic of prices, logs and statistics, identity
providers, request bodies and files, translations (reasons in `PROJECT.json`).
