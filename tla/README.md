# Verification of jielin-message

jielin-message takes messages from other systems of the company and pushes them
to users by SMS, WeChat, DingTalk, mail, app and websocket. This directory holds
TLA+ models of it, the TLC configurations that check them on small instances,
and proofs the TLAPS proof system checks. `src/...` paths in `PROJECT.json` and
below are paths of the repository; `J/` stands for
`src/main/java/com/jielin/message/` and `S/` for `src/main/resources/static/js/`.

## The system

| component | state it keeps | operations | talks to |
|---|---|---|---|
| Message table (`J/dao/mysql/MsgSendResultDao.java`, `mapper/MsgSendResultDao.xml`) | a row per message: `correlation_id`, `result`, `fail_num` | insert, updateStatus, selectByCorrelationId, selectMsgPushFail | producer, consumers, scan task |
| RabbitMQ (`J/config/RabbitConfig.java`) | queues `push_msg`, `retry_push_msg`, `fail_push_msg`; unacknowledged deliveries; outstanding confirms | publish, confirm, deliver, ack, nack, reject, dead-letter | producer, consumers |
| Async producer (`J/util/MessageSendAsync.java`) | none of its own but the id generator; per callback the row it read | sendMsg, confirm, (returnedMessage) | table, broker, id generator |
| Async consumers (`J/service/AsynPushMsgService.java`) | per listener the delivery and the row it read | process, processRetry, processFail | table, broker, synchronous dispatch |
| Scan task (`J/util/task/RetryPushMsgTask.java`) | the list it read | reportCurrentTime | table, broker |
| Id generator (`J/util/SnowflakeIdWorker.java`) | sequence, lastTimestamp | nextId, nextMillis | producer |
| Synchronous dispatch (`J/service/SynMsgPushService.java`, `J/synpush/MsgPush.java`) | thread-local parameters of a push | push, retry, recover | settings cache, channel handlers, send log |
| Channel handlers (`J/synpush/**`) | none, or a token | pushMsg, supports | providers, logs, tokens |
| Settings cache (`J/service/SettingService.java`) | cached push rules in Redis | cached reads, evicting writes | MySQL, Redis; read by the dispatch, written from the page of push rules |
| WebSocket alerts (`J/websocket/**`, `J/synpush/ws/WebSocketHandler.java`) | set of online users; undelivered alerts in Redis | connect, subscribe, disconnect, push | Redis, the STOMP broker, browser sessions |
| Admin frame (`S/admin.js`, `S/menu.js`, `S/home.js`) | menu, tabs, popup, navigation; the tabs in sessionStorage | menu requests, clicks, restore | menu endpoint, layui |
| Page of push rules (`S/push-list.js`) | table, form, dialogs, requests under way | search, add, edit, delete | push rule endpoints, layui |
| Tokens, platform map, alias binding, templates, API versions, security | see `PROJECT.json` | | |

How a message travels: a request thread runs `sendMsg`, which takes an id,
writes a row `SENDING` and publishes to `push_msg`. `process` reads the row,
pushes through every configured channel, writes `SUCCESS` and acknowledges. When
that fails it publishes to `retry_push_msg`, writes `CONSUME_FAIL` and
acknowledges. `processRetry` pushes rows that say `CONSUME_FAIL` and nacks what
fails again. A publish the broker did not confirm comes back to `confirm`, which
publishes to the retry queue and writes `ENQUEUE_FAIL`, or gives the message to
the fail queue after three failures. All of these run on different threads and
meet only in the table and the queues, with no transaction around anything.

A push looks the rules of the operation up in the settings cache, then calls one
handler after the other. Spring repeats a handler that throws, up to three
attempts, and then calls `recover`, which logs a failure with parameters it
finds in a thread-local; what leaves `recover` ends the loop in a `catch` that
does nothing. The handler of alerts sends to the user's browsers or, when the
user is not online, caches the alert in Redis until a browser subscribes.
Administrators edit the push rules on a page whose requests and dialogs can
overtake each other; it lies in a tab of a frame that keeps its tabs over
reloads in sessionStorage.

What is hard here: every handler is a read, an action outside the database, and
a write of what was read; two handlers of one message, one cache entry or one
Redis list can be between those steps at once. Calls throw in between, channels
close, the process stops. A delivery is redelivered, a publish is repeated, a
confirm is lost. The properties that make the service correct relate the places
a message leaves traces in: what the row says, where its copies are, whether it
was pushed, what the send log says of it, and what a browser has received. In
the pages the hard part is the order of events: answers that are late, a menu
that arrives in parts, callbacks of layui that run while something else changes.

## The modules

    SendResultTable    the table, and the bound on throwing calls
    RabbitBroker       queues, confirms, unacknowledged deliveries
    MessageSendAsync   sendMsg and the confirm callback
    AsynPushMsg        process, processRetry, processFail
    AsyncPipeline      the scan task, crash and lost channel, Next, fairness, properties
      Delivery         what the pipeline promises, an abstract specification
      MCAsyncPipeline, AsyncPipeline_proofs, Delivery_proofs, Copies_proofs
    SettingCache       the push rules and their cache entry
    PushDispatch       push, the handlers, retry and recover
      MCPushDispatch, PushDispatch_proofs
    WebSocketAlerts    sessions, cached alerts, pushes
      MCWebSocketAlerts, WebSocketAlerts_proofs
    SnowflakeIdWorker  ids
      MCSnowflakeIdWorker, SnowflakeIdWorker_proofs
    AdminTabs, LeftNav the menu and the tabs; the navigation and its mask
    AdminPage          both together
      MCAdminPage, AdminPage_proofs
    PushList           the page of push rules
      MCPushList, PushList_proofs

Each module extends the ones above it in its group and adds its own variables
and actions. The definitions marked as mutants are not used by any
specification; they state what a plausible bug would look like, so that each
property can be seen to notice one.

**SendResultTable.** `result` and `failNum` are the columns; a message without a
row has `NO_ROW`. Each statement is one step (auto-commit). `UpdateRow` changes
nothing when there is no row, as the SQL. `failures` counts, for the properties
only, the failure statuses written. A call that may throw takes the disjunct
`Fault` from the budget `MaxFaults`; an update that throws may still have
happened on the server.

**RabbitBroker.** A queue is a bag (`ready[q][m]` copies): redelivery and
dead-lettering leave no order to rely on. `stuck[q][m]` counts deliveries whose
listener threw and that nobody acknowledged: with manual acknowledgement they
stay so until the channel closes, and they take room in the prefetch window
(`Prefetch`; 250 in the container the code uses, so a small value makes the
limit reachable). `Publish` has three outcomes: stored and confirmed; refused and
nacked; stored but nacked, because the template reports a nack for each
outstanding confirm when the connection drops. `DeadLetterQueue` is the queue
`RabbitConfig.deadLetterBinding` really binds, the retry queue.

**MessageSendAsync.** `SendMsgInsert` and `SendMsgPublish` are the two halves of
`sendMsg`; a crash may fall between them. `confirm` is three steps,
`ConfirmSelect`, `ConfirmRepublish`, `ConfirmUpdate`: the third writes
`fail_num` from what the first read. Callbacks run on threads of the
connection's executor (`Confirmers`), several at a time. `ForeignPublish` is
another system that publishes to `push_msg` itself, as the repository's
`README.md` tells it to.

**AsynPushMsg.** Each listener container has one thread, so `handler[q]` holds
what the listener of `q` is doing: stage, message, the `fail_num` it read and
whether its channel still lives. Each database access, push and publish is a
step; the listener's last step acknowledges, rejects or nacks. An exception
where the code catches it goes to the stage of the `catch`; where it does not,
the handler ends (`Abandon`). `Push` is `SynMsgPushService.push` seen from the
listener: it throws in the look-up in front of its `try`, or at the commit of its
transaction behind the handlers, and otherwise returns, whatever the channels did.
`pushes` counts the calls that got to the handlers.

**AsyncPipeline.** `ScanSelect` reads the list, `ScanPublish` is one iteration of
its loop. `ChannelLost(q)` requeues what is unacknowledged on `q` while a handler
that is running goes on with a dead channel, so that the same message can be
processed twice at a time. `Crash` ends every thread between any two steps; table
and queues survive.

**Delivery.** The pipeline with everything inside it left out: messages are
taken, delivered, and recorded as delivered. `AsyncPipeline` implements it by the
mapping `Promise`: taken are the messages with a row, delivered those `push`
got through its handlers for, recorded those whose row says `SUCCESS`. Every step of a queue, a
callback, a retry or a crash is one step of `Delivery` or none.

**SettingCache.** `rules` are the enabled rules in the table of one operation,
platform and user type, `entry` their entry in Redis. A cached read is `Hit`, or
`Missed`, `Select`, `Store`; a deletion is `DeleteRow`, then the eviction of all
entries: Redis is asked for the keys (`EvictKeys`) and told to delete those it named
(`EvictDel`, which does not happen when there were none). `Expire` is the two hours
of `RedisConfig`. `gone` and `overlap` are history: the rules whose deletion has
returned, or whose eviction found no key, and whether a read has stored one of them
afterwards. `Select` reads the table as it is; behind an earlier statement of the
same MySQL transaction it may read an older snapshot, which makes the time between
select and store longer and nothing else.

**PushDispatch.** `job[t]` is what thread `t` is doing in `push`: the stage, the
current channel, the channels still to call (`todo`), the attempt and the answer
so far. The look-up goes through `SettingCache`. `First` gives the order of the
handlers: that of the rules, or that of the beans when the operation says
`pushAll`, where the rules do not matter. A handler is `Send` (it turns the
message away, or asks its provider), possibly `Resend`, then `Log`; `SendNothing`
is the system message, which is only its log; `SendSilently` are the paths of the
app handler that return without an entry. `Relog` is the second push of
`DingMsgPush`, which logs on its own and whose answer is dropped. `SendThrows`
and `LogThrows` start the next attempt or, after the third, `Recover`.
`RecoverThrows` is also the way out for a channel that has set no thread-local.
`answer` is "thrown" when what leaves `push` is an exception: of the look-up of the
operation or the entry that says it is unknown (`PushUnknown`), or of the commit
(`Return`). The logs are in MongoDB, so that no rollback takes an entry back.

**WebSocketAlerts.** `session[s]` is what the broker knows of session `s`;
`SUBSCRIBE` is handed to the broker's executor (`Register`, external) while the
event's handler already runs, so that the cached alerts may be sent before the
subscription is there. `onLine` is the user's place in `onLineUsers`. The handler
of a subscription is `ListCached`, `SendCached` for each alert, `DeleteCached`;
`pushMsg` is `CheckOnLine`, then `SendAlert` or `ListGet`, `Del`, `ListAddAll`,
then `LogPush`. Each call to Redis is a step. Any of them may throw, sending
included. `Throw` goes back to the beginning of `pushMsg`, as `@Retryable` does.
`Crash` forgets sessions, threads and the set of online users; Redis stays.

**SnowflakeIdWorker.** Threads call `nextId`, one at a time is inside the
monitor; `timestamp` is its local variable. The clock ticks and may be set back
at any moment. `Id` is the arithmetic of the shifts: time, node and sequence side
by side. `NextMillisLoop` is the loop body as written, which copies
`lastTimestamp` and does not read the clock. Timestamps count from the epoch of
the class, so that the 41 bits of time hold until 2089.

**AdminTabs, LeftNav, AdminPage.** An event handler runs to its end, so each is an
action; what lies between handlers (answers, timers, animations, the user) is
interleaved. `strip`, `active` and `bits` are layui's tabs, `stored` and `cur` the
two keys of sessionStorage. `IdOf` is the id `admin.js` gives a tab: the place of
the menu entry among all `li` elements at the moment of the click. The menu arrives
in parts (`MenuArrives`, `SubMenuAppended`) and the tabs come back after 100 ms
(`Restore`), so the user may click before either. layui itself activates a neighbour
when the active tab goes (`TabDelete`). `Without` is the filter of the popup's
"close others" and of `Restore`; it keeps the order of what stays. In `LeftNav`
jQuery queues the animations of the navigation, and a click reads a place it may
only be passing. `AdminPage` composes both: menu entries can be clicked while the
navigation is visible, and `Load` resets everything except sessionStorage.

**PushList.** `lists` and `posts` are the list and delete requests under way, the
former in any state between sent and answered. `formDialog` is the dialog that shows
the one form behind adding and editing, `dialog` the question or alert above it or
above the page: layer closes the one on screen, without its callback, when it opens
another, so that a refused delete can take the alert that was to reload the table.
Only the topmost can be used. `form` has the hidden id; `CleanUser` is the callback
that cleans it: a `select` that was rendered disabled has no handlers, so the clicks
the callback simulates do nothing then, and a radio button that was moved is not
moved back by an attribute. layer runs the `end` callback of a closed form 200 ms
after its dialog and shade are gone; here it is part of the closing. The first button
of the delete question leaves the question on screen; closing an alert by its cross
skips the reload.

`page` is the page layui's pager is on, `pages` those it offers, `pageCurr` the page
of the last answer, which `Load` asks for after a search and after a reload alike.
A page beyond the last is answered with the last one (`Reasonable`:
`pagehelper.reasonable` in `application.yml`, and the pager does the same with its
own number), so that a search from a later page is not answered with an empty one. A
new search or reload takes the pager away until its answer. The page-size selector
changes how many rows a page has, which is a constant here. An answer is one
reading of the rules, although PageHelper counts them and selects a page in two
statements. The server does what it is asked or does not, and its answer is read as
success, as refusal or as an error, in any combination.

## What is checked

Every run is one question; the constants are in its `.cfg` file.

| run | instance | question |
|---|---|---|
| `faults` | two messages (one may expire, one comes from another system), one confirm thread, 2 throwing calls, 1 nack, 1 crash or lost channel, prefetch 3 | does anything that breaks in the middle lose, invent or duplicate work? is every step one of `Delivery`? do the queues run empty? |
| `nacks` | one message, two confirm threads, 3 nacks, 1 throwing call, 1 crash or lost channel, 1 scan | does only what failed three times reach the fail queue? |
| `ids` | two threads, two ids in a millisecond, four milliseconds, clock set back twice | are ids unique and increasing? |
| `dispatch` | two messages, one of them for all channels; DingTalk, an app that may not log, the system message; 3 throwing calls; the rule of the app may be deleted at any point | what do the answer of `push`, the send log and repeated provider calls mean? when is a deleted rule still used? |
| `alerts` | two alerts, two pushing threads, two sessions, one throwing call or crash | what can lose, double or strand an alert? |
| `tabs` | a menu of two entries, one with a child; two queued animations | do the tabs, the storage, the popup and the mask agree, whatever is clicked when? |
| `push_list` | two rules, one on a page, one search, two list requests and a delete request for each rule at a time, one change | which rule is a submit about, how does a dialog begin, when are the table and its pager right? |
| `nack_loops`, `republish_skipped`, `resend_race`, `next_stop`, `ids_blocked` | the smallest instance that shows it | what a comment says and the code does not do (see Findings) |

Each module has one type invariant (`TypeOK`, `PageTypeOK`). The other properties:

*The pipeline* (`AsyncPipeline`)

- `KnownMessages`: whatever thread works for a message of this service, and
  wherever a copy is, its row is there. `confirm` and the listeners rely on it:
  `confirm` uses the row without a null check.
- `SuccessMeansPushed`: no row says `SUCCESS`, which makes both listeners skip the
  message, unless a push of it returned.
- `AckLeavesACopy`: until a publish is nacked, what `process` acknowledges unpushed
  keeps a copy in the retry queue until `processRetry` acknowledges that copy; no
  throwing call, crash or lost channel comes between. It does not say that the copy
  is pushed: `processRetry` may acknowledge it unpushed, which `resend_race` shows.
- `SingleCopy`: `push_msg` holds a message once, whatever is interrupted.
- `DuplicatesHaveACause`: pushes beyond the first are bounded by the calls that
  threw, lost channels and crashes. A crash counts twice, because both listeners
  can be behind their push when it comes. Neither nacks nor the scan task appear
  in the bound: the copies they publish are never pushed on top.
- `FailQueueAfterLimit`: what reaches the fail queue failed three times, although
  `fail_num` is written from stale reads by callbacks and listeners at once.
- `NothingLost`, `EventuallySettled`: until a call throws or a publish is nacked,
  a message that was published stays queued until it is pushed or rejected as
  expired, and in the end is one of the two. With nacks and throwing calls neither
  holds: see the findings.
- `KeepsPromise`: the refinement. Nothing is pushed that the table does not know
  and no row says `SUCCESS` before its push; what was delivered stays delivered.
- `QueuesDrain`: no message circulates between the queues for ever, although the
  dead-letter exchange puts a nacked retry back into the retry queue. It holds
  while fewer listeners threw than the prefetch window has places and calls do not
  throw for ever.

*The dispatch* (`PushDispatch`)

- `TrueMeansDelivered`: `push` answers TRUE only for a message some channel took,
  although the answer is the last handler's and an exception may leave the loop.
- `ChannelsAccounted`: when `push` has ended, every channel it set out to call
  has an entry in the send log, unless an exception of `recover` left the loop.
- `AcceptedIsLogged`: as long as no call throws, what a provider took is logged as
  taken, although DingTalk's second answer is dropped.
- `RepeatsHaveACause`: a provider is asked again only for the sake of the token or
  after a call that threw.
- `StaleHasACause`, `StaleIsTemporary`: a deleted rule is used only when a cached
  read overlapped its deletion, and not for ever.

*Alerts* (`WebSocketAlerts`)

- `LostHasACause`: an alert that was logged as pushed has reached a browser, or is
  in the list or in hands that will put it back, or was sent when no subscription
  could take it; unless two accesses to the list overlapped or one was cut short.
- `CachedOnce`: without those the list holds an alert once.
- `WaitingHasACause`: alerts wait beside an open, handled subscription only for a
  late push, the end of another session of the user, or a failed subscription.

*The pages* (`AdminPage`, `PushList`)

- `OpenTabsAreStored`, `ActiveRemembered`, `IdsAreUnique`: the strip and
  sessionStorage agree through opening, closing, closing others and restoring.
- `PopupNamesTab`: the popup never outlives the tab it is for.
- `MaskMeansNav`: the page is never dark with no navigation there or coming.
- `ClickShowsPage`: a click in the menu shows that page, over reloads too, unless
  some page was opened while a sub-menu was still missing: ids are places, and
  later ones move when a sub-menu is added above them.
- `IdNamesDialog`: the hidden id, which decides between insert and update, is
  that of the dialog on screen until it is sent, and never outlives it.
- `AddStartsBlank`: an add dialog opens blank unless an edit dialog was closed
  unsent before, or the radio button was moved; both leave something behind.
- `TableIsFresh`: at rest the table shows the page the pager is on of the rules the
  last search finds, and no empty page while there are rules, unless one of the
  causes the property names has occurred. Alerts that close each other and a page
  asked for that is past the end are not such causes by themselves: the first counts
  only when the alert that goes was to reload the table, the second never.

Several properties are of the form "only when": the bad state is reachable, and
what is checked is that the causes named are all there are. A cause is recorded by
a history variable at the step where it occurs, and each of these properties has a
mutant of the code that breaks it without that cause.

**Bounds.** `MaxFaults`, `MaxNacks`, `MaxCrashes`, `MaxScans` bound how often the
environment interferes with the pipeline. Two faults let a push and the catch
block behind it fail, or two attempts in a row; three nacks and a fault, or four
failures, pass the limit of three redeliveries; one crash at every point together
with the faults covers the redelivery of a half-processed message. Two confirm
threads are what the lost update of `fail_num` needs. The messages only share the
listener threads and the prefetch window, so two of them show the interleavings.
Message copies are not bounded otherwise.

In `dispatch` one thread is enough: threads share nothing but the cache, and an
overlap needs one reader and a deletion. The message for all channels reads the
cache, too, and leaves in it what the other one finds; the theorems cover any number
of threads. There is one rule or none, and the order of the handlers is that of the
beans; several rules in the order of their priority are in `next_stop` and in the
theorems. Three throws are the three attempts, after which `Recover` runs; a fourth,
in `recover` itself, is beyond the bound, but `RecoverThrows` is reached through the
channel that has set no thread-local. Each channel is a kind of handler: one that
asks twice, one that may not log, one that only logs. In `alerts` two of everything
give each pair of accesses to the list a chance to overlap. `MaxFaults` is at most 2
there, fewer than the attempts of `@Retryable`, so that `recover` is not reached.

`SequenceSize` 2 lets both a sequence that continues and one that overflows occur
within a millisecond, and four milliseconds with two set-backs let the clock pass
the same millisecond three times. In `tabs` a menu entry behind one with a sub-menu
is what makes ids move; the strip holds at most three tabs, as many as there are
entries, so the neighbours on both sides of a closed tab occur. Two queued
animations are a movement and the click into it. In `push_list`
two list requests can overtake each other, and one change can fall before, between and
after them. Two rules with one on a page make a pager of two pages, whose second is
gone when a rule is deleted. One search is repeated with what it finds changing; that
several searches find different rules, and that a page has room for more than one, is
for the theorem. Edited rules are disabled ones (`Radios`), so that what an edit leaves
behind differs from a blank form.

`CHECK_DEADLOCK FALSE` stands where the system may stop: every message is done, or
the clock or another counter is at its bound. The pages can always go on, and their
runs check for deadlock.

**Fairness.** In the pipeline the executor runs the callbacks, the listener
containers poll again after each delivery, and a request thread that has written
its row goes on to publish: weak fairness on each. Nothing forces a client to send,
time to pass, a call to throw, a channel to close or the scan task to run. For ids:
the clock ticks, the thread inside the monitor is scheduled, a free monitor is
taken. For `StaleIsTemporary` only Redis has to let entries expire
(`WF_vars(Expire /\ UNCHANGED jobVars)`); threads may stop anywhere. The alerts and
the pages have safety properties only, since nothing makes a user come back.

## Findings

- `nack_loops` (`NackReachesFailQueue`): `AsynPushMsgService.java:99` says a retry
  that fails is dropped into the dead letter queue. `RabbitConfig.java:67` binds
  the dead-letter exchange to `retry_push_msg`, so it comes back to the queue it
  was nacked from; `fail_push_msg` never sees it.
- `republish_skipped` (`RetryAckMeansPushed`): `confirm` and the scan task publish
  undelivered messages to `retry_push_msg` to have them delivered again, but
  `processRetry` pushes only rows that say `CONSUME_FAIL`, and acknowledges these
  messages, which say `ENQUEUE_FAIL` or `SENDING`, without a push.
- `resend_race` (`ResendIsRetried`): the catch block of `process` publishes the
  retry copy before it writes `CONSUME_FAIL`. If `processRetry` reads the row in
  between, it acknowledges and the message has no copy left.
- `next_stop` (`NextStopHonoured`): the column `next_stop` of a rule says that the
  rules after it are not pushed once it has succeeded (`V1__init.sql:10`,
  `MsgPushPo.java:37`). `SynMsgPushService.push` never reads it and calls every
  handler.
- `ids_blocked` (`NextMillisReturns`): `nextMillis` is to block until the next
  millisecond. Its loop never reads the clock, so it does not end, and the monitor
  of the generator is never free again.

## What is proved

For all sets of messages, threads, channels, alerts and sessions, all menus, rules
and searches, and all bounds the assumptions allow:

- `AsyncPipeline_proofs`
  - `TypeCorrect`: `TypeOK` is inductive. Its only subtle parts are that a counter
    is never decreased below zero, which each guard ensures, and that a handler
    that is not idle is a full record.
  - `SuccessCorrect` rests on the inductive invariant `ConsumptionInv`: a handler
    behind its push (`pushed`), or about to acknowledge (`finishing`), works for a
    message that was pushed or handed to the retry queue, and so does one that has
    published the retry copy (`resent`). Without it the last step, which looks only
    at the stage, would prove nothing.
  - `FailQueueCorrect` rests on `CountInv`: `fail_num` never exceeds the number of
    failures written, in the row, in every handler's copy and in every callback's
    copy. Stale copies are harmless because the true count only grows. Hence a
    callback that reads three or more has three failures behind it.
- `Copies_proofs`: `CopiesNext` says what any step does to the number of copies of a
  message in `push_msg`: nothing, the one publish of `sendMsg`, or a reject or ack
  by `process`.
  - `SingleCopyCorrect`, from `SingleInv`: before that publish there is no copy.
  - `NothingLostCorrect`, from `LossInv`: as long as nothing throws and nothing is
    nacked, `process` hands nothing to the retry queue, so that what was published
    is in `push_msg`, rejected or, by `ConsumptionInv` at the ack, pushed. A lost
    channel and a crash move copies between ready and unacknowledged and lose none.
  - `DuplicatesCorrect`, from `BudgetInv`: the pushes made, plus one for each thing
    that would still make the pipeline push (`Unsent`, a copy in `push_msg`,
    `process` in front of its push or behind one that threw, a row `CONSUME_FAIL`
    that `processRetry` is not already behind), plus the calls that may still throw,
    plus twice the interruptions to come, never grows. A push is paid by what made
    it possible; a call that throws leaves at most one such thing more, an
    interruption two: the copy in the hands of `process` and the row
    `processRetry` had yet to write.
  - `AckCorrect`: `AckLeavesACopy`. `ConsumptionInv` says that what was acknowledged
    unpushed was handed over; `HandedInv`, that what was handed over is held (`Held`):
    a copy of it is in the retry queue, or was acknowledged there. No step but an ack
    by `processRetry` takes a copy out of that queue (`HeldStays`), since its nack
    dead-letters into the same queue, and a publish that is not nacked puts one in.
- `Delivery_proofs`
  - `KnownCorrect`: `KnownMessages`. `KnownInv` adds what makes it inductive: the
    copies a listener left unacknowledged, the request threads between insert and
    publish, and the list of the scan task are of messages with a row. Rows are
    never deleted (`RowsStay`).
  - `KeepsPromiseCorrect`: the refinement. `KnownInv` gives that what is pushed has
    a row (`process` rejects a foreign message, which has none), `ConsumptionInv` that
    `SUCCESS` is written behind a push, `Fresh` that a request not begun has no
    row, so that `sendMsg` takes its message anew.
- `PushDispatch_proofs`: one inductive invariant, `Inv`, of the types, the cache
  (`CacheInv`), each thread (`ThreadInv`) and each message (`MsgInv`).
  - `DispatchTypeCorrect`, `DeliveredCorrect`, `AccountedCorrect`,
    `AcceptedCorrect`, `RepeatsCorrect`. `LoopInv` says what the loop has done: the
    channels neither current nor to come have their entry, a result that is true
    has a delivered channel behind it, providers to come have not been asked.
    Each throwing call pays for at most the calls of one attempt (`Past`), and the
    attempt that is going on adds one or two (`Most`). `EntryDue` is the entry that
    is still owed to a provider that took the message.
  - `StaleCorrect`: `CacheInv` keeps what the entry holds apart from deletions that
    have returned, or found no key, unless a read has overlapped; `LookInv` carries
    that through the stages of the look-up.
- `WebSocketAlerts_proofs`
  - `AlertsTypeCorrect`; `LostCorrect` by `LostInv`: while no accesses have
    overlapped, at most one holds the list, and what it holds is what the list held
    or still holds (`Holds`). `WaitingCorrect` by `WaitingInv`: while `late` is
    unset, the user is online as long as a session is open, and the list is empty
    behind a handled subscription. `OnceCorrect` by `OnceInv`, which adds that an
    alert being pushed is not in the list yet.
- `SnowflakeIdWorker_proofs`
  - `WorkerTypeCorrect`: the sequence stays within its bits.
  - `IdsCorrect`: `IdsIncrease`, from the invariant that no id is newer than the
    fields say; during an overflow the sequence is reset before `lastTimestamp`
    moves, so the invariant (`NewestSequence`) counts that millisecond as used up.
    `IdOrder` is the fact about the layout of an id it needs.
- `AdminPage_proofs`: one inductive invariant, `PageInv`, of the types, the tabs
  (`TabsInv`) and the navigation (`NavInv`). The parts of `TabsInv` need each other:
  the neighbour layui activates has an id of the strip, which is in the store only
  by `OpenTabsAreStored`; that closing a tab takes one entry from the store and no
  other needs `IdsAreUnique`; and the types need the active tab to be on the strip.
  - `PageTypeOKCorrect`, `OpenTabsCorrect`, `ActiveCorrect`, `IdsUniqueCorrect`,
    `PopupCorrect`.
  - `ClickCorrect`: `ClickShowsPage`, an action property. `StoredIds` is the
    invariant behind it: unless some page was opened too early, the id of a stored
    tab is the place of its page in the complete menu, over loads and restores;
    `FullIdInjective` then makes the tab with the clicked id the clicked page.
  - `MaskCorrect`, from the place where the last queued animation ends.
  - The lists rest on lemmas about what a step does to them: `AppendTab`,
    `ConcatTabs`, `RemovedTabs`, `WithoutTabs`. That a finite set of numbers can
    be listed in ascending order (`AscendingExists`), which `Without` depends on,
    is by the least number for which it would fail, since numbers are well-founded.
- `PushList_proofs`
  - `PageTypeCorrect`: the types. That an answer is shown on a page there is rests on
    `LastPageIsAPage`: a non-empty set of rules has a last page, which is by the least
    number of rules for which it would fail.
  - `IdNamesDialogCorrect`, `AddStartsBlankCorrect`, from `FormInv`: the selects that
    `CleanUser` clicks have handlers unless a form was closed unsent (`Cleaned`); the
    radio is moved by the user alone (`Radio`); and an add dialog nobody has touched
    is blank (`FreshBlank`), which `AddStartsBlank` follows from.
  - `TableIsFreshCorrect`, from `TableInv`: unless a cause has occurred (`blame`), the
    alert on screen will reload the table, or the newest list request is for the
    current search and page and will bring what is right, or is known to be stale
    (`NewestGood`), or the table is right and all that is under way has been overtaken
    (`Settled`). At rest there is neither an alert nor a request, which leaves the last.

The proofs assume what the modules `ASSUME` about their constants: bounds are
naturals, the prefetch window is not empty, `Foreign` and `Timed` are sets of
messages, rules name channels, priorities are naturals, a channel that drops its
second answer asks twice, the sequence and the number of nodes are positive, the
menu is finite, its entries have distinct places and as parent an entry or none, and
a parent is at the top (`MenuService` answers entries and their children, which have
none themselves), the rules of the page are finitely many and ordered by their ids, a
page has room for a rule, there is a search, and at least one list request may be
under way, since the page begins with one.

Only model-checked: liveness (`QueuesDrain`, `EventuallySettled`,
`StaleIsTemporary`). Under fairness it needs `ENABLED`, which the installed provers
do not handle, nor do they do induction over data (the library's induction theorems
take an operator as a parameter) or work in a module that reaches a `RECURSIVE`
operator. Every invariant, action property and refinement of a passing run has its
theorem. The findings are counterexamples and need no proof.

## Not modelled, and why

What the models leave out of the parts they cover:

- The content of a message, phone numbers, texts: nothing in the control depends
  on them.
- A second instance of the service. The repository configures one, with fixed
  node (0, 0) for ids. Ids over a restart with the clock set back are not covered
  for the same reason.
- A crash of the broker: queues are durable and messages persistent. A crash during
  a push is a crash between two steps of the pipeline, which takes `push` as one.
- `returnedMessage`: the template is built without `setMandatory`, so it is never
  called. A publish whose channel write fails silently without a nack: the template
  reports those as nacks when the channel closes, which `Publish` covers.
- Of the handlers: the entries the mail handler makes under the type SMS, and what
  is in a template. Of the alerts: header content (type 0), of which only the last
  value is kept, and other users, who share nothing with this one but the set.
- Of `admin.js`: the check of two-column tables, the height of the frame and the
  scroll buttons, which keep no state; of the login page: its background.
- The server of `PushList` is wider than the one there is. Today `ResponseDto` has
  the fields `status`, `error`, `body` while the page reads `data`, `code`,
  `message`, and `MsgPushDao.xml` uses a column and a property that the table and
  `MsgPushPo` do not have, so that lists, inserts and updates fail in one way; the
  model holds for any server that answers. `selectEnableByCondition` and
  `deleteById`, which `SettingCache` models, do not have that problem.

Whole parts:

- WeChat and DingTalk tokens: whether a token is good is decided by a provider of
  which the repository says nothing more; `PushDispatch` has the second call. A
  model of the stored token would check assumptions about the provider.
- The platform map is filled once at the start; its refresh has no caller.
- UniPush alias binding and JPush have no caller or no active bean.
- Templates, API version routing, controllers, security: stateless functions of
  their arguments, or framework configuration. MyBatis Generator output.
- Vendored code: the SMS SDK, layui, jQuery, `jparticle.jquery.js`, which draws the
  background of the login page.

What is left to do: the token refresh, the header of the alerts and a second node of
the id generator, each for the reason given above.
