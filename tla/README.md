# Lampyris Crypto Lite: TLA+ specifications

Lampyris Crypto Lite is a small trading system for Binance futures: a C# server that
mirrors quotes and an account and pushes them to clients, a Qt client, and a chain of
three programs that release the client's files to its users. This directory models the
parts of it in which threads, callbacks, network messages and failures meet, checks the
models with TLC and proves the main results with TLAPS.

Paths below are relative to the repository. `S` stands for
`Lampyris-Crypto-Server-Lite/Sources/Core/AppSystem`, `C` for
`Lampyris.CSharp.Common/Sources`.

## 1. The system

### Components, their state and their operations

| Component | State | Operations | Talks to |
|---|---|---|---|
| `CircularBuffer<T>` (`C/Container`) | slots, head, tail, count | `Add`, indexer, `ToArray` | used by the candle cache |
| `QuoteService`, candle cache (`S/Quote`) | a ring of candles per symbol and interval, the trade rules | start-up query, subscription, `OnKlineUpdate`, averages, daily refresh, `QueryNthRecentlyCached...` | Binance REST and kline stream; read by the tickers |
| `QuoteService`, history | none of its own | a query of past candles, in pages | Binance REST |
| `QuoteService`, tickers, and `MarketSummaryData` | the ticker list, the summary with its intervals of changes | `OnTickerUpdate`, recalculation | candle cache, `WebSocketService`; summed up by the client's chart |
| `QuoteService`, the rest | mark prices, subscriptions | one callback each | |
| `TradingService`, account (`S/Trading`) | leverages, positions, open orders | `OnStart`, the callbacks of the user data stream, the position query | Binance REST and user data stream |
| `TradingService`, orders | none of its own | `PlaceOrderAsync`, cancel, `APIKillPosition` | `CoroutineManager`, Binance |
| `WebSocketService` (`S/NetWork`) | connection map, message queue, one thread per connection and a send thread | accept, receive, shut down, push, broadcast | clients, every service |
| `UploadLoggerService`, `Logger` (`S/Logging`, `C/Logger`) | history of lines, one message object | `Log`, daily clearing | every thread that logs; broadcasts through `WebSocketService`, which logs itself |
| `ResourceServer` | a directory of files and a `version.json` | `/version`, `/download`, `/upload` | tool and launcher |
| `ResourceVersionControlTool` | the resource folder and its `version.json` | one run: hash, compare, raise the version, save, upload | server |
| `LauncherManager` (client) | the files beside it, a download queue | check, time out, remove, download, start the program | server |
| `PlannedTaskScheduler` (`C`) | the table of tasks, the time of the last `Update` | add interval, tick and daily tasks, `Clear`, `Update` | main loop; the services' tasks |
| `CoroutineManager`, yieldables (`C`) | the list of coroutines | start, remove, `OnUpdate` | orders |
| `BidirectionalDictionary` (`C/Container`, also in C++) | two dictionaries | add, remove, set | services |
| Client: `WebSocketClient` | a socket, a retry timer with its count, a heartbeat timer | connect, retry, send | server |
| Client: `ScrollView`, `BottomPopupWidget` | scroll bar, timer and rows; a popup and its animation | scroll, resize, show, hide | user |
| Client: `QuoteManager`, candle views, registry | segments of candles, handlers | request, fill, extend | server |
| Execution slots, pools, IoC, user interface, announcements, AI chat, proxies, protocol code | | | |

### What is hard about it

- **Threads without locks.** The account's dictionaries are written by `OnStart` and by
  the stream's callbacks; the connection map is enumerated by whoever logs and changed by
  the accept loop and the handler threads.
- **Queries against streams.** Candles, leverages and orders are each read by a query and
  kept up to date by a stream. An answer may be older than an event already handled, and
  neither stream is ever resynchronised after it was down.
- **State shared with the future.** All queued log messages are one object, which the next
  call of `Log` overwrites; averages are adjusted from their own rounded values.
- **Release by three programs.** A release is a sequence of uploads that can fail or stop
  anywhere while launchers read what is there.
- **Cycles.** Logging broadcasts, and the broadcast service logs when clients come and go.
- **Conversions that throw.** `Converter` has no name for some types and statuses of orders and for
  netted positions: an update is lost, a loop ends in the middle, a start-up ends the program.
- **Tables changed while they are walked.** A task's action clears tasks of the table the
  scheduler enumerates; coroutines are removed and started, by callbacks and other threads, while
  `OnUpdate` counts down a list.
- **Timers.** The client's retry timer outlives its limit; a scroll bar is followed 50 ms late and
  the wheel at once; showing and hiding a popup share one animation.
- **Arithmetic at the edges.** The scheduler's clock is a float; pages of a query overlap; some
  changes belong to no interval.

`PROJECT.json` lists every such hazard with its line and with the property that covers it,
or the reason why none does.

### What makes each component correct

- *CircularBuffer*: it is the sequence of the last `Capacity` items, oldest first.
- *Candle cache*: candles strictly in order of time; every minute streamed is cached once, at
  its place, with its final close; closed candles never change; averages are those of the closes.
- *Account data*: once nothing is under way the copies are the exchange's, as far as `Converter` can
  express them and a position has one side.
- *Log push*: the newest line reaches every client; indexes never go back; a client that left
  is removed.
- *History*: a query returns the candles it was asked for, once and in order.
- *Market summary*: the partial averages are those of the extreme contracts; no change is
  counted twice or on the wrong side of zero.
- *Scheduler*: a task runs when it is due, in the first `Update`, and as often as it may.
- *Coroutines, orders*: no `OnUpdate` skips a coroutine or starts one early; a callback comes once, and
  an order whose placement threw is not placed again.
- *Client*: the timers match the connection and it comes back; the rows show the bar's place; a
  popup ends up as it was last asked for.
- *Dictionary*: the two directions are each other's inverse.
- *Release*: whoever reads `version.json` finds its files; a version number names one release;
  an update that nothing disturbs installs the release whatever happened before; the launcher
  always ends.

## 2. Modules

| Module | Models | How it corresponds to the code |
|---|---|---|
| `BoundedHistory` | the promise of a circular buffer | abstract: no slots |
| `CircularBuffer` | `C/Container/CircularBuffer.cs` | the four fields are the four variables; `Add` and `Set` the two mutators |
| `KLineCache` | `S/Quote/Services/QuoteService.cs` 243-341, 620-820 | one symbol, one interval. `QueryKlines`, one `PreloadAdd` per turn of the loop, `APISubscribeToKlineUpdates`; `OnKlineUpdate` whole, as it runs under a lock; `ClearTradeRules`/`RefillTradeRules` for the refresh, which takes none. The buffer is an instance of `CircularBuffer` |
| `TradingAccount` | `S/Trading/Services/TradingService.cs` 45-288, 487-517 | `StartCalls` is the body of `OnStart`; each query is a request, an answer and one action per entry stored, or the exception its conversion throws; one action per callback and one for what it throws, with the position query inside the account callback |
| `ServerLogPush` | `S/NetWork/WebSocketService.cs`, `S/Logging/Services/UploadLoggerService.cs` | threads: acceptor, sender, one handler per connection, workers. `Log(t)` is `UploadLoggerService.Log` and the broadcast it makes, step by step on the calling thread; the send thread measures and writes a message in two steps |
| `ResourceServer` | `Lampyris.ResourceServer/Program.cs` | the files, and the effect of an upload |
| `ResourceVersionControlTool` | `Lampyris.ResourceVersionControlTool/Sources/Program.cs` | one action per stage of a run and per upload, with its ways to fail; the author's edits and the date |
| `LauncherManager` | `Lampyris.Client.Launcher/sources/LauncherManager.cpp` | one action per callback of the event loop |
| `ResourceUpdate` | the three together | they share the server's files only |
| `PlannedTaskScheduler` | `C/PlannedTaskScheduler.cs` | the fields are the variables; `Update` is `BeginUpdate`, one `Pass` or `Run` per task in any order, `EndUpdate`. `Run` includes what the action does to the table: it clears, or (`ActionEndsProcess`) adds or throws, which ends the process, as nothing catches |
| `HistoryQuery` | `S/Quote/Services/QuoteService.cs` 505-615 | one call: the rules for its times, the first round of tasks in any order, the second in the order of the pages, the cut to the limit |
| `MarketSummary` | `QuoteService.cs` 389-484, `S/Trading/Data/MarketSummaryData.cs`, the client's `MarketOverviewBarChartWidget.cpp` 176-222 | `OnTickerUpdate` whole, for any subset of contracts; `IntervalOf` is `RecordPerc`, `BarCount` the chart's sum |
| `OrderCoroutines` | `C/CoroutineManager.cs`, `S/Trading/Services/TradingService.cs` 319-366 | one visit of `OnUpdate` per action, with orders started and coroutines removed at any time; `MoveNext` is the iterator, with where it goes on as its state and every way it can throw |
| `WebSocketClient` | `Lampyris.Client.Crypto/sources/Network/WebSocketClient.cpp` | one action per slot of the event loop; the timers in ticks |
| `ScrollView` | `ScrollView.h`, `ScrollViewContentWidget.h` of the client | one action per event; a row is the place of the item it shows |
| `BottomPopupWidget` | `BottomPopupWidget.cpp` of the client | show, hide and the animation's end |
| `BidirectionalDictionary` | `C/Container/BidirectionalDictionary.cs` | every method that changes it; a call that throws changes nothing |
| `SequentialParts` | the eight modules above this one, from `PlannedTaskScheduler` on | they share nothing: `part` chooses the one that runs, so that one run explores one after another |
| `FiniteSumTheorems` | | facts about sums over finite sets, for the proofs |
| `*Proofs` | | theorems and proofs: one module per component, and one for the parts of `SequentialParts` and their composition |
| `MC*` | | what TLC instantiates |

Definitions whose comment begins with "Wrong variant" are not part of the models. Each is a
plausible mistake in the definition that follows it, and was seen to break the property it
belongs to (`mutants` in `PROJECT.json`).

### What is abstracted

- *Candles*: prices are whole price steps, a candle keeps open time, close and averages. The
  averages' rounding is `Math.Round`'s, half to even, and `MAUnit` is the unit it rounds to.
- *Account*: values are members of small sets. Order ids are numbers and the cast to `int` is
  `StreamKey`, the low `Width` bits read as signed; ids whose keys collide are excluded by an
  assumption. `UnmappedOrders` are the orders of a type or time in force that `Converter` throws on,
  `UnmappedEnds` those that end in a status it throws on (liquidation, insurance, ADL, GTX). An account is
  hedged, with a long and a short position of each symbol, or netted (`PositionSide.Both`), and stays so: the mode
  cannot be changed while there are positions or orders, and the program does not change it. The
  library (CryptoExchange.Net, external) catches what a callback of the stream throws and goes on. An answer
  to the position query may list sides without a position. Margin calls, balances and rejected
  conditional orders change no modelled state.
- *Log push*: a line's text is its number. A single `Add`, `Remove` or lookup of a `Dictionary` is
  atomic, and as in .NET 8 only an insertion invalidates an enumerator. A message that changes
  while it is serialised is sent with the old or the new text, or throws. What a worker was called
  by may or may not catch an exception; on the service's own threads nothing does, and the
  process ends. `PushMessage`, `OnDestroy` and requests of clients are left out.
- *Release*: a file's content is a number that grows with every edit and stands for its MD5; names
  are flat; hashing the folder is one step; `QFile::remove` succeeds. An upload passes through a
  torn state that a download can see; a rejected one may leave it. So does a kill in the middle of a write, of the
  tool's `version.json` or of the launcher's files.
- *Scheduler*: time is in milliseconds and a day has `DayLength` of them. `Update` reads the clock once,
  at its begin, and holds a lock: the clock stands still until it ends, and other threads add and
  clear before or after. `Float` rounds as a float does beyond `FloatExact`, 2^24 in the code.
- *Market*: changes are steps of a part of a percent; ten levels, ten contracts become `Levels` and `Top`.
  `List.Sort` is not stable: `Sorted` is the set of all descending orders, and the model takes any of them.
  The sums are kept, not the quotients; the average of the main stream contracts is one more sum.
- *History*: Binance answers with the first candles from the start on that open no later than the end. A nullable
  `endTime` is a set of at most one time.
- *Orders*: a task is running, answered or faulted. `WithCallback` are the orders placed with a callback that is
  not null; both callers of today pass one (`StrategyExecutionService.cs` 131, 170). A callback returns or throws.
  *Scroll view*: heights in pixels, few of them;
  the two fields that no constructor sets hold anything at first.
- In this commit several classes are never reached: the container looks for an assembly name that
  does not occur, two dictionaries of `QuoteService` are not created, and
  `DateTimeNode` cannot be constructed. The models start where the code means to start.
  Likewise nothing calls `CoroutineManager.OnUpdate`, `WebSocketClient::connectUrl` or the history
  query yet, and no popup is shown: their models are of what they do when called.

## 3. Runs

`tlc -config X.cfg M` for each of these; every module has one type invariant besides what the table
names.

| Run | Bounds | Distinct states | Shows |
|---|---|---|---|
| `kline_cache` | buffer of 3, preload of 2, 5 minutes, 2 price changes inside minutes, 2 events under way, averages over 2 and 3 | 1.3 million | `CandlesInOrder`, `StreamedCandlesExact`, `AverageErrorAccounted`, `ClosedCandlesFrozen`, `CacheIsHistory` |
| `trading_account` | a symbol, hedged or netted; three orders, of which one is beyond the int range, one ends in a status and one has a type that cannot be converted; 3 changes at the exchange, 2 events under way, one outage | 6.8 million up to the symmetry of leverages | `LeverageSettled`, `OrdersSettled`, `PositionsSettled` |
| `log_push` | a connection, two workers, two lines of theirs, a departure, a clearing | 0.8 million | `LatestLogReachesEveryone`, `IndexNeverGoesBack`, `LeftConnectionsGo` |
| `resource_update` | two files, two edits, two days; no symmetry, as liveness is checked too | 3.4 million | `NeverPublishedBeforeItsFiles`, `EqualVersionsSameRelease`, `UndisturbedUpdateInstalls`, `LauncherEnds` |
| `sequential_parts` | three contracts, keys, values and orders, two popups, lists of 2 to 5 rows, three outages, queries of up to three pages of three candles; two tasks, delays below and above what the float counts to singly, one run or for ever, days of two ms, 5 ms, one correction of the clock | 0.9 million, most of them the scheduler's | `HistoryExact`, `NewestAreLast`, `PartialAveragesAreExtreme`, `DistributionAccounted`, `EachVisitedOnce`, `PlacementsAccounted`, `TimersMatchConnection`, `Reconnects`, `SettledRowsAreRight`, `PopupSettles`, `DirectionsAgree`, `RunsWithinRepeat`, `DailyOncePerDay`, `IntervalRunsOnTime`, `EveryDueTaskRuns` |
| `kline_average`, `order_keys`, `log_broadcast`, `resource_release`, `launcher_timeout`, `retry_limit`, `intervals` | as above | | one counterexample each, see section 5 |

Why the bounds are enough. *Candles*: five minutes overwrite a buffer of three twice over, so
that candles of the preload, of the stream and of both sides of an outage meet in one buffer; two
price changes are the least after which an adjusted average is adjusted again. *Account*: one
change for each of query, storage and stream, in any order around one another; a second symbol
would only repeat the first, as no step reads two of them: the account is hedged or netted as a whole, so that the loop
over the positions throws at its first entry or never. Three changes open, close and open again a
side, or change both. *Log*: two calls of `Log` overlap in every
way, and every thread of the service makes one more of its own as clients come, go and fail; three
would repeat the race of two for the one object; for any number of clients the delivery is proved
(`LatestLogIsDelivered`), and `log_broadcast` alone has two. *Release*: two edits make three contents of a file,
that is two later releases on one day or on two, each of which can fail, with launchers before,
between and across them; two files are the least that can be uploaded in two orders. Tool and
launcher are killed between any two steps and while they write.
*Tasks*: two are the least of which one clears the other before or after its turn, and one runs while
the other is added; five ms are two days and both delays, with an `Update` every ms or rarer. *Market*:
the six changes lie below, on, between and above the bounds of five intervals, and two events move
each contract from any to any. *History*: with pages of three, limits of 2, 4, 6 and 7 are less than a page,
two pages of which one is cut, two whole ones and three of which one is cut; ends lie on and between
candles, before the query's begin and after it. *Connection*: each of five counted retries and those beyond, three
times. *Scroll view*: rows that fit and not, lists shorter and longer than the view. *Orders*: with three, of
which one has no callback and one no cancellation, an index meets coroutines that end, stay, throw and are removed
before, at and behind it.

`CHECK_DEADLOCK FALSE` is said where the system stops: in `trading_account` when the bounds are
used up or the start-up has thrown, in the log runs when the process has ended or the bounds
are used up, in the release runs for uniformity (the launcher can always be started), in
`sequential_parts` when a part has used up its bounds or the process has ended. The candle
cache never stops and is checked for deadlock.

### The properties, in words

- `CandlesInOrder`: open times strictly increase through the cache. `OnKlineUpdate` compares an
  event with the newest candle only, and the three-minute speed of the tickers reads "the third newest".
- `StreamedCandlesExact`: once the events are handled, every minute opened after the stream last
  came up is cached at the place its age says, with the exchange's close. The minute in which
  the stream came up, and what an outage swallowed, are excepted: the code does not query them.
- `AverageErrorAccounted`: an average differs from the mean of its closes by half a rounding unit
  per update, plus exactly the price changes that came while there was no trade rule and the one
  counted twice when the average was zero. `owed` and `roundings` are the history variables for it.
- `ClosedCandlesFrozen`, `CacheIsHistory`: a step changes the newest candle, or appends one and
  drops the oldest; the ring implements `BoundedHistory`.
- `LeverageSettled`, `OrdersSettled`, `PositionsSettled`: when start-up is over, the stream up
  and nothing under way, the copies are the exchange's. `missed` holds the keys for which that may
  fail: their last change came between a query's answer and its storage, or in an outage, or
  the query failed. An order whose last status `Converter` throws on is excepted too: its update is lost. For
  positions the claim is what one key per symbol allows: a symbol without an entry has no position, and an entry
  is the present position of one of its sides, never one that was closed or changed since; no entries are left
  when the query failed, and none with a quantity when the conversion threw. The
  other side is lost, see section 5. Each exception is a weakness of the code; beyond them there is none.
- `LatestLogReachesEveryone`: when nothing is under way, each client covered by a broadcast since it
  joined has last received what the shared object holds, even if intermediate lines were
  overwritten or lost. Clients an interrupted broadcast did not reach are not covered.
- `IndexNeverGoesBack`: the index is set under the lock and read at sending, so it only grows
  between clearings. (Index and text of one message may belong to different lines.)
- `LeftConnectionsGo`: a connection whose client has left leaves the map, unless the process ends.
- `NeverPublishedBeforeItsFiles`: `version.json` goes last, so every file it lists is at the server at
  least as new. Files whose upload failed (`unsent`) and the one being overwritten are excepted.
- `EqualVersionsSameRelease`: a launcher skips an equal version; it is then the same release, as
  the number was raised and saved before anything was uploaded. If the tool is killed while it saves, no later run
  takes the torn file for a missing one, with which the numbers would start again. (Whoever then deletes it
  starts them again all the same.)
- `UndisturbedUpdateInstalls`: a launcher run that compares files and suffers no failure and no
  concurrent release (`smooth`) installs the release, whatever wrecks earlier runs left. Only a
  comparison by content, not with the old `version.json`, achieves that.
- `LauncherEnds`: every launcher run ends, for every download fails or succeeds and is not repeated.
- `RunsWithinRepeat`: a task with a number of repetitions runs at most so often (once for 0), and no
  `Update` leaves it in the table after its last run, though it is removed only after the enumeration.
- `DailyOncePerDay`: a daily task's n-th run is not before its n-th moment. Missed days are caught up,
  one per `Update`; a clock set back over a moment does not repeat it.
- `IntervalRunsOnTime`: however the `Update`s are spaced, an interval task runs in the first one that
  finds its delay passed since its last run (for the first run: since the last `Update` before it was
  added), and in none before. Delays above 2^24 ms are excepted: see section 5.
- `EveryDueTaskRuns`: what stays due runs again and again, unless it is cleared or the process ends.
- `HistoryExact`: a query of one request or of whole pages returns each candle asked for, once, in order,
  although pages share their borders, are asked twice, and new candles open meanwhile.
- `NewestAreLast`: for every limit the result ends with the newest candles before its end, a page of
  them, in order. What comes before them is wrong when the last page is cut: see section 5.
- `PartialAveragesAreExtreme`: no other choice of as many contracts has a larger (smaller) sum than the
  ones summed as the first (last) ones: the list is in order when they are summed.
- `DistributionAccounted`: what one event adds to the intervals above, below and at zero is at most the number of
  contracts it finds risen, fallen and unchanged; the chart shows no interval in two bars. That the
  intervals hold *every* change, and of one event only, is what the source says and the code does not do:
  the run `intervals` refutes it.
- `EachVisitedOnce`: an `OnUpdate` that nothing is thrown out of skips no coroutine that stays in the list, whatever
  callbacks and other threads start and remove on its way. Each removal at or below its index costs at most one
  visit too many (of a coroutine visited before, of one started meanwhile, or beyond the end of the list,
  which throws), and without such a removal each coroutine is visited once and no new one.
- `PlacementsAccounted`: an order's callback comes at most once, with the answer of its first placement. An order with
  a callback whose placement threw is not placed again; without a callback nothing reads the result, so that a
  placement that threw is repeated after the wait. Only one to be cancelled, after its wait, is placed twice.
- `TimersMatchConnection`: a connected client sends heartbeats and no retry can tear the connection down; a
  closed one that was asked to connect sends none, and has a retry coming while its count is below the limit.
- `Reconnects`: when the server stays up and the count of retries below its limit, the client is connected in
  the end and stays so, if an attempt is decided before the next retry. Neither property says anything of a
  client at the limit: there the code retries on although it says that it gives up (`retry_limit`).
- `SettledRowsAreRight`: when no timer runs and no wheel has overtaken one, the rows show the latest list
  from the bar's place on, and the bar's end is the list's. (Before the first scroll the place is not
  initialised; a list shorter than the view leaves rows of the list before it.)
- `PopupSettles`: what is to be seen is, what is to be hidden is or will be by the end of the
  running animation, and that end never finds a null popup.
- `DirectionsAgree`: the two dictionaries hold the same pairs, whatever the setter moves.

### Fairness

- `ServerLogPush`: weak fairness of `Log(c)` and `Handle(c)` for the handler thread of each
  connection, no more: an operating-system thread that can run is scheduled. The accept loop, the
  send thread and the workers may stop anywhere, and the property does not need them.
- `ResourceUpdate`: weak fairness of the launcher's own steps, that is: the network answers each
  request or reports an error. The check has a timeout of its own; the downloads rely on the
  network's. Starting and killing the launcher, and the tool, are not assumed to happen.
- `PlannedTaskScheduler`: weak fairness of the steps of an `Update` together: the main loop polls without
  ever waiting. Which task an `Update` visits first, and when the clock moves, is left open.
- `SequentialParts`: besides that, weak fairness of the client's event loop (an event that is due is
  delivered, an attempt to connect is decided), not of the server, which may stay down for ever.
- `KLineCache` and `TradingAccount` have safety properties only and no fairness.

## 4. Proofs

All theorems hold for every value of the constants that satisfies the modules' named assumptions;
TLC evaluates these assumptions in the runs.

- `CircularBufferProofs!BufferInvariant`: the inductive invariant is `TypeOK` with `Aligned` (the tail is
  `count` ahead of the head, modulo the capacity, and the head is 0 until the buffer is full) and
  `NoUnusedRead`. Without `Aligned`, `Add` could overwrite an item that is not the oldest.
- `CircularBufferProofs!ImplementsHistory`: initial states map to the empty history and every step to a
  push, an amendment or a stutter; the lemma on `PositionInSlot` carries the modular arithmetic.
- `KLineCacheProofs!CandlesAlwaysInOrder`: the cache seen through its open times is itself a
  `CircularBuffer`, of minutes, so the lemmas on `Add` and `Set` apply to it. The invariant orders
  cache, events under way and present: the cached minutes increase and end before or at the
  first event's, the events do not decrease and none lies ahead of the market; and while the
  start-up task is adding, the cache ends before the rest of the answer and no event exists. The
  last part is why subscribing after the query is safe; without it `PreloadAdd` could append an old minute.
- `KLineCacheProofs!StreamedCandlesAreExact`: counted back from the newest candle, the cache holds one candle for
  each minute since the stream came up, up to the newest minute handled, or the newest minutes that fit. The
  last event under way for a minute carries its present close, as every trade is followed by an event; and what
  is not on the way any more is in the candle. The event queue opens the next minute at most, so that
  "newer than the newest candle" is "the minute after it", which is why comparing with the newest suffices.
- `KLineCacheProofs!ClosedCandlesStayFrozen`: a step leaves the candles alone, adds one, or replaces the newest;
  it follows from the lemmas on `Add` and `Set` and from the order of the events.
- `ResourceUpdateProofs!TypeCorrect`: type correctness, with the fact that release numbers and
  contents stay below the bound the edits set, and that a file on the way is one still pending.
- `ResourceUpdateProofs!EqualVersionsAreEqual`: the `version.json` of server and launcher is torn, or
  the tool's own, or of an earlier version in the order of days and numbers. A run raises the
  version before it saves, so a new release is later than every one ever handed out.
- `ResourceUpdateProofs!PublishedFilesAreThere`: for each file, its content in the folder is at least
  the tool's record, which is at least the server's record; and a file that is recorded and neither
  unsent, pending nor on the way is at the server at least as new as recorded.
- `ResourceUpdateProofs!UndisturbedUpdatesInstall`: while a run is smooth, each listed file is still queued or
  installed at least as new as listed. A download gets what the server has, which is whole and new enough by
  `PublishedFilesAreThere`: a file in the middle of an upload is torn, but the end of that upload
  changes the server, and a run during which the server changes is not smooth.
- `TradingAccountProofs` (`TypesCorrect`, `LeverageSettles`, `OrdersSettle`, `PositionsSettle`): per key that is not
  missed, the last event under way for it, or else the part of the answer still to be stored, or else the
  copy, holds the exchange's value. An order with a status that `Converter` throws on is left out of it. For positions it is: an
  account event is under way, or a query is not yet answered, or every side that has a position is in the answer or
  its symbol has an entry, and answer and entries agree with the exchange. The assumption that keys are distinct
  after the cast to `int` is what keeps loop and callback from writing another order's key.
- `ServerLogPushProofs` (`TypesAlwaysCorrect`, `LatestLogIsDelivered`, `IndexNeverFalls`). *Delivery*: each covered
  connection that can be reached is promised a message, by a call of `Log` that has yet to broadcast, by a broadcast
  that has it left to visit, or by the queue; or it is up to date, or the send thread has its message in hand
  and is to measure it or has measured what the object holds. *Order*: what a client received is not
  above what the send thread has in hand, that is not above the shared object, and that not above the history, in the
  order of clearings and then of indexes.
- `PlannedTaskSchedulerProofs` (`TypesHold`, `LimitedTasksEnd`, `DailyTasksRunOnce`, `IntervalTasksRunOnTime`): the
  invariant ties each task to its history. A limited task's count and its runs add up to what it was given, and
  it is on the list of removals once it is spent, while only an `Update` under way has such a list; a
  daily task's next moment is its first one and as many days as it ran; and an interval
  task's counter is exactly the time between its last run and the last `Update`, or the clock once
  this `Update` has visited it: it is below the delay, which a float can count to, or the task has run. The lemma
  on `Float` says that rounding never crosses such a delay.
- `KLineCacheProofs!TypesAreCorrect`: the ring seen as a `CircularBuffer` of candles, to which the lemmas on `Add`
  and `Set` apply once more. That the averages are integers needs the sums of closes to be; that the
  sums are, needs every cached entry to be a candle: the two are one invariant.
- `KLineCacheProofs!AverageErrorsAccounted`: both sides of the bound for every period. The sum of the last
  closes loses what a replaced candle had and gains what it gets (`SumAfterSet`), or moves on by one
  (`SumAfterAdd`); a rounding adds half a unit at most (`RoundError`, `MeanError`), and the error of the
  old average is carried into the new one whole (`ErrorGrows`), which is why the bound must grow with every update.
- `KLineCacheProofs!CacheImplementsHistory`: with those invariants each step of the service on the ring is a
  step of `CircularBuffer` (`CandlesAreWritten`), so that `ImplementsHistory` applies to the service's own ring.
- `SequentialPartsProofs!TimersAgree`: inductive with the ranges of the timers.
- `SequentialPartsProofs!DirectionsAlwaysAgree`: inductive together with the types; the setter's
  case is that old value and old key leave before the new pair enters.
- `SequentialPartsProofs!PlacementsAlwaysAccounted`: where a coroutine goes on, and whether it has a callback,
  determine placements, callbacks and the state of its task.
- `SequentialPartsProofs!EachAlwaysVisitedOnce`: the coroutines of the list are distinct, as an order is started
  once. What is still to be visited is at the index or below, and all of what is there is still to be visited but
  for as many places as removals moved down; a removal above the index moves only what was visited.
- `SequentialPartsProofs!SettledRowsAlwaysRight`: rows always show the list from the content's place on, which is the
  bar's unless a timer or an overtaking wheel is outstanding; and the bar's range is the list's. That the
  rows never reach beyond the list is arithmetic: rounding the bar's place up and the view's height down never
  adds up to more than the lines there are (`BarReachesTheEnd`).
- `SequentialPartsProofs!PopupAlwaysSettles`: inductive, with: no popup that is not hidden is null.
- `SequentialPartsProofs!PartialAveragesAlwaysExtreme`: the invariant is that the list is in descending order and the
  partial sums are those of its first and its last places. A choice of as many places shares some with the
  end; each place it has instead holds no more (no less) than any place of the end that it lacks.
- `SequentialPartsProofs!DistributionAlwaysAccounted`: an event adds to each interval the changes it holds. The
  intervals' bounds do not overlap, so that a change is in one at most, and those above (below) zero hold
  changes above (below) zero only; over such a group what an event adds is therefore the number of changes that lie
  in it (`CountedOnce`), no more than those on that side (`CountedOnTheirSide`). The bars of the chart share no interval
  (`BarsApart`), so that their sum is one over some of the intervals (`ShownOnce`).
- `SequentialPartsProofs!HistoryAlwaysExact`, `NewestAlwaysLast`: a query's pages so far hold a whole stretch of
  minutes from the first one on (`ExactSoFar`); once the last page is merged, the result ends with the stretch
  that ends at the query's end (`NewestSoFar`). Each page's start is derived from its end, so the step needs
  that the first minute after a time moves by whole candles with it (lemmas on `MinuteFrom`), and that an
  answer of opened minutes is their stretch although more open meanwhile.
- `SequentialPartsProofs!PartsAlwaysSafe`, `TypesStayCorrect`: the parts' properties, and their types, put together
  for the specification that TLC runs, those of the scheduler included. That a behaviour of it is one of each part's own (the lemma
  `PartsImplemented`) holds by the way the module puts the parts together, and says nothing of the code.

`FiniteSumTheorems` is the library behind the sums: `SumFunctionOnSet` is a fold, and what it gives for every finite
set is proved by well-foundedness. The strict subset order of a finite set has minimal elements, so a
set of counterexamples has a smallest one, which is then refuted (`GrowingSubsets`). The sum does not depend on the order
of the fold (`SumWithout`), splits over parts (`SumUnion`, `SumOfParts`), is kept by renaming
(`SumRenamed`) and grows with its terms (`SumMonotone`).

Every type invariant, every safety invariant, every action property and the refinement that a passing run checks is
stated by a theorem. Only model-checked is liveness, which needs fairness and `ENABLED`:
`LeftConnectionsGo`, `LauncherEnds`, `EveryDueTaskRuns`, `Reconnects`.

## 5. Where code and documentation part

| Run | The code | It says |
|---|---|---|
| `kline_average` | averages accumulate rounding errors, lose price changes while a symbol has no rule, and count one twice at zero (`QuoteService.cs` 726-730, 762-766) | `CandlestickData.cs:19`, `QuoteService.cs:764` |
| `order_keys` | stream orders are stored under `(int)OrderId`, queried ones under the 64-bit id (`Converter.cs:126`, `TradingService.cs:286`) | `TradingService.cs:20` |
| `retry_limit` | at the limit of retries the repeating timer is left running, and the socket is opened again every interval for good (`WebSocketClient.cpp` 69-80, 102-110) | `WebSocketClient.cpp:79`, `WebSocketClient.h:47` |
| `intervals` | changes in (0, 1) and in (-10, -9) percent are counted in no interval, and `Reset` leaves the intervals' counts, to which every ticker event adds the whole market again (`MarketSummaryData.cs` 44, 57-73, 87) | `MarketSummaryData.cs:46-48`, `8` |
| `log_broadcast` | a broadcast throws when a client is inserted meanwhile, and the rest get nothing (`WebSocketService.cs` 122, 303) | `WebSocketService.cs:299` |
| `resource_release` | a rejected upload is logged, `version.json` published, and the file never tried again (`Program.cs` 73, 254-257) | the tool's `Program.cs:8` |
| `launcher_timeout` | the abort runs the error handler, which quits, before the old version is started (`LauncherManager.cpp` 130, 175-178) | `LauncherManager.cpp:131` |

Beyond these, the following was met while modelling. No run refutes a statement about it, either because no
statement says otherwise or because the code is not called; the models keep the behaviour.

- *Scheduler.* An interval is counted in a `float` of milliseconds: above 2^24 ms (4 h 40 min) an `Update` every
  ms adds nothing or counts in twos. The first `Update` measures the time since 1970. An action that
  adds a task invalidates the enumeration, and the exception ends the process. Missed days are
  caught up one per `Update`.
- *History.* A last page that is cut reaches back over the page before it, so that candles come twice and out of
  order before the newest page; a range that begins before the listing repeats its first candles.
- *Market.* The chart drops an interval whose upper bound is the bar's own, and reads past an empty list
  (`BarChartWidget.cpp:194`). The average of the last contracts skips as many of the first instead, and an empty
  first event divides by zero.
- *Orders and account.* The automatic cancellation places the order again (`TradingService.cs:336`), also one whose
  placement threw if there is no callback; a coroutine removed below the index of an `OnUpdate` makes it visit
  one twice or read past the list. `Converter` throws on the side of a netted account, whose positions are therefore never
  stored; a hedged one's two positions of a symbol share one key (`TradingService.cs` 254-262), and the map holds the one
  stored last. It throws on some orders too: in a callback the update is lost, in `OnStart` the program ends;
  `WaitForSeconds` compares milliseconds with seconds; after the listen key expired there is no new subscription.
- *Log.* `OnNewConnection` is subscribed (`UploadLoggerService.cs:46-59`) and never invoked: a new client is not
  told of the lines before it. `LastHeartbeat` is stored and never read.
- *Release.* `LauncherManager.cpp:221` removes files that are not in the new list; line 222 only those in the local
  `version.json`, which is written last. A file of an update that was cut short stays for ever once a release drops it.
- *Client.* A popup that replaces another leaves it shown, and the animation moves the widget the constructor was
  given. The registry's condition is inverted, so that no handler is registered.

## 6. Not modelled, and the plan

- *Protocol code.* Nearly all of the repository's counted lines are generated by protobuf, and they are
  there twice (`Lampyris.Client.Crypto/sources/Protocol`, `protocols/output`). They encode and decode messages
  and hold no state of the system; the models' messages stand for what they carry. The share of all lines
  that the models map is therefore small whatever is modelled.
- *Candle views and `QuoteManager` of the client.* The constructor of a view takes the front of a queue
  that is empty (`QuoteManager.cpp:158-179`), so the behaviour is undefined before the first segment is asked for:
  there is no state to start a model from.
- *Message registry of the client* (it registers nothing, see above), `SingletonApp` (the name it needs
  is never set by the launcher), *`ObjectPool`* (no users), *execution slots* (always null): code that has
  no reachable behaviour in this commit.
- *Ticker list, mark prices, subscriptions.* One assignment per callback; what is computed from the list
  is in `MarketSummary`.
- *User interface besides the widgets above, announcements, AI chat, proxies, IoC container, configuration files,
  scripts, third-party code.* Text, drawing and HTTP, or objects built once; no state that two actors share.

What is left, in order:

1. The candle views, once they can be constructed, against the server's stream.
2. A daily reconnection of the user data stream, once the code makes one, and what it must query again.
