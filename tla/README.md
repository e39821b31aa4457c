# PaSTA Auto Trade: formal models

TLA+ models of the trader in this repository, the TLC runs that check them on
small instances, and TLAPS proofs of what holds for every instance. Sources are
named relative to `src/`.

## The system

```
 data supplier                     brokerage (REST)          Alpaca's stream
      | websocket frames                ^   |                     |
      v                                 |   v                     v
 DataClient ---message---> DataHandler  | httplib::SSLClient   stream::Handler
                              |   ^     |      ^               (not used by the
             AddData x 4      |   |     | alpaca::Client        trader)
                              v   |     |      ^
                          AggDataStore  |      | submitOrder, cancelOrder,
                       1 / 10 / 60 / 300 s     | getOrder, getAccount
                              |         |      |
                              +-callback-> ChaseMomentumStrategy
```

Everything runs on one thread: the event loop of the data client calls the
handler, the handler calls the strategies, and a strategy blocks in HTTP calls.
The concurrency is with the outside: the supplier and the network, the
brokerage filling orders between two calls, and the death of the process (a
failed `CHECK`, `LOG(FATAL)`, an exception nobody catches). Nothing is
persisted and nothing restarts the trader. The HTTP library is written for more
than one thread: a client object may be shared, and stopped from outside.

| Component | State | Operations | Correct when |
|---|---|---|---|
| AggDataStore (`data_handler/agg_data.cc`) | queue of candles per ticker, newest first | `AddData`, `GetData`, `Clear` | the candles are those of the feed; no CHECK fails, late ticks included |
| DataHandler (`data_handler/data_handler.cc`) | four stores, callbacks by name | `Init`, `ProcessMessage`, `GetData`, `RegisterCallback`, `UnregisterCallback` | a callback per aggregate, after all stores have it |
| DataClient (`data_handler/data_client.cc`) | `state_`, `status_`, `auth_`, functions by name | `SetAuthentication`, `RegisterFunc`, `UnregisterFunc`, `Run`, `OnMessage` | never ahead of the supplier, data delivered in order, `Run` ends and says the truth |
| ChaseMomentumStrategy (`strategy/`) | `trading_`, `quantity_`, `breakeven_`, `enter_ts_`, `clear_`, `account_` | `Init`, `ProcessNewData` (entry, management, clearing) | its books match the account, one stock at a time, reserve kept, never sells what it does not hold |
| alpaca::Client (`alpaca/client.cpp`) | none between calls | 28 REST operations | OK means done, answers are true, nothing is ordered twice |
| value types and JSON (`alpaca/json.h`, `order.cpp`, ...) | - | `fromJSON` | documented bodies are read, wrong ones refused, nothing is left indeterminate |
| alpaca::Environment (`alpaca/config.cpp`) | four strings, `parsed_` | `parse` | read before use |
| alpaca::stream::Handler (`alpaca/streaming.cpp`) | callbacks | `run`, `parseReply` | each update reaches its callback, once and in order |
| cpp-httplib (`cpp-httplib/httplib.h`) | locks, socket, requests in flight | `send`, `stop`, proxy, TLS, redirects, challenges | a connection is closed by its user only, success means a whole answer of the right server, calls end |
| Status, protocol buffers, main | - | wiring | - |

Hard behaviours: late and repeated aggregates against the CHECKs of the store;
frames that are dispatched after `stop()`; the connection lost in the middle of
the handshake; fills between `submitOrder`, `cancelOrder` and `getOrder`;
requests and replies that are lost; the account information that goes stale;
the sequence in which a position that is sold in parts is managed; a call of
`send` that sends another, under two locks, while a second thread stops the
client. `PROJECT.json` lists them with their lines under "hazards".

## The modules

### AggData, AggDataStore, CandleReference, MCAggDataStore

`AggData` is the candle arithmetic as pure operators, one per function or
condition of the code: `UpdateWith`, `IsNewAggregate`, `AggWindowStart`,
`IsClosed`, and `AddData` as three operators: the queue it leaves
(`AddDataQueue`), what it returns (`AddDataReturns`), and whether the CHECKs it
passes hold (`AddDataChecks`). `AggDataStore` is the class: `data_` with
`AddData` and `Clear`; `crashed` is a failed CHECK, `ticks` is the history.
`CandleReference` says what candles are, computed from the whole history by
cutting time into windows (`TicksOf`, `IsMerge`, `HoldsNewest`,
`ClosedWindows`); it models no code and shares nothing with the incremental code
but the length of a window. It is written with sets and quantifiers and one sum,
so that it can be proved about as well as evaluated. The `MC` modules only give
the constants their values.

Abstractions: prices are integers (the code compares doubles and never
calculates with them here); `acc_vol_`, `vwap_`, `day_open_` are copies and are
left out; timestamps are unbounded (int64 milliseconds last far beyond any
clock). An aggregate starts on a second and lasts one, as the messages of the
tests do.

### DataHandler, MCDataHandler

One `ProcessMessage` is split into the steps a callback could tell apart: the
message is parsed (`ProcessMessage`), each store gets the aggregate
(`AddToStore`), each callback is called (`CallStrategy`, in any order: it is a
hash map), and the loop goes on (`NextAggregate`). `ProcessBadMessage` and
`CallbackThrows` end the process. The window sizes are a constant; each must
divide the coarser ones (`HandlerAssumption`), as 1, 10, 60 and 300 do
(`data_handler.h:41-42`): without that the candles of two stores have nothing to
do with each other.

### DataClient

The client with the supplier and the websocket library. One action per case of
`OnMessage`; `Run` and its return; the library reads any number of frames at a
time and dispatches all of them, also when one of them made the client call
`stop()`. `Send` may fail at any time. `ConnectionLost` strikes at any time and
cuts off any number of frames. The supplier also sends status messages out of
turn. `FuncCrashes` is a registered function that ends the process.

### Broker, ChaseMomentumStrategy, TradeCycle

`Broker` is the account at the brokerage: cash, positions, the order the
strategy is dealing with, and `orphans`, a bag of the orders it lost sight of.
Orders fill share by share between any two calls, at their limit price. A sale
of more than the account holds is refused (shorting is disabled: `Init`
requires it). A confirmed cancellation is final. `Faults` selects what may go
wrong.

`ChaseMomentumStrategy` is the class. Each call to the broker is a step, and
`pc` is where the callback waits; the statements between two calls are in the
action of the call before them. An empty answer makes `std::stoi("")` or
`std::stod("")` throw: `Die`. `ManageNothing` is line 160, where
`PositionManagement` goes on after it has sold the position and reads the front
of an empty queue: it may crash, do nothing, or sell zero shares of `""`.

Market data is abstracted to what the strategy tells apart: that a tick is an
entry point, that a later minute candle has begun, and which exit rule holds.
The entry rule and the comparison of prices are free choices, so what is shown
holds for every market and every rule. Line 173 compares a price with a
timestamp in milliseconds, hence `ExitRules` has no trailing stop (line 181).

`TradeCycle` is the abstract specification: flat, opening, holding, closing, in
that order, with the shares of one stock changing in the account while opening
(up) and closing (down). `ImplementsTradeCycle` maps `pc` and `trading_` to the
phase and the account's real positions to `shares`. After a buy order whose
answer was lost the phase is "lost", and nothing is promised: the account then
changes behind the strategy's back.

### EntryRule, MCEntryRule

`IsEntryPoint` and `IsStrategyTradingHour`, evaluated after every aggregate on
the queues that `AddDataQueue` of `AggData` builds, and `Rules`, the five
rules of the comment above the function. Fractions are multiplied out.

### AlpacaClient, AlpacaTypes

Every operation is a request record: verb, path, body, the HTTP codes that
count as a success, whether a 204 is followed by a GET, and what the body is
parsed as. `Receive` is the sequence of checks that all operations make on the
response: none, 204, other codes, parse error. The service carries requests out
or refuses them, orders fill and positions change meanwhile, requests and
replies are lost.

`AlpacaTypes` is `fromJSON`. For each type it has the macro of `json.h` that
reads each member and the members declared without an initial value, and it
says of any body whether it is read, refused, or fails an assertion of
rapidjson (`fromJSON`, `ListFromJSON`), and which members stay indeterminate
(`Unset`). A body is abstracted to the kinds of its values; bodies with one
member that is unusual, missing or wrong, at each level, are enumerated.
Building of queries and JSON bodies is left out, and so is the default value
that goes with an error.

### Environment, Streaming

`Environment` is the record of `config.h` with `parse` as `Parsed`; a new one
has a `parsed_` of either value. `Streaming` is `Handler::run`: its four
callbacks are `Connected`, `OnMessage`, `Disconnect` and `ConnectFails`, and
`Route` is `parseReply` with the if-else chain of `onMessage`, comparing first
characters as the code does. The server refuses or accepts, confirms each
listen message, sends updates and other texts in any order; `run` returns when
the connection is lost and may be called again.

### HttpContent, HostName, HttpClient, MCHttpClient

`HttpClient` is one client object with its threads. `frames` is the stack of
nested calls of `send`, since redirects and digest challenges call it again
under the recursive `request_mutex_`; `socket_mutex_` is the plain lock around
the two blocks of `send`, `stop` and `lock_socket_and_shutdown_and_close`. The
labels of `pc` are the places where another thread may come in: before each
lock, and while bytes are exchanged. The assertions of the code are
`assert_failed`. Every step that may fail does, with the error it sets or
forgets to set. `RedirectElsewhere` is another client object with its own
connection and its own body, of which only the outcome is kept. An exception
may leave `send` where the code calls `map::at` or `std::stoi` on what a server
sent (`AuthorizeThrows`, `ProxyThrows`, `RedirectThrows`): `Throw` unwinds all
nested calls and releases the locks, but no destructor lowers
`socket_requests_in_flight_`. The thread may call again, as a user who catches
the exception may.

`HttpContent` is `read_content`: for every framing and every stream, cut off
after any item or inside one, ended by the peer or by an error, whether the
body is taken for complete, and what the caller then has (`Readable`).
`HostName` is `verify_host`, with names as components of characters, and the
rules of RFC 2818 that the code quotes: `Stands` says what a wildcard stands
for, `Identities` which names of a certificate count. The code tries the common
name although there are alternative ones (`CommonNameDespiteAltNames`).

`alpaca::Client` makes a new `SSLClient` for each call, without keep-alive,
redirects, credentials or a proxy: `AlpacaSettings` of `MCHttpClient`. The
other settings are those of a shared client, which the library supports and its
comments make promises about.

## The runs

| Run | Question | Bounds |
|---|---|---|
| AggDataStore | what do late, reordered and repeated aggregates do; is the store the newest candles of a feed in order, and is its answer right? | 1 ticker (tickers share nothing), windows of 2 s, 3 candles, 7 seconds, up to 5 aggregates, each up to 4 seconds late: two windows back; gaps, closings by the last second and by a later window, and eviction occur |
| DataHandler | are callbacks called right, do the stores agree? | 2 tickers, 2 callbacks, windows 1, 2, 4, 8 s (each divides the next, as 1, 10, 60, 300 do), 5 seconds, messages of up to 2 aggregates, 3 in all: the one-second queue evicts, every store but the coarsest opens a second window, and registrations come between messages. Symmetric in tickers and names |
| DataClient | the session in every interleaving | 2 functions, 2 data and 1 status messages: the handshake has three replies, a frame before, between and after each is possible |
| DataClient_dropped | is an invalid login reported? | violated |
| Strategy | books, reserve, cash, the cycle, and what of it survives lost replies | 2 tickers, prices 2 and 3, cash 10, reserve 2, 3 entries: orders of 2 and 3 shares, filled in part at each point, several trades in a row, several lost orders at once; all faults |
| Strategy_lost_reply | is the reserve kept when a reply is lost? | violated |
| EntryRule | does `IsEntryPoint` follow its five rules? | violated |
| AlpacaClient | do the operations do what client.h says, and what do they make of a body? | 2 orders of up to 2 shares, 1 symbol, 1 watchlist, 2 configurations, 3 calls: an order, a second call on it, and one more; lists of up to 2 objects |
| AlpacaClient_close | does closePositions close positions? | violated |
| HttpClient | locks, connection, errors, bodies, certificates, in every interleaving | 2 threads, 2 calls, 1 stop, 1 redirect and 1 authorization: a call nested in a call nested in a call; a second call that finds the first one's connection; 24 configurations and certificates |
| Streaming | do trade updates arrive, and which keys are sent? | 2 updates of each stream, 1 other message, 2 runs: a lost connection between any two messages, and a run after it |
| Streaming_account | do account updates arrive? | violated |

A second has 10 milliseconds in the runs and 1000 in the code (and in
EntryRule); the proofs show that the number does not matter. Every property of a
passing run has a mutant in `PROJECT.json`: a plausible mistake in the code that
the property catches.

Deadlock is checked in AggDataStore. It is switched off elsewhere because the
system may stop there: the process is dead, `Run()` has returned, a bound is
reached, or, in HttpClient, the client waits for itself (below).

### What the runs found

* `DataClient::Run()` returns OK with invalid credentials when the connection is
  lost before the refusal arrives: `status_` starts as OK and no close handler
  changes it (`data_client.cc:104`; `data_client_test.cc:21-26` expects an
  error).
* A buy order whose reply is lost is taken for not placed. The next entry is
  sized with cash that is already spent, and the account falls below the
  reserve of `chase_momentum_strategy.cc:120`.
* `Client::closePositions()` deletes the orders (`client.cpp:587`).
* `IsEntryPoint` tests the minute's volume where rule 4 names the 10-second
  candle's, takes a timestamp for the opening price when two candles are
  adjacent, and adds up minutes where rule 5 names the 5-minute candle
  (`chase_momentum_strategy.cc:77-116`).
* Account updates are taken for authorizations (`streaming.cpp:94`): the
  callback for them is never called.

Met while modelling, and written into the properties as exceptions or left out
of them:

* `connect_with_proxy` may lock `socket_mutex_` twice (`httplib.h:5804`, called
  at 6769 and 6796): exception of `CallEnds`.
* A nested `send` forgets a `stop()` (`httplib.h:5299`): exception of
  `StopIsHonoured`.
* A proxy's challenge without credentials leaves a connection open that the next
  request takes for a TLS connection (`httplib.h:6807`): exception of
  `NothingLeftOpen`, `assert_failed = "no_ssl"`.
* A client without an SSL context, or for whose connection `SSL_new` gives no
  object, fails with `Error::Success` (`httplib.h:6755`, 6369-6372 with 5330):
  exceptions of `FailedCallHasError`. It is an action property, of the step in
  which the call returns, because the exceptions are about where the call was.
* An exception out of `send` (`httplib.h:3710`, `5477`) leaves its requests
  counted as in flight. The next thread, which has locked `request_mutex_` and
  believes that nobody else is using the connection (5306-5308), runs into the
  assertions of `shutdown_ssl` and `close_socket`; `stop()` takes the client for
  busy: exception (`thrown`) of `ClosedOnlyByItsUser`, `StopIsHonoured` and
  `NothingLeftOpen`.
* `verify_host` accepts the common name of a certificate whose alternative names
  are of other hosts (`httplib.h:6947`), against the rule quoted above it:
  exception of `ServerIsNamed`.
* A body ends with success after a chunk that is not followed by a line end
  (`httplib.h:2844`), and after a `stop()` if it is delimited by the end of the
  connection: exceptions of `OkMeansWhole`.
* `check_host_name` compares a fragment with the whole component
  (`httplib.h:7041`): it refuses names that its comment says match.
* `parsed_` is uninitialised (`config.h:92`): `AuthenticatesWithKeys` assumes
  that it was not born true.
* `Order::legs` is never set (`order.cpp:91`): exception of
  `DocumentedBodyIsRead`.

### Fairness

`DataClient`: weak fairness of `Read`, `OnMessage` and `RunReturns`, the event
loop of boost::asio, which runs as long as there is a handler to run. Nothing is
assumed of the supplier or the network: `RunEnds` starts from `stop()` or a lost
connection, `DataArrives` allows the session to end. `AlpacaClient`: weak
fairness of `Receive` and of "the request is served or lost", because httplib
gives up after its timeout. `HttpClient`: weak fairness of each thread's steps,
since every wait for the network has a timeout (`select_read`, `select_write`);
nothing makes a thread start a call or a stop. `Streaming`: weak fairness of
`OnMessage`, the event loop; `TradesArrive` allows the connection to be lost.
The other modules state safety only.

## The proofs

All theorems hold for every value of the constants; the assumptions are those
that the modules state about their constants.

`AggDataProofs` has the lemmas about `AddData` on one queue, for every window
size and store size. `QueueInv` says that a queue is no longer than the store,
that its candles are good (`CandleInv`: aligned start, end within the window,
prices in range, the ticker of the queue), and that each starts a whole window
after the next one. The core is arithmetic: a second that starts inside an
aligned window also ends inside it (`SecondFits`), which is why a late aggregate
cannot break the CHECK of `IsClosed`; and two aligned windows are a whole window
apart (`AlignedBeyond`). The two branches of `AddData` are `PushFrontInv` and
`UpdateFrontInv`; `AddDataFront` and `AddDataSecond` say what is in front
afterwards. From there to the reference candles: `AddDataHolds` (one more tick of
an ordered feed keeps a queue at the newest candles of the history),
`AddDataCloses` (what it returns), `AddDataVolume` (what it does to the volume,
for late ticks too) and `MergeOfMerges` (the candle of a coarse window is the
merge of those of its fine windows). Sums are the one recursive definition. What
must hold of all of them is shown without the library's induction theorems, from
the least number for which it would fail (`LeastNat`, which rests on the
well-founded order of the natural numbers).

`AggDataStoreProofs` shows `TypeOK`, `NoCheckFails`, `WindowsInOrder` and
`PricesInRange` from `QueueInv` of all queues, for every set of tickers, set of
shapes, lateness and length of a second. `NoCheckFails` alone is not inductive:
whether the next CHECK holds depends on the front candle's start being aligned
and on its ticker. `StoreHoldsNewestCandles` is inductive with it, since a
history that is in order was in order before its last tick, and gives the
action property `ReturnReportsClosing`. `VolumeConserved` asks for no order: a
queue that is not full has never dropped a candle.

`DataHandlerProofs` shows `TypeOK`, `StoresNeverCrash`, `CallbacksSeeTheTick`,
`CallsFollowAggregates` and `StoresAgree` for any number of stores and any
messages. The invariant adds to `QueueInv` what holds in the middle of a
message: the aggregates added and those still to be added are one ordered feed
(`Control`), the front of a queue starts no later than the last tick its store
was given (`NotAhead`; a store that is still to get the tick at hand is one
behind), the stores that have the tick show it (`Fresh`), and a callback has had
all its calls but the one in progress (`Calls`). `NotAhead` is what makes a tick
a candle of its own in the one-second store. `StoresAgree` relates two stores
that never see each other; it is not inductive, because in the middle of the
loop some stores have the tick and others do not. What is inductive is that each
store holds the newest candles of the aggregates it has got so far (`Holds`,
`Got`); two stores that hold the newest candles of the same history agree
(`CandlesAgree`).

`DataClientProofs` shows `NeverAheadOfSupplier`, `OkIsHonest` and `DataInOrder`
for every set of functions and any number of messages. The first speaks of the
state only; the inductive invariant adds what is on its way: an "authenticated"
or "subscribed" frame that was read or can be read was sent by a supplier that
had accepted, and before the connection is accepted nothing is on its way. It
holds for the frames behind a refusal too, which the library still dispatches
after `stop()`. For the second, a rejection is never forgotten, also when more
frames are dispatched after `stop()`, and without one only a subscribed client
stops. For the third, the log of a function is what it was given followed by
what is on its way (`Log`), through the buffer of the library and the socket: it
holds the data in order, all of it while the connection is open, and no data
comes before the confirmation, so that no frame is lost to a client that does
not take messages for data yet (`OrderInv`).

`StrategyProofs` shows the six safety properties of the strategy and the
refinement of `TradeCycle`. `BooksMatchAccount` speaks of the states between two
callbacks; in between, `quantity_` is not yet written and an order is open. The
invariant gives, for every `pc`, the number of shares the account must hold
(`Shares`) and the cash that an open buy order may still take (`Committed`):
the account holds at least `Shares` whatever is lost (`Held`), exactly
`Shares` and nothing of another stock unless a buy order was lost (`Books`), and
the cash less `Committed` is above the reserve (`Money`), which starts from the
arithmetic of `AffordableShares`. There is a lemma per action. The refinement
shows that each action, from a state of the invariant, is a step of the cycle or
leaves it alone, with the lost orders as a case of their own.

`HttpClientProofs` shows the safety properties of the client, for any number of
threads, any settings and any limits. The invariant ties the
locks to where the threads are (`Locking`), the requests in flight to the nested
calls of the one thread that holds `request_mutex_` (`Counting`), the depth of
the nesting to the limits a call has used up (`Nesting`), and says what is left
of the connection and of stop()'s flag at each place (`Closing`).
`ServersAreNamed` adds that an SSL connection was verified when it was set up,
and a lemma about `check_host_name`: a name that it takes for the host's stands for
it by RFC 2818.
`FailuresHaveErrors` goes through the ways a call can return (`StepTells`).
After an exception `Counting` gives only a lower bound of the requests in flight,
which is enough for the count not to fall below zero; the rest of
`ClosedOnlyByItsUser`, `StopIsHonoured` and `NothingLeftOpen` is stated for as
long as none has left `send`.
`BodiesAreWhole` rests on `ReadBodyIsNotCut`: whatever is read from a stream
that was cut off is not taken for complete, but for the two
exceptions in the comment of `OkMeansWhole`; a body read in a nested call reaches
the user through the frames below it unchanged. The streams are those of
`HttpContent`: at most one chunk has bytes, and this is what the proof uses to
evaluate the recursive `ReadChunked`.

`AlpacaClientProofs` shows `OkMeansDone`, `AtMostOneOrder`, `AnswerIsTrue` and
`CancelReportsFinalFill` for any orders, symbols, quantities, watchlists and
configurations. The invariant says that requests are well formed (`WellFormed`),
and that the one on its way is the operation's own, or the GET that follows a
204, when the work is done; that a call has created one order at most, and sends
nothing but a GET once it has; and that a response that `Receive` takes for a
success answers a request that was carried out. `AnswerInv` adds that what
was read is among the values the resource has had, and that an order that is
closed stays as it is, which is why the two requests of `cancelOrder` add up to
the truth. `DocumentedBodyIsRead` and `WrongBodyIsRefused` say what becomes of a
body. They follow from the tables of members of `AlpacaTypes`: the macro that
reads a member takes the kind that is documented for it and no wrong one
(`UsualIsTaken`, `ObjectIsRead`), the loops over lists end without an error
exactly when all their elements are read (`LoopSucceeds`), and every operation
expects one of the types of the tables, or no body (`OpExpects`). The bodies are those
that `AlpacaTypes` enumerates: one unusual member at most, lists of up to two
objects.

`StreamingProofs` shows `AuthenticatesWithKeys` and `TradesInOrder`. For the
first, an environment that says it was parsed has both keys, a run goes on only
with such an environment, and `parse` never writes the flag early. For the
second, the trade updates among the texts on their way are those that were sent
and not yet given, in order (`Rest`), and a text is routed to `on_trade_update_`
exactly when it is of that stream (`RouteTrade`): comparing first characters is
enough, since no other stream starts with a `t`.

Every invariant and action property of the passing runs is stated by a theorem.
Only model-checked are the liveness properties `RunEnds`, `DataArrives`,
`CallEnds` (of `AlpacaClient` and of `HttpClient`) and `TradesArrive`: leads-to
under fairness is out of the prover's reach. The properties that are violated
are refuted by TLC.

## Not modelled

* `main`: it keeps no state, and at this commit it does not start the handler
  and the strategy (lines 13-22). What crosses the components' borders is in
  their models: status messages that `DataClient` forwards, callbacks that
  throw, calls that fail.
* Of cpp-httplib: the server, the parsing of URLs and headers, compression,
  multipart and ranges, content providers, socket options. `alpaca::Client`
  uses none of them but the header syntax. Exceptions of the user's own content
  receivers and progress functions. Its example programs.
* The strings in the value types, which are copied; the printing of `Status`
  and of enumerations; queries and JSON bodies of requests.
* The protocol buffers (generated code) and the test helpers.
* The comparisons of the exit rules with candles: no comment says what they
  should be.

## Plan

When `main` starts the handler and the strategy again: their composition.
