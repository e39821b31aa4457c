------------------------- MODULE AggDataStoreProofs -------------------------
(***************************************************************************)
(* AggDataStore for every window size, store size, set of tickers, shape of *)
(* aggregate and lateness of the feed: no CHECK fails, the windows of a     *)
(* queue stay aligned, bounded, distinct and newest first, and the prices   *)
(* of a candle stay in its range.  A feed in order leaves the newest        *)
(* candles, AddData returns TRUE exactly when it closes a window, and a     *)
(* queue that is not full holds all volume of its feed.                     *)
(***************************************************************************)
EXTENDS AggDataStore, AggDataProofs

-----------------------------------------------------------------------------
(* The inductive invariant: TypeOK bounds the length of the queues, and the *)
(* CHECK of UpdateWith needs the candles to carry the ticker of their queue. *)
IInv ==
  /\ crashed = FALSE
  /\ returned \in BOOLEAN
  /\ ticks \in [Tickers -> Seq(Tick)]
  /\ DOMAIN data_ = Tickers
  /\ data_ = [ticker \in Tickers |-> data_[ticker]]
  /\ \A ticker \in Tickers : QueueInv(WindowSize, StoreSize, ticker, data_[ticker])

(* A second aggregate of the supplier: its type, its prices, its second. *)
LEMMA TickType ==
  ASSUME NEW ticker \in Tickers, NEW second \in Seconds, NEW shape \in Shapes
  PROVE  /\ second \in Nat
         /\ second * M \in Nat /\ M \in Nat
         /\ SecondAggregate(ticker, second, shape) \in Tick
         /\ SecondAggregate(ticker, second, shape).sym = ticker
         /\ TickFields(SecondAggregate(ticker, second, shape), second)
<1>1. second \in Nat /\ M \in Nat
  BY StoreAssumption, MillisAssumption DEF Seconds, M
<1>2. second * M \in Nat
  BY <1>1
<1>3. SecondAggregate(ticker, second, shape) \in Tick
  BY DEF Tick
<1> QED BY <1>1, <1>2, <1>3, StoreAssumption DEF SecondAggregate, TickFields, M

-----------------------------------------------------------------------------
(* The invariant is inductive. *)

(* The stores are constructed empty. *)
LEMMA InitIInv == Init => IInv
<1> SUFFICES ASSUME Init
             PROVE  IInv
  OBVIOUS
<1>1. \A ticker \in Tickers : QueueInv(WindowSize, StoreSize, ticker, data_[ticker])
  <2> SUFFICES ASSUME NEW ticker \in Tickers
               PROVE  QueueInv(WindowSize, StoreSize, ticker, data_[ticker])
    OBVIOUS
  <2>1. data_[ticker] = <<>>
    BY DEF Init
  <2> QED BY <2>1, EmptyQueueInv, StoreAssumption
<1>2. ticks \in [Tickers -> Seq(Tick)]
  BY DEF Init
<1> QED BY <1>1, <1>2 DEF Init, IInv

(* One aggregate: only the queue of its ticker changes. *)
LEMMA AddDataPreserves ==
  ASSUME IInv, NEW ticker \in Tickers, NEW second \in Seconds,
         NEW shape \in Shapes,
         AddData(SecondAggregate(ticker, second, shape))
  PROVE  IInv'
<1> DEFINE tick == SecondAggregate(ticker, second, shape)
           r == AddDataQueue(WindowSize, StoreSize, data_[ticker], tick)
<1>1. /\ second \in Nat /\ tick \in Tick /\ tick.sym = ticker
      /\ TickFields(tick, second)
  BY TickType
<1> HIDE DEF tick
<1>2. /\ crashed' = ~AddDataChecks(WindowSize, StoreSize, data_[ticker], tick)
      /\ data_' = [data_ EXCEPT ![ticker] = r]
      /\ ticks' = [ticks EXCEPT ![ticker] = Append(@, tick)]
      /\ returned' = AddDataReturns(WindowSize, StoreSize, data_[ticker], tick)
  BY <1>1 DEF AddData, tick
<1>3. QueueInv(WindowSize, StoreSize, tick.sym, data_[ticker])
  BY <1>1 DEF IInv
<1>4. /\ QueueInv(WindowSize, StoreSize, ticker, r)
      /\ AddDataChecks(WindowSize, StoreSize, data_[ticker], tick)
  BY <1>1, <1>3, AddDataInv, StoreAssumption
<1> HIDE DEF r
<1>5. crashed' = FALSE
  BY <1>2, <1>4
<1>6. returned' \in BOOLEAN
  BY <1>2 DEF AddDataReturns, IsClosed
<1>7. ticks' \in [Tickers -> Seq(Tick)]
  BY <1>1, <1>2 DEF IInv
<1>8. /\ DOMAIN data_' = Tickers
      /\ data_' = [t \in Tickers |-> data_'[t]]
      /\ \A t \in Tickers : data_'[t] = IF t = ticker THEN r ELSE data_[t]
  BY <1>2 DEF IInv
<1>9. \A t \in Tickers : QueueInv(WindowSize, StoreSize, t, data_'[t])
  BY <1>4, <1>8 DEF IInv
<1> QED BY <1>5, <1>6, <1>7, <1>8, <1>9 DEF IInv

(* Clear() leaves empty queues. *)
LEMMA ClearPreserves ==
  ASSUME IInv, Clear
  PROVE  IInv'
<1>1. \A ticker \in Tickers : QueueInv(WindowSize, StoreSize, ticker, data_'[ticker])
  <2> SUFFICES ASSUME NEW ticker \in Tickers
               PROVE  QueueInv(WindowSize, StoreSize, ticker, data_'[ticker])
    OBVIOUS
  <2>1. data_'[ticker] = <<>>
    BY DEF Clear
  <2> QED BY <2>1, EmptyQueueInv, StoreAssumption
<1>2. ticks' \in [Tickers -> Seq(Tick)]
  BY DEF Clear
<1> QED BY <1>1, <1>2 DEF Clear, IInv

(* Every step keeps the invariant. *)
LEMMA NextPreserves == IInv /\ [Next]_vars => IInv'
<1> SUFFICES ASSUME IInv, [Next]_vars
             PROVE  IInv'
  OBVIOUS
<1>1. CASE \E ticker \in Tickers, second \in Seconds, shape \in Shapes :
             AddData(SecondAggregate(ticker, second, shape))
  BY <1>1, AddDataPreserves
<1>2. CASE Clear
  BY <1>2, ClearPreserves
<1>3. CASE UNCHANGED vars
  BY <1>3 DEF vars, IInv
<1> QED BY <1>1, <1>2, <1>3 DEF Next

(* In every state the process is alive and all queues are good. *)
THEOREM SpecIInv == Spec => []IInv
  BY InitIInv, NextPreserves, PTL DEF Spec

-----------------------------------------------------------------------------
(* The queues always hold candles, never more than --agg_data_store_size.   *)
THEOREM SpecTypeOK == Spec => []TypeOK
<1>1. IInv => TypeOK
  <2> SUFFICES ASSUME IInv
               PROVE  TypeOK
    OBVIOUS
  <2>1. ASSUME NEW ticker \in Tickers
        PROVE  data_[ticker] \in Seq(Candle_)
    <3>1. CandleOf(ticker) \subseteq Candle_
      BY DEF CandleOf, Candle_
    <3> QED BY <3>1 DEF IInv, QueueInv
  <2> QED BY <2>1 DEF IInv, QueueInv, TypeOK
<1> QED BY <1>1, SpecIInv, PTL

(* AddData never dies on one of its CHECKs, whatever the order in which the *)
(* aggregates of a ticker come.                                             *)
THEOREM SpecNoCheckFails == Spec => []NoCheckFails
<1>1. IInv => NoCheckFails
  BY DEF IInv, NoCheckFails
<1> QED BY <1>1, SpecIInv, PTL

(* The windows of a queue are aligned, bounded, distinct and newest first.  *)
THEOREM SpecWindowsInOrder == Spec => []WindowsInOrder
<1>1. IInv => WindowsInOrder
  <2> SUFFICES ASSUME IInv, NEW ticker \in Tickers
               PROVE  /\ \A i \in DOMAIN data_[ticker] :
                           /\ data_[ticker][i].start_ % WM(WindowSize) = 0
                           /\ data_[ticker][i].end_ <= data_[ticker][i].start_ + WM(WindowSize)
                      /\ \A i, j \in DOMAIN data_[ticker] :
                           i < j => data_[ticker][i].start_ >= data_[ticker][j].start_ + WM(WindowSize)
    BY DEF WindowsInOrder, WM
  <2>1. DOMAIN data_[ticker] = 1 .. Len(data_[ticker])
    BY DEF IInv, QueueInv
  <2> QED BY <2>1 DEF IInv, QueueInv, CandleInv
<1> QED BY <1>1, SpecIInv, PTL

(* The prices of a candle stay between its low and its high. *)
THEOREM SpecPricesInRange == Spec => []PricesInRange
<1>1. IInv => PricesInRange
  <2> SUFFICES ASSUME IInv, NEW ticker \in Tickers, NEW i \in DOMAIN data_[ticker]
               PROVE  CandleInv(WindowSize, ticker, data_[ticker][i])
    BY DEF PricesInRange, CandleInv
  <2>1. DOMAIN data_[ticker] = 1 .. Len(data_[ticker])
    BY DEF IInv, QueueInv
  <2> QED BY <2>1 DEF IInv, QueueInv
<1> QED BY <1>1, SpecIInv, PTL

-----------------------------------------------------------------------------
(* What the queues hold. *)

(* The history of every ticker consists of aggregates of the supplier.      *)
LEMMA FeedOfTicker ==
  ASSUME IInv, NEW ticker \in Tickers
  PROVE  ticks[ticker] \in Seq(Tick) /\ FeedInv(ticks[ticker])
<1>1. ticks[ticker] \in Seq(Tick)
  BY DEF IInv
<1>2. ASSUME NEW i \in DOMAIN ticks[ticker]
      PROVE  \E second \in Nat : TickFields(ticks[ticker][i], second)
  <2>1. ticks[ticker][i] \in Tick
    BY <1>1
  <2>2. PICK t \in Tickers, second \in Seconds, shape \in Shapes :
          ticks[ticker][i] = SecondAggregate(t, second, shape)
    BY <2>1 DEF Tick
  <2> QED BY <2>2, TickType
<1> QED BY <1>1, <1>2 DEF FeedInv

(* Longer is the history of one ticker, by one aggregate it may have. *)
LEMMA FeedAfter ==
  ASSUME NEW history \in Seq(Tick), FeedInv(history), NEW tick \in Tick,
         NEW second \in Nat, TickFields(tick, second)
  PROVE  FeedInv(Append(history, tick))
<1> DEFINE longer == Append(history, tick)
           N == Len(history)
<1>1. /\ N \in Nat /\ DOMAIN history = 1 .. N /\ DOMAIN longer = 1 .. N + 1
      /\ longer[N + 1] = tick /\ \A i \in 1 .. N : longer[i] = history[i]
  BY OneMore
<1> HIDE DEF longer, N
<1>2. \A i : i \in 1 .. N + 1 <=> i \in 1 .. N \/ i = N + 1
  BY <1>1
<1>3. FeedInv(longer)
  BY <1>1, <1>2 DEF FeedInv
<1> QED BY <1>3 DEF longer

(* The step of AddData, as what it does to one queue and its history. *)
LEMMA AddDataStep ==
  ASSUME IInv, NEW ticker \in Tickers, NEW second \in Seconds,
         NEW shape \in Shapes,
         AddData(SecondAggregate(ticker, second, shape))
  PROVE  LET tick == SecondAggregate(ticker, second, shape)
         IN  /\ \A t \in Tickers \ {ticker} : data_'[t] = data_[t] /\ ticks'[t] = ticks[t]
             /\ data_'[ticker] = AddDataQueue(WindowSize, StoreSize, data_[ticker], tick)
             /\ ticks'[ticker] = Append(ticks[ticker], tick)
             /\ returned' = AddDataReturns(WindowSize, StoreSize, data_[ticker], tick)
<1> DEFINE tick == SecondAggregate(ticker, second, shape)
<1>1. tick.sym = ticker
  BY TickType
<1> HIDE DEF tick
<1>2. /\ data_' = [data_ EXCEPT ![ticker] =
                     AddDataQueue(WindowSize, StoreSize, data_[ticker], tick)]
      /\ ticks' = [ticks EXCEPT ![ticker] = Append(ticks[ticker], tick)]
      /\ returned' = AddDataReturns(WindowSize, StoreSize, data_[ticker], tick)
  BY <1>1 DEF AddData, tick
<1>3. DOMAIN data_ = Tickers /\ DOMAIN ticks = Tickers
  BY DEF IInv
<1> QED BY <1>2, <1>3 DEF tick

(* One aggregate leaves the newest candles in every queue.                  *)
LEMMA AddDataKeepsNewest ==
  ASSUME IInv, StoreHoldsNewestCandles,
         NEW ticker \in Tickers, NEW second \in Seconds, NEW shape \in Shapes,
         AddData(SecondAggregate(ticker, second, shape))
  PROVE  StoreHoldsNewestCandles'
<1> DEFINE tick == SecondAggregate(ticker, second, shape)
<1>1. tick \in Tick /\ tick.sym = ticker /\ second \in Nat /\ TickFields(tick, second)
  BY TickType
<1>2. /\ \A t \in Tickers \ {ticker} : data_'[t] = data_[t] /\ ticks'[t] = ticks[t]
      /\ data_'[ticker] = AddDataQueue(WindowSize, StoreSize, data_[ticker], tick)
      /\ ticks'[ticker] = Append(ticks[ticker], tick)
  BY AddDataStep
<1> HIDE DEF tick
<1>3. ASSUME NEW t \in Tickers, InOrder(ticks'[t])
      PROVE  HoldsNewest(WindowSize, StoreSize, t, ticks'[t], data_'[t])
  <2>1. CASE t # ticker
    BY <1>2, <1>3, <2>1 DEF StoreHoldsNewestCandles
  <2>2. CASE t = ticker
    <3> DEFINE history == ticks[ticker]
               q == data_[ticker]
    <3>1. history \in Seq(Tick) /\ FeedInv(history)
      BY FeedOfTicker
    <3>2. QueueInv(WindowSize, StoreSize, tick.sym, q)
      BY <1>1 DEF IInv
    <3>3. InOrder(Append(history, tick))
      BY <1>2, <1>3, <2>2
    <3>4. WindowSize \in Nat \ {0} /\ StoreSize \in Nat \ {0}
      BY StoreAssumption
    <3>5. InOrder(history) => HoldsNewest(WindowSize, StoreSize, tick.sym, history, q)
      BY <1>1 DEF StoreHoldsNewestCandles
    <3> HIDE DEF history, q
    <3>6. InOrder(history)
      BY <1>1, <3>1, <3>3, OrderedBefore
    <3>7. HoldsNewest(WindowSize, StoreSize, tick.sym, Append(history, tick),
                      AddDataQueue(WindowSize, StoreSize, q, tick))
      BY <1>1, <3>1, <3>2, <3>3, <3>4, <3>5, <3>6, AddDataHolds
    <3> QED BY <1>1, <1>2, <2>2, <3>7 DEF history, q
  <2> QED BY <2>1, <2>2
<1> QED BY <1>3 DEF StoreHoldsNewestCandles

(* Empty queues hold the candles, and the volume, of empty histories.       *)
LEMMA NothingHeld ==
  /\ \A ticker : HoldsNewest(WindowSize, StoreSize, ticker, <<>>, <<>>)
  /\ VolumeKept(StoreSize, <<>>, <<>>)
<1>1. WindowSize \in Nat \ {0} /\ StoreSize \in Nat \ {0}
  BY StoreAssumption
<1>2. \A ticker : HoldsNewest(WindowSize, StoreSize, ticker, <<>>, <<>>)
  BY <1>1, NothingHolds
<1>3. Parts(<<>>) = <<>>
  BY DEF Parts
<1> QED BY <1>2, <1>3 DEF VolumeKept

(* As long as the feed of a ticker is in order, its queue holds exactly the *)
(* newest candles of its history, each merged from the ticks of its window. *)
THEOREM SpecStoreHoldsNewest == Spec => []StoreHoldsNewestCandles
<1>1. Init => StoreHoldsNewestCandles
  BY NothingHeld DEF Init, StoreHoldsNewestCandles
<1>2. IInv /\ StoreHoldsNewestCandles /\ [Next]_vars => StoreHoldsNewestCandles'
  <2> SUFFICES ASSUME IInv, StoreHoldsNewestCandles, [Next]_vars
               PROVE  StoreHoldsNewestCandles'
    OBVIOUS
  <2>1. CASE \E ticker \in Tickers, second \in Seconds, shape \in Shapes :
               AddData(SecondAggregate(ticker, second, shape))
    BY <2>1, AddDataKeepsNewest
  <2>2. CASE Clear
    <3>1. \A ticker \in Tickers : data_'[ticker] = <<>> /\ ticks'[ticker] = <<>>
      BY <2>2 DEF Clear
    <3> QED BY <3>1, NothingHeld DEF StoreHoldsNewestCandles
  <2>3. CASE UNCHANGED vars
    BY <2>3 DEF vars, StoreHoldsNewestCandles
  <2> QED BY <2>1, <2>2, <2>3 DEF Next
<1> QED BY <1>1, <1>2, SpecIInv, PTL DEF Spec

(* AddData returns true exactly for the aggregate that closes a window that *)
(* was not closed before, and for no other.                                 *)
THEOREM SpecReturnReportsClosing == Spec => ReturnReportsClosing
<1>1. IInv /\ StoreHoldsNewestCandles /\ [Next]_vars
        => [\A ticker \in Tickers :
              (/\ Len(ticks'[ticker]) > Len(ticks[ticker])
               /\ InOrder(ticks'[ticker])) =>
                (returned' <=> ClosedWindows(WindowSize, ticker, ticks'[ticker])
                                 # ClosedWindows(WindowSize, ticker, ticks[ticker]))]_vars
  <2> SUFFICES ASSUME IInv, StoreHoldsNewestCandles, Next,
                      NEW t \in Tickers,
                      Len(ticks'[t]) > Len(ticks[t]), InOrder(ticks'[t])
               PROVE  returned' <=> ClosedWindows(WindowSize, t, ticks'[t])
                                      # ClosedWindows(WindowSize, t, ticks[t])
    OBVIOUS
  <2>1. ticks[t] \in Seq(Tick) /\ Len(ticks[t]) \in Nat
    BY FeedOfTicker
  <2>2. CASE \E ticker \in Tickers, second \in Seconds, shape \in Shapes :
               AddData(SecondAggregate(ticker, second, shape))
    <3>1. PICK ticker \in Tickers, second \in Seconds, shape \in Shapes :
            AddData(SecondAggregate(ticker, second, shape))
      BY <2>2
    <3> DEFINE tick == SecondAggregate(ticker, second, shape)
    <3>2. tick \in Tick /\ tick.sym = ticker /\ second \in Nat /\ TickFields(tick, second)
      BY TickType
    <3>3. /\ \A u \in Tickers \ {ticker} : ticks'[u] = ticks[u]
          /\ ticks'[ticker] = Append(ticks[ticker], tick)
          /\ returned' = AddDataReturns(WindowSize, StoreSize, data_[ticker], tick)
      BY <3>1, AddDataStep
    <3> HIDE DEF tick
    <3>4. t = ticker
      BY <2>1, <3>3
    <3> DEFINE history == ticks[ticker]
               q == data_[ticker]
    <3>5. history \in Seq(Tick) /\ FeedInv(history)
      BY FeedOfTicker
    <3>6. QueueInv(WindowSize, StoreSize, tick.sym, q)
      BY <3>2 DEF IInv
    <3>7. InOrder(Append(history, tick))
      BY <3>3, <3>4
    <3>8. WindowSize \in Nat \ {0} /\ StoreSize \in Nat \ {0}
      BY StoreAssumption
    <3>9. InOrder(history) => HoldsNewest(WindowSize, StoreSize, tick.sym, history, q)
      BY <3>2 DEF StoreHoldsNewestCandles
    <3> HIDE DEF history, q
    <3>10. InOrder(history) /\ FeedInv(Append(history, tick))
      BY <3>2, <3>5, <3>7, OrderedBefore, FeedAfter
    <3>11. AddDataReturns(WindowSize, StoreSize, q, tick)
             <=> ClosedWindows(WindowSize, tick.sym, Append(history, tick))
                   # ClosedWindows(WindowSize, tick.sym, history)
      BY <3>2, <3>5, <3>6, <3>7, <3>8, <3>9, <3>10, AddDataCloses
    <3> QED BY <3>2, <3>3, <3>4, <3>11 DEF history, q
  <2>3. CASE Clear
    <3>1. Len(ticks'[t]) = 0
      BY <2>3 DEF Clear
    <3> QED BY <2>1, <3>1
  <2> QED BY <2>2, <2>3 DEF Next
<1> QED BY <1>1, SpecIInv, SpecStoreHoldsNewest, PTL DEF Spec, ReturnReportsClosing

(* Until a candle is evicted, the candles of a ticker hold the volume of    *)
(* each of its aggregates, in whatever order they came.                     *)
THEOREM SpecVolumeConserved == Spec => []VolumeConserved
<1>a. VolumeConserved <=> \A t \in Tickers : VolumeKept(StoreSize, ticks[t], data_[t])
  BY DEF VolumeConserved, VolumeKept
<1>1. Init => VolumeConserved
  BY <1>a, NothingHeld DEF Init
<1>2. IInv /\ VolumeConserved /\ [Next]_vars => VolumeConserved'
  <2> SUFFICES ASSUME IInv, VolumeConserved, [Next]_vars, NEW t \in Tickers
               PROVE  VolumeKept(StoreSize, ticks'[t], data_'[t])
    BY DEF VolumeConserved, VolumeKept
  <2>a. \A u \in Tickers : VolumeKept(StoreSize, ticks[u], data_[u])
    BY <1>a
  <2>1. CASE \E ticker \in Tickers, second \in Seconds, shape \in Shapes :
               AddData(SecondAggregate(ticker, second, shape))
    <3>1. PICK ticker \in Tickers, second \in Seconds, shape \in Shapes :
            AddData(SecondAggregate(ticker, second, shape))
      BY <2>1
    <3> DEFINE tick == SecondAggregate(ticker, second, shape)
    <3>2. tick \in Tick /\ tick.sym = ticker /\ second \in Nat /\ TickFields(tick, second)
      BY TickType
    <3>3. /\ \A u \in Tickers \ {ticker} : data_'[u] = data_[u] /\ ticks'[u] = ticks[u]
          /\ data_'[ticker] = AddDataQueue(WindowSize, StoreSize, data_[ticker], tick)
          /\ ticks'[ticker] = Append(ticks[ticker], tick)
      BY <3>1, AddDataStep
    <3> HIDE DEF tick
    <3>4. CASE t # ticker
      BY <2>a, <3>3, <3>4
    <3>5. CASE t = ticker
      <4> DEFINE history == ticks[ticker]
                 q == data_[ticker]
      <4>1. history \in Seq(Tick) /\ FeedInv(history)
        BY FeedOfTicker
      <4>2. QueueInv(WindowSize, StoreSize, tick.sym, q)
        BY <3>2 DEF IInv
      <4>3. VolumeKept(StoreSize, history, q)
        BY <2>a
      <4>4. WindowSize \in Nat \ {0} /\ StoreSize \in Nat \ {0}
        BY StoreAssumption
      <4> HIDE DEF history, q
      <4>5. VolumeKept(StoreSize, Append(history, tick),
                       AddDataQueue(WindowSize, StoreSize, q, tick))
        BY <3>2, <4>1, <4>2, <4>3, <4>4, AddDataVolume
      <4> QED BY <3>3, <3>5, <4>5 DEF history, q
    <3> QED BY <3>4, <3>5
  <2>2. CASE Clear
    <3>1. data_'[t] = <<>> /\ ticks'[t] = <<>>
      BY <2>2 DEF Clear
    <3> QED BY <3>1, NothingHeld
  <2>3. CASE UNCHANGED vars
    BY <2>a, <2>3 DEF vars
  <2> QED BY <2>1, <2>2, <2>3 DEF Next
<1> QED BY <1>1, <1>2, SpecIInv, PTL DEF Spec
=============================================================================
