---------------------------- MODULE AggDataStore ----------------------------
(***************************************************************************)
(* class AggDataStore of data_handler/agg_data.{h,cc}: one store of candles *)
(* of window_size_ seconds, fed with the second aggregates of the supplier. *)
(*                                                                          *)
(* data_       the map from ticker to queue; a ticker that is not in the    *)
(*             map and one whose queue is empty are alike (operator[])      *)
(* crashed     a CHECK of AddData was false: the process is gone            *)
(* returned    what the last AddData returned                               *)
(* ticks       history: the aggregates each queue was given                 *)
(*                                                                          *)
(* The supplier orders the aggregates of a ticker by time, and sends none   *)
(* for a second without a trade.  Slack lets them come late or twice: an    *)
(* aggregate is sent unless one Slack seconds younger was sent before it.   *)
(* Slack = 0 is the ordered feed.                                           *)
(***************************************************************************)
EXTENDS CandleReference

CONSTANTS Tickers,        \* stock symbols
          Shapes,         \* volume and prices an aggregate may carry
          WindowSize,     \* window_size_, in seconds
          StoreSize,      \* --agg_data_store_size
          Slack,          \* how late an aggregate may come, 0 for never
          MaxSecond,      \* bound: the last second of the feed
          MaxTicks        \* bound: the aggregates of one ticker

ASSUME StoreAssumption ==
  /\ WindowSize \in Nat \ {0}
  /\ StoreSize \in Nat \ {0}
  /\ Slack \in Nat
  /\ MaxSecond \in Nat
  /\ MaxTicks \in Nat
  /\ \A shape \in Shapes : /\ shape.v \in Nat
                           /\ shape.o \in Int /\ shape.c \in Int
                           /\ shape.h \in Int /\ shape.l \in Int
                           /\ shape.l <= shape.o /\ shape.o <= shape.h
                           /\ shape.l <= shape.c /\ shape.c <= shape.h

VARIABLES data_, crashed, returned, ticks

vars == <<data_, crashed, returned, ticks>>

Seconds == 0 .. MaxSecond

Init ==
  /\ data_ = [ticker \in Tickers |-> <<>>]
  /\ crashed = FALSE
  /\ returned = FALSE
  /\ ticks = [ticker \in Tickers |-> <<>>]

MayArrive(tick) ==
  \A i \in DOMAIN ticks[tick.sym] :
    ticks[tick.sym][i].s < tick.s + Slack * NUM_MILLIS_PER_SECOND

AddData(tick) ==
  /\ ~crashed
  /\ Len(ticks[tick.sym]) < MaxTicks
  /\ MayArrive(tick)
  /\ crashed' = ~AddDataChecks(WindowSize, StoreSize, data_[tick.sym], tick)
  /\ data_' = [data_ EXCEPT
                 ![tick.sym] = AddDataQueue(WindowSize, StoreSize, @, tick)]
  /\ returned' = AddDataReturns(WindowSize, StoreSize, data_[tick.sym], tick)
  /\ ticks' = [ticks EXCEPT ![tick.sym] = Append(@, tick)]

Clear ==
  /\ ~crashed
  /\ data_' = [ticker \in Tickers |-> <<>>]
  /\ ticks' = [ticker \in Tickers |-> <<>>]
  /\ UNCHANGED <<crashed, returned>>

Next ==
  \/ \E ticker \in Tickers, second \in Seconds, shape \in Shapes :
       AddData(SecondAggregate(ticker, second, shape))
  \/ Clear

Spec == Init /\ [][Next]_vars

-----------------------------------------------------------------------------
Candle_ == [ticker_ : Tickers, vol_ : Nat, open_ : Int, close_ : Int,
            high_ : Int, low_ : Int, start_ : Nat, end_ : Nat]

Tick == {SecondAggregate(ticker, second, shape) :
           ticker \in Tickers, second \in Seconds, shape \in Shapes}

(* Every queue holds candles, at most --agg_data_store_size of them. *)
TypeOK ==
  /\ data_ \in [Tickers -> Seq(Candle_)]
  /\ crashed \in BOOLEAN
  /\ returned \in BOOLEAN
  /\ ticks \in [Tickers -> Seq(Tick)]
  /\ \A ticker \in Tickers : Len(data_[ticker]) <= StoreSize

(* No CHECK of AddData, UpdateWith or IsClosed ever fails: the time span of *)
(* a candle never outgrows its window, in whatever order the aggregates     *)
(* come, so the trader cannot be taken down by a late or repeated one.      *)
NoCheckFails == ~crashed

(* The candles of a queue are those of distinct windows, newest first, each *)
(* starting on a boundary of its window size and none reaching into the     *)
(* next: what strategies assume when they index the queue by age.           *)
WindowsInOrder ==
  \A ticker \in Tickers :
    /\ \A i \in DOMAIN data_[ticker] :
         /\ data_[ticker][i].start_ % WindowMillis(WindowSize) = 0
         /\ data_[ticker][i].end_ <= data_[ticker][i].start_ + WindowMillis(WindowSize)
    /\ \A i, j \in DOMAIN data_[ticker] :
         i < j => data_[ticker][i].start_ >= data_[ticker][j].start_
                                               + WindowMillis(WindowSize)

(* The prices of a candle stay between its low and its high, whichever      *)
(* aggregates, late ones included, were merged into it.                     *)
PricesInRange ==
  \A ticker \in Tickers : \A i \in DOMAIN data_[ticker] :
    LET agg == data_[ticker][i]
    IN  /\ agg.low_ <= agg.open_ /\ agg.open_ <= agg.high_
        /\ agg.low_ <= agg.close_ /\ agg.close_ <= agg.high_

(* As long as its feed is in order, a ticker's queue holds exactly the      *)
(* newest candles of its history: nothing is lost, counted twice or put     *)
(* into the wrong window by the update, the alignment and the eviction of   *)
(* AddData.                                                                 *)
StoreHoldsNewestCandles ==
  \A ticker \in Tickers :
    InOrder(ticks[ticker]) =>
      HoldsNewest(WindowSize, StoreSize, ticker, ticks[ticker], data_[ticker])

(* agg_data.h:45-50: as long as the feed is in order AddData returns true   *)
(* exactly when the aggregate closes a window that was not closed before,   *)
(* by being its last second or by being the first beyond it; a window that  *)
(* closed with its last second is not reported again when the next opens.   *)
ReturnReportsClosing ==
  [][\A ticker \in Tickers :
       (/\ Len(ticks'[ticker]) > Len(ticks[ticker])
        /\ InOrder(ticks'[ticker])) =>
         (returned' <=> ClosedWindows(WindowSize, ticker, ticks'[ticker])
                          # ClosedWindows(WindowSize, ticker, ticks[ticker]))]_vars

(* Volume is never lost: as long as no candle was evicted, the candles hold *)
(* the volume of every aggregate, late and repeated ones included.          *)
VolumeConserved ==
  \A ticker \in Tickers :
    Len(data_[ticker]) < StoreSize =>
      Total(Volumes(data_[ticker], DOMAIN data_[ticker]))
        = Total(Volumes(Parts(ticks[ticker]), DOMAIN ticks[ticker]))
=============================================================================
