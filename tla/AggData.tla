------------------------------ MODULE AggData ------------------------------
(***************************************************************************)
(* The candle arithmetic of data_handler/agg_data.cc: what AggDataStore     *)
(* does to the queue of one ticker when one aggregate of the data supplier  *)
(* arrives.  The operators are pure; AggDataStore and DataHandler are the   *)
(* state machines built from them.                                          *)
(*                                                                          *)
(* A queue is a sequence whose first element is front(): push_front is      *)
(* <<agg>> \o queue and pop_back drops the last element.  Prices are        *)
(* integers (cents).  acc_vol_, vwap_ and day_open_ are left out: they are  *)
(* copied from the last (or first) tick exactly as close_ (or open_) is.    *)
(***************************************************************************)
EXTENDS Integers, Sequences

CONSTANT NUM_MILLIS_PER_SECOND    \* 1000 in the code

ASSUME MillisAssumption == NUM_MILLIS_PER_SECOND \in Nat \ {0}

MinOf(a, b) == IF a <= b THEN a ELSE b
MaxOf(a, b) == IF a >= b THEN a ELSE b

(* window_size_ is in seconds, timestamps are in milliseconds. *)
WindowMillis(w) == w * NUM_MILLIS_PER_SECOND

(* One second aggregate as the supplier sends it: it starts on a second and *)
(* ends one second later.                                                   *)
SecondAggregate(ticker, second, shape) ==
  [sym |-> ticker, v |-> shape.v, o |-> shape.o, c |-> shape.c,
   h |-> shape.h, l |-> shape.l,
   s |-> second * NUM_MILLIS_PER_SECOND,
   e |-> second * NUM_MILLIS_PER_SECOND + NUM_MILLIS_PER_SECOND]

-----------------------------------------------------------------------------

(* AggregateData(const AggregateDataProto&) *)
AggregateData(tick) ==
  [ticker_ |-> tick.sym, vol_ |-> tick.v, open_ |-> tick.o, close_ |-> tick.c,
   high_ |-> tick.h, low_ |-> tick.l, start_ |-> tick.s, end_ |-> tick.e]

(* Mutants of UpdateWith: the newest high, and the newest volume, alone. *)
UpdateWithLastHigh(agg, tick) ==
  [ticker_ |-> agg.ticker_, vol_ |-> agg.vol_ + tick.v,
   open_ |-> agg.open_, close_ |-> tick.c,
   high_ |-> tick.h, low_ |-> MinOf(agg.low_, tick.l),
   start_ |-> agg.start_, end_ |-> tick.e]

UpdateWithLastVolume(agg, tick) ==
  [ticker_ |-> agg.ticker_, vol_ |-> tick.v,
   open_ |-> agg.open_, close_ |-> tick.c,
   high_ |-> MaxOf(agg.high_, tick.h), low_ |-> MinOf(agg.low_, tick.l),
   start_ |-> agg.start_, end_ |-> tick.e]

UpdateWith(agg, tick) ==
  [ticker_ |-> agg.ticker_, vol_ |-> agg.vol_ + tick.v,
   open_ |-> agg.open_, close_ |-> tick.c,
   high_ |-> MaxOf(agg.high_, tick.h), low_ |-> MinOf(agg.low_, tick.l),
   start_ |-> agg.start_, end_ |-> tick.e]

(* Mutant of IsNewAggregate: the first second of the next window. *)
IsNewAggregateStrict(w, tick, prev_agg) == tick.s - prev_agg.start_ > WindowMillis(w)

IsNewAggregate(w, tick, prev_agg) == tick.s - prev_agg.start_ >= WindowMillis(w)

(* Mutant of AggWindowStart: windows are not aligned. *)
AggWindowStartUnaligned(w, start) == start

AggWindowStart(w, start) == start - (start % WindowMillis(w))

(* The CHECK inside IsClosed, and the value IsClosed returns after it. *)
IsClosedCheck(w, agg) == agg.end_ - agg.start_ <= WindowMillis(w)
IsClosed(w, agg) == agg.end_ - agg.start_ = WindowMillis(w)

OpensWindow(w, queue, tick) ==
  queue = <<>> \/ IsNewAggregate(w, tick, Head(queue))

(* A new window: the first tick's data, with its start aligned. *)
NewWindow(w, tick) ==
  [AggregateData(tick) EXCEPT !.start_ = AggWindowStart(w, tick.s)]

PushFront(n, queue, agg) ==
  IF Len(queue) + 1 > n THEN <<agg>> \o SubSeq(queue, 1, Len(queue) - 1)
                        ELSE <<agg>> \o queue

(* The queue AddData leaves behind; w is window_size_, n the value of the   *)
(* flag agg_data_store_size.                                                *)
AddDataQueue(w, n, queue, tick) ==
  IF OpensWindow(w, queue, tick)
  THEN PushFront(n, queue, NewWindow(w, tick))
  ELSE [queue EXCEPT ![1] = UpdateWith(@, tick)]

(* Mutant of AddDataReturns: a window that closed is reported again. *)
AddDataReturnsTwice(w, n, queue, tick) ==
  \/ IsClosed(w, Head(AddDataQueue(w, n, queue, tick)))
  \/ OpensWindow(w, queue, tick) /\ queue # <<>>

(* What AddData returns: the front is closed now, or a window that had not  *)
(* been closed was superseded.                                              *)
AddDataReturns(w, n, queue, tick) ==
  \/ IsClosed(w, Head(AddDataQueue(w, n, queue, tick)))
  \/ /\ OpensWindow(w, queue, tick)
     /\ queue # <<>>
     /\ ~IsClosed(w, Head(queue))

(* The CHECKs AddData passes through; the process dies where one is false.  *)
(* The first one, ev() = "A", is left out: ticks are such aggregates.       *)
AddDataChecks(w, n, queue, tick) ==
  /\ IF OpensWindow(w, queue, tick)
     THEN queue # <<>> => IsClosedCheck(w, Head(queue))
     ELSE Head(queue).ticker_ = tick.sym
  /\ IsClosedCheck(w, Head(AddDataQueue(w, n, queue, tick)))
=============================================================================
