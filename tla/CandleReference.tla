-------------------------- MODULE CandleReference --------------------------
(***************************************************************************)
(* What candles are, defined from the whole history of a ticker and not     *)
(* incrementally: time is cut into windows of w seconds, and the candle of  *)
(* a window merges the ticks that start in it.  The incremental stores are  *)
(* checked against these definitions.                                       *)
(***************************************************************************)
EXTENDS AggData

(* The sum of a sequence of numbers. *)
Total(seq) ==
  LET sum[i \in 0 .. Len(seq)] == IF i = 0 THEN 0 ELSE sum[i - 1] + seq[i]
  IN  sum[Len(seq)]

(* The volumes of a sequence of candles, 0 for those that are not in own. *)
Volumes(parts, own) ==
  [i \in DOMAIN parts |-> IF i \in own THEN parts[i].vol_ ELSE 0]

(* agg is what the candles parts[i], i in own, of one ticker add up to, in  *)
(* whatever order they are listed: they are told apart by their start.      *)
IsMerge(agg, parts, own) ==
  /\ agg.vol_ = Total(Volumes(parts, own))
  /\ \E first, last \in own :
       /\ \A i \in own : /\ parts[first].start_ <= parts[i].start_
                         /\ parts[i].start_ <= parts[last].start_
       /\ agg.ticker_ = parts[first].ticker_
       /\ agg.open_ = parts[first].open_
       /\ agg.close_ = parts[last].close_
       /\ agg.end_ = parts[last].end_
  /\ \A i \in own : agg.low_ <= parts[i].low_ /\ parts[i].high_ <= agg.high_
  /\ \E i \in own : agg.low_ = parts[i].low_
  /\ \E i \in own : agg.high_ = parts[i].high_

-----------------------------------------------------------------------------
(* Every tick is a candle of its own. *)
Parts(history) == [i \in DOMAIN history |-> AggregateData(history[i])]

(* The ticks of a ticker in its k-th window, and the windows with a tick.   *)
TicksOf(w, ticker, history, k) ==
  {i \in DOMAIN history :
     history[i].sym = ticker /\ history[i].s \div WindowMillis(w) = k}

TradedWindows(w, ticker, history) ==
  {history[i].s \div WindowMillis(w) :
     i \in {j \in DOMAIN history : history[j].sym = ticker}}

IsCandle(w, ticker, history, k, agg) ==
  /\ agg.start_ = k * WindowMillis(w)
  /\ IsMerge(agg, Parts(history), TicksOf(w, ticker, history, k))

(* A queue holds the candles of the n newest windows with a tick, newest    *)
(* first, and no others.                                                    *)
HoldsNewest(w, n, ticker, history, queue) ==
  /\ Len(queue) <= n
  /\ \A i, j \in DOMAIN queue : i < j => queue[j].start_ < queue[i].start_
  /\ \A i \in DOMAIN queue : \E k \in TradedWindows(w, ticker, history) :
       IsCandle(w, ticker, history, k, queue[i])
  /\ \A k \in TradedWindows(w, ticker, history) :
       \/ \E i \in DOMAIN queue : queue[i].start_ = k * WindowMillis(w)
       \/ /\ Len(queue) = n
          /\ \A i \in DOMAIN queue : k * WindowMillis(w) < queue[i].start_

(* The windows that can receive no more ticks of an ordered feed: their     *)
(* last second has come, or a tick of a later window has.                   *)
ClosedWindows(w, ticker, history) ==
  {k \in TradedWindows(w, ticker, history) :
     \E i \in DOMAIN history :
       history[i].sym = ticker /\ k < history[i].e \div WindowMillis(w)}

(* The ticks of each ticker are in order: none came late or twice. *)
InOrder(history) ==
  \A i, j \in DOMAIN history :
    i < j /\ history[i].sym = history[j].sym => history[i].s < history[j].s
=============================================================================
