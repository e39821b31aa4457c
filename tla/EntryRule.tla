------------------------------ MODULE EntryRule ------------------------------
(***************************************************************************)
(* IsEntryPoint of strategy/chase_momentum_strategy.cc, on the candles that *)
(* the handler's stores hold of one stock, against the five rules that the  *)
(* comment above it lists.  ChaseMomentumStrategy leaves the rule open;     *)
(* here nothing is traded and the rule is looked at after every aggregate.  *)
(*                                                                          *)
(* ten_sec, one_min, five_min   the queues of the stores                    *)
(* now                          the second of the last aggregate            *)
(*                                                                          *)
(* Times are those of one day in New York, prices are in dollars.           *)
(***************************************************************************)
EXTENDS AggData, SequencesExt

CONSTANTS Stock, Shapes, StoreSize,
          Openings,       \* the seconds of the day at which a feed may begin
          Gaps,           \* bound: the seconds between two aggregates
          MaxTicks        \* bound: the aggregates of a feed

VARIABLES ten_sec, one_min, five_min, now, ticks

vars == <<ten_sec, one_min, five_min, now, ticks>>

Init ==
  /\ ten_sec = <<>> /\ one_min = <<>> /\ five_min = <<>>
  /\ now \in Openings
  /\ ticks = 0

(* DataHandler::AddData gives every aggregate to all stores. *)
AddData(second, shape) ==
  LET tick == SecondAggregate(Stock, second, shape)
  IN  /\ ticks < MaxTicks
      /\ ticks' = ticks + 1 /\ now' = second
      /\ ten_sec' = AddDataQueue(10, StoreSize, ten_sec, tick)
      /\ one_min' = AddDataQueue(60, StoreSize, one_min, tick)
      /\ five_min' = AddDataQueue(300, StoreSize, five_min, tick)

Next == \E gap \in Gaps, shape \in Shapes : AddData(now + gap, shape)

Spec == Init /\ [][Next]_vars

-----------------------------------------------------------------------------
(* 9:00 am - 9:25 am and 9:45 am - 3:30 pm, in minutes of the day. *)
IsStrategyTradingHour(minute) == minute \in (540 .. 564) \cup (585 .. 929)

CivilMinute(ts) == ts \div WindowMillis(60)

(* The second candle, if it ended when the first began. *)
HasPrevious == Len(ten_sec) > 1 /\ ten_sec[2].end_ = ten_sec[1].start_

(* Line 100 takes the time the candle began, not the price it opened at. *)
OpenPrice == IF HasPrevious THEN ten_sec[2].start_ ELSE ten_sec[1].open_

(* The loop over the minutes of the last five minutes, newest first. *)
FiveMinuteVolume ==
  LET from == one_min[1].start_ - WindowMillis(300)
      recent == SelectSeq(one_min, LAMBDA agg : agg.start_ >= from)
  IN  FoldLeft(LAMBDA sum, agg : sum + agg.vol_, 0, recent)

IsEntryPoint ==
  /\ IsStrategyTradingHour(CivilMinute(ten_sec[1].end_))
  /\ 10 * ten_sec[1].close_ > 12 * OpenPrice
  /\ ten_sec[1].close_ > 2 /\ ten_sec[1].close_ < 50
  /\ one_min[1].vol_ > 3000
  /\ 2 * ten_sec[1].vol_ < 3 * FiveMinuteVolume

-----------------------------------------------------------------------------
(* Lines 78 to 84. *)
Rules ==
  LET candle == ten_sec[1]
  IN  /\ IsStrategyTradingHour(CivilMinute(candle.end_))
      /\ 10 * candle.close_ > 12 * (IF HasPrevious THEN ten_sec[2].open_ ELSE candle.open_)
      /\ candle.close_ > 2 /\ candle.close_ < 50
      /\ candle.vol_ > 3000
      /\ 2 * candle.vol_ < 3 * five_min[1].vol_

(* Line 77: "Enter trade when the following holds", and then five rules.    *)
EntryFollowsRules == ten_sec # <<>> => (IsEntryPoint <=> Rules)
=============================================================================
