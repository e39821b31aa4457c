---------------------------- MODULE DataHandler ----------------------------
(***************************************************************************)
(* class DataHandler of data_handler/data_handler.{h,cc}: it parses a       *)
(* message of the supplier into aggregates, gives each aggregate to its     *)
(* four stores and then calls every registered strategy callback.           *)
(*                                                                          *)
(* agg_data_      the stores: index -> ticker -> queue of candles           *)
(* strategy_cb_   the names of the registered callbacks                     *)
(* crashed        a CHECK failed, or a callback threw: the process is gone  *)
(*                                                                          *)
(* One call of ProcessMessage takes several steps, so that a callback can   *)
(* be watched at the state it runs in:                                      *)
(* aggs           the aggregates of the message still to be added           *)
(* stored         how many stores have been given Head(aggs)                *)
(* to_call        the callbacks still to be called for Head(aggs)           *)
(*                                                                          *)
(* History: added (every aggregate whose AddData began), calls (what each   *)
(* callback was called with), since (Len(added) when it was registered).    *)
(***************************************************************************)
EXTENDS CandleReference

CONSTANTS Tickers, Shapes, Names,
          WindowSizes,    \* DataStoreIndex -> seconds: <<1, 10, 60, 300>>
          StoreSize,      \* --agg_data_store_size
          MaxSecond,      \* bound: the last second of the feed
          MaxBatch,       \* bound: aggregates in one message
          MaxAdded        \* bound: aggregates in all

ASSUME HandlerAssumption ==
  /\ WindowSizes \in Seq(Nat \ {0}) /\ WindowSizes # <<>>
  /\ \A fine, coarse \in DOMAIN WindowSizes :
       fine < coarse => WindowSizes[coarse] % WindowSizes[fine] = 0
  /\ StoreSize \in Nat \ {0}
  /\ {MaxSecond, MaxBatch, MaxAdded} \subseteq Nat
  /\ \A shape \in Shapes : /\ shape.v \in Nat
                           /\ shape.o \in Int /\ shape.c \in Int
                           /\ shape.h \in Int /\ shape.l \in Int
                           /\ shape.l <= shape.o /\ shape.o <= shape.h
                           /\ shape.l <= shape.c /\ shape.c <= shape.h

VARIABLES agg_data_, strategy_cb_, crashed, aggs, stored, to_call,
          added, calls, since

control == <<aggs, stored, to_call>>
history == <<added, calls, since>>
vars == <<agg_data_, strategy_cb_, crashed, control, history>>

DataStoreIndex == DOMAIN WindowSizes
NUM_DATA_STORE == Len(WindowSizes)

Tick == {SecondAggregate(ticker, second, shape) :
           ticker \in Tickers, second \in 0 .. MaxSecond, shape \in Shapes}

(* Aggregates in the order of the supplier: those of one ticker by time. *)
Ordered(seq) ==
  \A i, j \in DOMAIN seq : i < j /\ seq[i].sym = seq[j].sym => seq[i].s < seq[j].s

Batches == UNION {[1 .. n -> Tick] : n \in 1 .. MaxBatch}

Idle == aggs = <<>> /\ ~crashed

-----------------------------------------------------------------------------
Init ==
  /\ agg_data_ = [index \in DataStoreIndex |-> [ticker \in Tickers |-> <<>>]]
  /\ strategy_cb_ = {}
  /\ crashed = FALSE
  /\ aggs = <<>> /\ stored = 0 /\ to_call = {}
  /\ added = <<>>
  /\ calls = [name \in Names |-> <<>>]
  /\ since = [name \in Names |-> 0]

(* Both callers ignore the returned status; a name that is registered       *)
(* already (AlreadyExists), or not at all (NotFound), changes nothing.      *)
RegisterCallback(name) ==
  /\ Idle
  /\ name \notin strategy_cb_
  /\ strategy_cb_' = strategy_cb_ \cup {name}
  /\ since' = [since EXCEPT ![name] = Len(added)]
  /\ UNCHANGED <<agg_data_, crashed, control, added, calls>>

UnregisterCallback(name) ==
  /\ Idle
  /\ name \in strategy_cb_
  /\ strategy_cb_' = strategy_cb_ \ {name}
  /\ since' = [since EXCEPT ![name] = 0]
  /\ calls' = [calls EXCEPT ![name] = <<>>]
  /\ UNCHANGED <<agg_data_, crashed, control, added>>

(* ProcessMessage begins: the message parses into a list of aggregates. *)
ProcessMessage(batch) ==
  /\ Idle
  /\ Ordered(added \o batch)
  /\ Len(added \o batch) <= MaxAdded
  /\ aggs' = batch
  /\ UNCHANGED <<agg_data_, strategy_cb_, crashed, stored, to_call,
                 history>>

(* ProcessMessage dies on a message that is not a list of aggregates, or on *)
(* an empty one.  The supplier sends status messages on the same channel.   *)
ProcessBadMessage ==
  /\ Idle
  /\ crashed' = TRUE
  /\ UNCHANGED <<agg_data_, strategy_cb_, control, history>>

(* The callbacks are called when the last store has the aggregate. *)
(* Mutant: after the first store already. *)
DueAfterFirst(index) == IF index = 1 THEN strategy_cb_ ELSE to_call
DueAfter(index) == IF index = NUM_DATA_STORE THEN strategy_cb_ ELSE {}

(* DataHandler::AddData, the first loop: the next store. *)
AddToStore ==
  /\ ~crashed /\ aggs # <<>> /\ stored < NUM_DATA_STORE
  /\ LET tick == Head(aggs)
         index == stored + 1
         w == WindowSizes[index]
     IN  /\ agg_data_' = [agg_data_ EXCEPT ![index][tick.sym] =
                            AddDataQueue(w, StoreSize, @, tick)]
         /\ crashed' = ~AddDataChecks(w, StoreSize, agg_data_[index][tick.sym], tick)
         /\ stored' = index
         /\ to_call' = DueAfter(index)
         /\ added' = IF index = 1 THEN Append(added, tick) ELSE added
  /\ UNCHANGED <<strategy_cb_, aggs, calls, since>>

(* Mutant: the loop ends after one callback. *)
DueWithoutAny(name) == {}
DueWithout(name) == to_call \ {name}

(* DataHandler::AddData, the second loop: the next callback, in the order   *)
(* of a hash map.                                                           *)
CallStrategy(name) ==
  /\ ~crashed /\ name \in to_call
  /\ calls' = [calls EXCEPT ![name] = Append(@, Head(aggs).sym)]
  /\ to_call' = DueWithout(name)
  /\ UNCHANGED <<agg_data_, strategy_cb_, crashed, aggs, stored,
                 added, since>>

(* A callback throws (a strategy parses numbers with std::stoi, std::stod): *)
(* nothing on the way up catches it.                                        *)
CallbackThrows(name) ==
  /\ ~crashed /\ name \in to_call
  /\ crashed' = TRUE
  /\ UNCHANGED <<agg_data_, strategy_cb_, control, history>>

(* The loop of ProcessMessage moves to the next aggregate. *)
NextAggregate ==
  /\ ~crashed /\ aggs # <<>> /\ stored = NUM_DATA_STORE /\ to_call = {}
  /\ aggs' = Tail(aggs)
  /\ stored' = 0
  /\ UNCHANGED <<agg_data_, strategy_cb_, crashed, to_call, history>>

Next ==
  \/ \E name \in Names : RegisterCallback(name) \/ UnregisterCallback(name)
  \/ \E batch \in Batches : ProcessMessage(batch)
  \/ ProcessBadMessage
  \/ AddToStore
  \/ \E name \in Names : CallStrategy(name) \/ CallbackThrows(name)
  \/ NextAggregate

Spec == Init /\ [][Next]_vars

-----------------------------------------------------------------------------
Candle_ == [ticker_ : Tickers, vol_ : Nat, open_ : Int, close_ : Int,
            high_ : Int, low_ : Int, start_ : Nat, end_ : Nat]

TypeOK ==
  /\ agg_data_ \in [DataStoreIndex -> [Tickers -> Seq(Candle_)]]
  /\ strategy_cb_ \subseteq Names
  /\ crashed \in BOOLEAN
  /\ aggs \in Seq(Tick) /\ stored \in 0 .. NUM_DATA_STORE
  /\ to_call \subseteq strategy_cb_
  /\ added \in Seq(Tick)
  /\ calls \in [Names -> Seq(Tickers)]
  /\ since \in [Names -> Nat]

(* A strategy that is called for a tick finds it in all four stores: no     *)
(* callback runs before the last store has the tick, and the one-second     *)
(* candle at the front is the tick itself.                                  *)
CallbacksSeeTheTick ==
  to_call # {} =>
    LET tick == Head(aggs)
    IN  \A index \in DataStoreIndex :
          LET queue == agg_data_[index][tick.sym]
          IN  /\ queue # <<>>
              /\ Head(queue).end_ = tick.e
              /\ Head(queue).close_ = tick.c
              /\ WindowSizes[index] = 1 => Head(queue) = AggregateData(tick)

(* data_handler_test.cc:25-36: every registered callback is called exactly  *)
(* once for every aggregate since its registration, in their order, however *)
(* they were batched into messages; none is skipped or repeated by a        *)
(* registration between two messages, or by a crash in the middle of one.   *)
CallsFollowAggregates ==
  \A name \in strategy_cb_ :
    LET in_progress == stored \in 1 .. NUM_DATA_STORE - 1 \/ name \in to_call
        due == SubSeq(added, since[name] + 1,
                      Len(added) - (IF in_progress THEN 1 ELSE 0))
    IN  calls[name] = [i \in DOMAIN due |-> due[i].sym]

(* The stores die on no message of aggregates: only a message of another    *)
(* kind, or a callback that throws, ends the process.                       *)
StoresNeverCrash == [][AddToStore => ~crashed']_vars

(* The finer candles that lie in the window of a candle, and that none of   *)
(* them was evicted.                                                        *)
FinerCandles(queue, w, start) ==
  {i \in DOMAIN queue : /\ start <= queue[i].start_
                        /\ queue[i].start_ < start + WindowMillis(w)}
AllKept(queue, start) ==
  \/ Len(queue) < StoreSize
  \/ queue[Len(queue)].start_ <= start

(* The four stores tell one story: between two aggregates, and whenever a   *)
(* callback looks, every candle is the sum of the finer candles of its      *)
(* window, in each finer store that still has them all.                     *)
StoresAgree ==
  stored \in {0, NUM_DATA_STORE} =>
    \A fine, coarse \in DataStoreIndex, ticker \in Tickers :
      fine < coarse =>
        \A i \in DOMAIN agg_data_[coarse][ticker] :
          LET agg == agg_data_[coarse][ticker][i]
              queue == agg_data_[fine][ticker]
          IN  AllKept(queue, agg.start_) =>
                IsMerge(agg, queue,
                        FinerCandles(queue, WindowSizes[coarse], agg.start_))
=============================================================================
