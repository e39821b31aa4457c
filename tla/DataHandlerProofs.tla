------------------------- MODULE DataHandlerProofs -------------------------
(***************************************************************************)
(* DataHandler for every set of tickers and callbacks, any number of stores *)
(* of any window sizes, and any messages: the stores never end the process, *)
(* a callback finds the tick it is called for in every store, each callback *)
(* is called once for each aggregate since it was registered, and the       *)
(* candles of a store are the merges of those of the finer stores.          *)
(***************************************************************************)
EXTENDS DataHandler, AggDataProofs

(* The aggregates of the feed so far, and those of the message at hand.     *)
Feed == added \o (IF stored = 0 THEN aggs ELSE Tail(aggs))

(* How many of the aggregates added a store has been given.                 *)
Given(index) ==
  IF stored = 0 \/ index <= stored THEN Len(added) ELSE Len(added) - 1

Queues ==
  /\ DOMAIN agg_data_ = DataStoreIndex
  /\ agg_data_ = [index \in DataStoreIndex |-> agg_data_[index]]
  /\ \A index \in DataStoreIndex :
       /\ DOMAIN agg_data_[index] = Tickers
       /\ agg_data_[index] = [ticker \in Tickers |-> agg_data_[index][ticker]]
       /\ \A ticker \in Tickers :
            QueueInv(WindowSizes[index], StoreSize, ticker, agg_data_[index][ticker])

(* A front never starts after the last tick its store was given.            *)
NotAhead ==
  \A index \in DataStoreIndex, ticker \in Tickers :
    agg_data_[index][ticker] # <<>> =>
      \E i \in 1 .. Given(index) :
        /\ added[i].sym = ticker
        /\ Head(agg_data_[index][ticker]).start_ <= added[i].s

(* The stores that have the tick at hand show it. *)
Fresh ==
  \A index \in 1 .. stored :
    LET queue == agg_data_[index][Head(aggs).sym]
    IN  /\ queue # <<>>
        /\ Head(queue).end_ = Head(aggs).e
        /\ Head(queue).close_ = Head(aggs).c
        /\ WindowSizes[index] = 1 => Head(queue) = AggregateData(Head(aggs))

(* Where ProcessMessage is. *)
Control ==
  /\ strategy_cb_ \subseteq Names
  /\ crashed \in BOOLEAN
  /\ aggs \in Seq(Tick) /\ added \in Seq(Tick)
  /\ stored \in 0 .. NUM_DATA_STORE
  /\ to_call \subseteq strategy_cb_
  /\ to_call # {} => stored = NUM_DATA_STORE /\ aggs # <<>>
  /\ stored > 0 => /\ aggs # <<>> /\ added # <<>>
                   /\ added[Len(added)] = Head(aggs)
  /\ Ordered(Feed)

InProgress(name) == stored \in 1 .. NUM_DATA_STORE - 1 \/ name \in to_call

(* How many calls a registered callback has had. *)
Due(name) == Len(added) - since[name] - (IF InProgress(name) THEN 1 ELSE 0)

Calls ==
  /\ calls \in [Names -> Seq(Tickers)]
  /\ since \in [Names -> Nat]
  /\ \A name \in Names \ strategy_cb_ : calls[name] = <<>>
  /\ \A name \in strategy_cb_ :
       /\ Due(name) \in Nat
       /\ Len(calls[name]) = Due(name)
       /\ \A i \in 1 .. Due(name) : calls[name][i] = added[since[name] + i].sym

IInv == Control /\ Queues /\ NotAhead /\ Fresh /\ Calls

-----------------------------------------------------------------------------
(* The aggregates the supplier sends are those the candle lemmas speak of.  *)
LEMMA TickType ==
  ASSUME NEW tick \in Tick
  PROVE  /\ tick.sym \in Tickers /\ tick.s \in Nat
         /\ \E second \in Nat : TickFields(tick, second)
<1>1. PICK ticker \in Tickers, second \in 0 .. MaxSecond, shape \in Shapes :
        tick = SecondAggregate(ticker, second, shape)
  BY DEF Tick
<1>2. second \in Nat /\ M \in Nat
  BY HandlerAssumption, MillisAssumption DEF M
<1>3. second * M \in Nat
  BY <1>2
<1> QED BY <1>1, <1>2, <1>3, HandlerAssumption DEF SecondAggregate, TickFields, M

(* The window size of a store. *)
LEMMA SizesType ==
  /\ NUM_DATA_STORE \in Nat \ {0} /\ DataStoreIndex = 1 .. NUM_DATA_STORE
  /\ \A index \in DataStoreIndex : WindowSizes[index] \in Nat \ {0}
  /\ StoreSize \in Nat \ {0}
BY HandlerAssumption DEF NUM_DATA_STORE, DataStoreIndex

(* The handler starts with empty stores and no callback. *)
LEMMA InitIInv == Init => IInv
<1> SUFFICES ASSUME Init
             PROVE  IInv
  OBVIOUS
<1>1. Control
  <2>1. <<>> \in Seq(Tick) /\ 0 \in 0 .. NUM_DATA_STORE /\ Feed = <<>>
    BY SizesType DEF Init, Feed
  <2>2. Ordered(<<>>)
    BY DEF Ordered
  <2>3. Ordered(Feed)
    BY <2>1, <2>2
  <2>4. ~(stored > 0)
    BY DEF Init
  <2>5. crashed \in BOOLEAN
    BY DEF Init
  <2> QED BY <2>1, <2>3, <2>4, <2>5 DEF Init, Control
<1>2. Queues
  BY EmptyQueueInv, SizesType DEF Init, Queues
<1>3. NotAhead
  BY DEF Init, NotAhead
<1>4. Fresh
  BY DEF Init, Fresh
<1>5. Calls
  BY DEF Init, Calls
<1> QED BY <1>1, <1>2, <1>3, <1>4, <1>5 DEF IInv
-----------------------------------------------------------------------------
(* A step that gives nothing to a store leaves all that is said of them.    *)
LEMMA SameQueues ==
  ASSUME Control, Queues, NotAhead, Fresh,
         agg_data_' = agg_data_, added' = added, stored' = stored,
         stored > 0 => aggs' = aggs
  PROVE  Queues' /\ NotAhead' /\ Fresh'
<1>1. Queues'
  BY DEF Queues
<1>2. NotAhead'
  <2>1. \A index \in DataStoreIndex : Given(index)' = Given(index)
    BY DEF Given
  <2> QED BY <2>1 DEF NotAhead
<1>3. Fresh'
  <2>1. CASE stored > 0
    BY <2>1 DEF Fresh
  <2>2. CASE ~(stored > 0)
    <3>1. 1 .. stored' = {}
      BY <2>2 DEF Control, NUM_DATA_STORE
    <3> QED BY <3>1 DEF Fresh
  <2> QED BY <2>1, <2>2
<1> QED BY <1>1, <1>2, <1>3

(* A step that calls nothing and adds nothing leaves what is due.           *)
LEMMA SameCalls ==
  ASSUME Calls, strategy_cb_' = strategy_cb_, UNCHANGED history,
         \A name \in strategy_cb_ : InProgress(name)' <=> InProgress(name)
  PROVE  Calls'
<1>1. added' = added /\ calls' = calls /\ since' = since
  BY DEF history
<1>2. \A name \in strategy_cb_ : Due(name)' = Due(name)
  BY <1>1 DEF Due
<1> QED BY <1>1, <1>2 DEF Calls
-----------------------------------------------------------------------------
(* Between two messages. *)

(* A callback that is registered now has missed everything so far. *)
LEMMA RegisterPreserves ==
  ASSUME IInv, NEW name \in Names, RegisterCallback(name)
  PROVE  IInv'
<1> USE DEF IInv, RegisterCallback
<1>1. Control'
  BY DEF Control, Feed, Ordered, control
<1>2. Queues' /\ NotAhead' /\ Fresh'
  BY SameQueues DEF control
<1>3. stored = 0 /\ to_call = {} /\ aggs = <<>>
  BY SizesType DEF Control, Idle
<1>4. Calls'
  <2>1. calls' = calls /\ added' = added /\ stored' = stored /\ to_call' = to_call
    BY DEF control
  <2>2. since' \in [Names -> Nat] /\ since'[name] = Len(added)
    BY DEF Calls, Control
  <2>3. \A other \in Names : other # name => since'[other] = since[other]
    BY DEF Calls
  <2>4. calls[name] = <<>> /\ Len(added) \in Nat
    BY DEF Calls, Control
  <2>5. Due(name)' = 0 /\ ~InProgress(name)'
    BY <1>3, <2>1, <2>2, <2>4 DEF Due, InProgress
  <2>6. \A other \in Names : other # name => Due(other)' = Due(other)
    BY <2>1, <2>3 DEF Due, InProgress
  <2>7. ASSUME NEW other \in strategy_cb_'
        PROVE  /\ Due(other)' \in Nat
               /\ Len(calls'[other]) = Due(other)'
               /\ \A i \in 1 .. Due(other)' :
                    calls'[other][i] = added'[since'[other] + i].sym
    <3>1. CASE other = name
      <4>1. 1 .. Due(other)' = {}
        BY <2>5, <3>1
      <4> QED BY <2>1, <2>4, <2>5, <3>1, <4>1
    <3>2. CASE other # name
      <4>1. other \in strategy_cb_ /\ other \in Names
        BY <3>2 DEF Control
      <4> QED BY <2>1, <2>3, <2>6, <3>2, <4>1 DEF Calls
    <3> QED BY <3>1, <3>2
  <2> QED BY <2>1, <2>2, <2>7 DEF Calls
<1> QED BY <1>1, <1>2, <1>4

(* A callback that is unregistered is forgotten. *)
LEMMA UnregisterPreserves ==
  ASSUME IInv, NEW name \in Names, UnregisterCallback(name)
  PROVE  IInv'
<1> USE DEF IInv, UnregisterCallback
<1>3. stored = 0 /\ to_call = {} /\ aggs = <<>>
  BY SizesType DEF Control, Idle
<1>1. Control'
  BY <1>3 DEF Control, Feed, Ordered, control
<1>2. Queues' /\ NotAhead' /\ Fresh'
  BY SameQueues DEF control
<1>4. Calls'
  <2>1. added' = added /\ stored' = stored /\ to_call' = to_call
    BY DEF control
  <2>2. /\ since' \in [Names -> Nat] /\ calls' \in [Names -> Seq(Tickers)]
        /\ calls'[name] = <<>>
    BY DEF Calls
  <2>3. \A other \in Names : other # name => /\ since'[other] = since[other]
                                             /\ calls'[other] = calls[other]
    BY DEF Calls
  <2>4. \A other \in Names : other # name => Due(other)' = Due(other)
    BY <2>1, <2>3 DEF Due, InProgress
  <2> QED BY <2>1, <2>2, <2>3, <2>4 DEF Calls, Control
<1> QED BY <1>1, <1>2, <1>4

(* A message of aggregates continues the feed. *)
LEMMA ProcessMessagePreserves ==
  ASSUME IInv, NEW batch \in Batches, ProcessMessage(batch)
  PROVE  IInv'
<1> USE DEF IInv, ProcessMessage, history
<1>1. stored = 0 /\ to_call = {}
  BY SizesType DEF Control, Idle
<1>2. batch \in Seq(Tick)
  BY HandlerAssumption DEF Batches
<1>3. Control'
  <2>1. Feed' = added \o batch /\ Ordered(added \o batch)
    BY <1>1 DEF Feed
  <2>2. Ordered(Feed)'
    BY <2>1 DEF Ordered
  <2> QED BY <1>1, <1>2, <2>2 DEF Control
<1>4. Queues' /\ NotAhead' /\ Fresh'
  BY <1>1, SameQueues
<1>5. Calls'
  BY SameCalls DEF InProgress
<1> QED BY <1>3, <1>4, <1>5

(* The end of the process changes nothing else. *)
LEMMA DeathPreserves ==
  ASSUME IInv, crashed' \in BOOLEAN,
         UNCHANGED <<agg_data_, strategy_cb_, control, history>>
  PROVE  IInv'
<1> USE DEF IInv, control, history
<1>1. Control'
  BY DEF Control, Feed, Ordered
<1>2. Queues' /\ NotAhead' /\ Fresh'
  BY SameQueues
<1>3. Calls'
  BY SameCalls DEF InProgress
<1> QED BY <1>1, <1>2, <1>3
-----------------------------------------------------------------------------
(* One aggregate into one store. *)

(* Moving the first of what is left to the end of what is done. *)
LEMMA MoveHead ==
  ASSUME NEW S, NEW a \in Seq(S), NEW b \in Seq(S), b # <<>>
  PROVE  Append(a, Head(b)) \o Tail(b) = a \o b
<1> DEFINE x == Append(a, Head(b)) \o Tail(b)
           y == a \o b
<1>1. /\ Append(a, Head(b)) \in Seq(S) /\ Len(Append(a, Head(b))) = Len(a) + 1
      /\ Tail(b) \in Seq(S) /\ Len(Tail(b)) = Len(b) - 1
      /\ Len(a) \in Nat /\ Len(b) \in Nat \ {0}
  OBVIOUS
<1>2. /\ x \in Seq(S) /\ Len(x) = Len(a) + Len(b)
      /\ y \in Seq(S) /\ Len(y) = Len(a) + Len(b)
  BY <1>1
<1>3. ASSUME NEW i \in 1 .. Len(a) + Len(b)
      PROVE  x[i] = y[i]
  <2>1. CASE i <= Len(a)
    BY <1>1, <2>1
  <2>2. CASE i = Len(a) + 1
    BY <1>1, <2>2
  <2>3. CASE i > Len(a) + 1
    BY <1>1, <2>3
  <2> QED BY <1>1, <2>1, <2>2, <2>3
<1> HIDE DEF x, y
<1>4. x = y
  BY <1>2, <1>3
<1> QED BY <1>4 DEF x, y

(* What is at hand is younger than what is in front. *)
LEMMA FrontIsOlder ==
  ASSUME Control, Queues, NotAhead, aggs # <<>>, stored < NUM_DATA_STORE,
         agg_data_[stored + 1][Head(aggs).sym] # <<>>
  PROVE  Head(agg_data_[stored + 1][Head(aggs).sym]).start_ < Head(aggs).s
<1> DEFINE tick == Head(aggs)
           index == stored + 1
           front == Head(agg_data_[index][tick.sym])
<1>1. /\ aggs \in Seq(Tick) /\ added \in Seq(Tick) /\ tick \in Tick
      /\ stored \in Nat /\ index \in DataStoreIndex
      /\ tick = aggs[1] /\ Len(added) \in Nat /\ Len(aggs) \in Nat \ {0}
  BY SizesType DEF Control
<1>2. tick.sym \in Tickers /\ tick.s \in Nat
  BY <1>1, TickType
<1>3. PICK i \in 1 .. Given(index) :
        added[i].sym = tick.sym /\ front.start_ <= added[i].s
  BY <1>1, <1>2 DEF NotAhead
<1>4. \E j \in DOMAIN Feed : /\ i < j /\ Feed[j] = tick
                             /\ i \in DOMAIN Feed /\ Feed[i] = added[i]
  <2>1. CASE stored = 0
    <3>1. Feed = added \o aggs /\ i \in 1 .. Len(added)
      BY <2>1, <1>3 DEF Feed, Given
    <3>2. /\ Len(added) + 1 \in DOMAIN (added \o aggs)
          /\ (added \o aggs)[Len(added) + 1] = tick
          /\ i \in DOMAIN (added \o aggs) /\ (added \o aggs)[i] = added[i]
          /\ i < Len(added) + 1
      BY <1>1, <3>1
    <3> HIDE DEF tick
    <3> QED BY <3>1, <3>2
  <2>2. CASE stored # 0
    <3>1. /\ Feed = added \o Tail(aggs) /\ i \in 1 .. Len(added) - 1
          /\ added[Len(added)] = tick /\ Tail(aggs) \in Seq(Tick)
      BY <1>1, <2>2, <1>3 DEF Feed, Given, Control
    <3>2. /\ Len(added) \in DOMAIN (added \o Tail(aggs))
          /\ (added \o Tail(aggs))[Len(added)] = tick
          /\ i \in DOMAIN (added \o Tail(aggs))
          /\ (added \o Tail(aggs))[i] = added[i]
          /\ i < Len(added)
      BY <1>1, <3>1
    <3> HIDE DEF tick
    <3> QED BY <3>1, <3>2
  <2> QED BY <2>1, <2>2
<1>5. added[i].s < tick.s
  BY <1>3, <1>4 DEF Control, Ordered
<1>6. i \in 1 .. Len(added)
  BY <1>1, <1>3 DEF Given
<1>7. added[i] \in Tick /\ added[i].s \in Nat
  BY <1>1, <1>6, TickType
<1>8. front.start_ \in Int
  <2>1. QueueInv(WindowSizes[index], StoreSize, tick.sym, agg_data_[index][tick.sym])
    BY <1>1, <1>2 DEF Queues
  <2> DEFINE q == agg_data_[index][tick.sym]
  <2>2. q \in Seq(CandleOf(tick.sym)) /\ q # <<>>
    BY <2>1 DEF QueueInv
  <2> HIDE DEF q
  <2>3. Head(q) \in CandleOf(tick.sym)
    BY <2>2
  <2> QED BY <2>3 DEF CandleOf, q
<1> QED BY <1>2, <1>3, <1>5, <1>7, <1>8

(* What one step of the first loop does. *)
LEMMA AddToStoreEffect ==
  ASSUME IInv, AddToStore
  PROVE  LET tick == Head(aggs)
             index == stored + 1
             queue == agg_data_'[index][tick.sym]
         IN  /\ aggs # <<>> /\ tick \in Tick /\ tick.sym \in Tickers
             /\ tick.s \in Nat /\ index \in DataStoreIndex
             /\ ~crashed'
             /\ QueueInv(WindowSizes[index], StoreSize, tick.sym, queue)
             /\ queue # <<>>
             /\ Head(queue).end_ = tick.e /\ Head(queue).close_ = tick.c
             /\ Head(queue).start_ <= tick.s
             /\ WindowSizes[index] = 1 => Head(queue) = AggregateData(tick)
             /\ agg_data_' = [agg_data_ EXCEPT ![index] =
                                [@ EXCEPT ![tick.sym] = queue]]
             /\ stored' = index
             /\ added' = IF index = 1 THEN Append(added, tick) ELSE added
<1> DEFINE tick == Head(aggs)
           index == stored + 1
           w == WindowSizes[index]
           q == agg_data_[index][tick.sym]
           r == AddDataQueue(w, StoreSize, q, tick)
<1>1. /\ aggs # <<>> /\ stored < NUM_DATA_STORE /\ stored' = index
      /\ agg_data_' = [agg_data_ EXCEPT ![index] = [@ EXCEPT ![tick.sym] = r]]
      /\ crashed' = ~AddDataChecks(w, StoreSize, q, tick)
      /\ added' = IF index = 1 THEN Append(added, tick) ELSE added
  BY DEF AddToStore
<1>2. tick \in Tick /\ index \in DataStoreIndex
  BY <1>1, SizesType DEF IInv, Control
<1>3. tick.sym \in Tickers /\ tick.s \in Nat
  BY <1>2, TickType
<1>4. PICK second \in Nat : TickFields(tick, second)
  BY <1>2, TickType
<1>5. w \in Nat \ {0} /\ StoreSize \in Nat \ {0}
  BY <1>2, SizesType
<1>6. QueueInv(w, StoreSize, tick.sym, q)
  BY <1>2, <1>3 DEF IInv, Queues
<1>7. q # <<>> => Head(q).start_ < tick.s
  BY <1>1, FrontIsOlder DEF IInv
<1>8. agg_data_'[index][tick.sym] = r
  BY <1>1, <1>2, <1>3 DEF IInv, Queues
<1> HIDE DEF q, w, tick, index
<1>9. QueueInv(w, StoreSize, tick.sym, r) /\ AddDataChecks(w, StoreSize, q, tick)
  BY <1>4, <1>5, <1>6, AddDataInv
<1>10. /\ r # <<>>
       /\ Head(r).end_ = tick.e /\ Head(r).close_ = tick.c
       /\ \/ Head(r).start_ <= tick.s
          \/ q # <<>> /\ Head(r).start_ = Head(q).start_
  BY <1>4, <1>5, <1>6, AddDataFront
<1>11. Head(r).start_ <= tick.s
  <2>1. \A x \in Seq(CandleOf(tick.sym)) : x # <<>> => Head(x).start_ \in Nat
    <3>1. \A x \in Seq(CandleOf(tick.sym)) :
            x # <<>> => Head(x) \in CandleOf(tick.sym)
      OBVIOUS
    <3>2. \A agg \in CandleOf(tick.sym) : agg.start_ \in Nat
      BY DEF CandleOf
    <3> QED BY <3>1, <3>2
  <2>2. q # <<>> => Head(q).start_ \in Nat
    BY <1>6, <2>1 DEF QueueInv
  <2> HIDE DEF r
  <2> QED BY <1>3, <1>7, <1>10, <2>2
<1>12. w = 1 => Head(r) = AggregateData(tick)
  BY <1>4, <1>5, <1>6, <1>7, AddDataSecond
<1> HIDE DEF r
<1>13. ~crashed'
  BY <1>1, <1>9
<1> QED
  BY <1>1, <1>2, <1>3, <1>8, <1>9, <1>10, <1>11, <1>12, <1>13 DEF q, w, tick, index

(* It moves the first loop on, and with the last store the second begins. *)
LEMMA AddToStoreControl ==
  ASSUME IInv, AddToStore
  PROVE  Control'
<1> DEFINE tick == Head(aggs)
           index == stored + 1
<1>1. /\ aggs # <<>> /\ tick \in Tick /\ index \in DataStoreIndex
      /\ ~crashed' /\ stored' = index
      /\ added' = IF index = 1 THEN Append(added, tick) ELSE added
  BY AddToStoreEffect
<1>2. /\ to_call' = DueAfter(index) /\ strategy_cb_' = strategy_cb_
      /\ aggs' = aggs
  BY DEF AddToStore
<1>3. /\ strategy_cb_ \subseteq Names /\ stored \in Nat
      /\ aggs \in Seq(Tick) /\ added \in Seq(Tick)
  BY SizesType DEF IInv, Control
<1>4. index \in 0 .. NUM_DATA_STORE
  BY <1>1, SizesType
<1>5. /\ to_call' \subseteq strategy_cb_'
      /\ to_call' # {} => stored' = NUM_DATA_STORE /\ aggs' # <<>>
  BY <1>1, <1>2 DEF DueAfter
<1>6. /\ added' \in Seq(Tick) /\ added' # <<>>
      /\ added'[Len(added')] = Head(aggs')
  <2>1. CASE stored = 0
    <3>1. added' = Append(added, tick)
      BY <1>1, <2>1
    <3> HIDE DEF tick
    <3>2. /\ Append(added, tick) \in Seq(Tick) /\ Append(added, tick) # <<>>
          /\ Append(added, tick)[Len(Append(added, tick))] = tick
      BY <1>1, <1>3
    <3> QED BY <1>2, <3>1, <3>2 DEF tick
  <2>2. CASE stored # 0
    BY <1>1, <1>2, <1>3, <2>2 DEF IInv, Control
  <2> QED BY <2>1, <2>2
<1>7. Feed' = Feed
  <2>1. stored' # 0
    BY <1>1, <1>3
  <2>2. Feed' = added' \o Tail(aggs)
    BY <1>2, <2>1 DEF Feed
  <2>3. CASE stored = 0
    <3>1. added' = Append(added, Head(aggs)) /\ Feed = added \o aggs
      BY <1>1, <2>3 DEF Feed
    <3>2. Append(added, Head(aggs)) \o Tail(aggs) = added \o aggs
      BY <1>1, <1>3, MoveHead
    <3> QED BY <2>2, <3>1, <3>2
  <2>4. CASE stored # 0
    <3>1. added' = added
      BY <1>1, <1>3, <2>4
    <3> QED BY <2>2, <2>4, <3>1 DEF Feed
  <2> QED BY <2>3, <2>4
<1>8. Ordered(Feed)'
  BY <1>7 DEF IInv, Control, Ordered
<1>9. crashed' \in BOOLEAN
  BY <1>1 DEF AddToStore
<1> HIDE DEF tick, index
<1> QED BY <1>1, <1>2, <1>3, <1>4, <1>5, <1>6, <1>8, <1>9 DEF Control

(* The store has the tick in front of the queue of its ticker. *)
LEMMA AddToStoreQueues ==
  ASSUME IInv, AddToStore
  PROVE  Queues' /\ NotAhead' /\ Fresh'
<1> DEFINE tick == Head(aggs)
           index == stored + 1
           queue == agg_data_'[index][tick.sym]
<1>1. /\ aggs # <<>> /\ tick \in Tick /\ tick.sym \in Tickers
      /\ tick.s \in Nat /\ index \in DataStoreIndex
      /\ QueueInv(WindowSizes[index], StoreSize, tick.sym, queue)
      /\ queue # <<>>
      /\ Head(queue).end_ = tick.e /\ Head(queue).close_ = tick.c
      /\ Head(queue).start_ <= tick.s
      /\ WindowSizes[index] = 1 => Head(queue) = AggregateData(tick)
      /\ agg_data_' = [agg_data_ EXCEPT ![index] = [@ EXCEPT ![tick.sym] = queue]]
      /\ stored' = index
      /\ added' = IF index = 1 THEN Append(added, tick) ELSE added
  BY AddToStoreEffect
<1>2. aggs' = aggs
  BY DEF AddToStore
<1>3. /\ stored \in Nat /\ added \in Seq(Tick) /\ Len(added) \in Nat
      /\ DataStoreIndex = 1 .. NUM_DATA_STORE /\ NUM_DATA_STORE \in Nat
  BY SizesType DEF IInv, Control
<1> HIDE DEF tick, queue
<1>4. \A other \in DataStoreIndex, ticker \in Tickers :
        agg_data_'[other][ticker] =
          IF other = index /\ ticker = tick.sym THEN queue
                                                ELSE agg_data_[other][ticker]
  BY <1>1 DEF IInv, Queues
<1>5. Queues'
  <2>1. /\ DOMAIN agg_data_' = DataStoreIndex
        /\ agg_data_' = [other \in DataStoreIndex |-> agg_data_'[other]]
    BY <1>1 DEF IInv, Queues
  <2>2. ASSUME NEW other \in DataStoreIndex
        PROVE  /\ DOMAIN agg_data_'[other] = Tickers
               /\ agg_data_'[other] = [ticker \in Tickers |-> agg_data_'[other][ticker]]
    BY <1>1 DEF IInv, Queues
  <2>3. ASSUME NEW other \in DataStoreIndex, NEW ticker \in Tickers
        PROVE  QueueInv(WindowSizes[other], StoreSize, ticker, agg_data_'[other][ticker])
    BY <1>1, <1>4 DEF IInv, Queues
  <2> QED BY <2>1, <2>2, <2>3 DEF Queues
<1>6. NotAhead'
  <2>1. /\ added' \in Seq(Tick) /\ Len(added') \in Nat /\ added' # <<>>
        /\ added'[Len(added')] = tick
    <3>1. Control' /\ stored' > 0
      BY <1>1, <1>3, AddToStoreControl
    <3> QED BY <1>2, <3>1 DEF Control, tick
  <2>2. \A other \in DataStoreIndex :
          other = index => /\ Given(other)' = Len(added')
                           /\ Given(other)' = Given(other) + 1
    BY <1>1, <1>3 DEF Given
  <2>3. \A other \in DataStoreIndex : other # index => Given(other)' = Given(other)
    BY <1>1, <1>3 DEF Given
  <2>4. \A i \in 1 .. Len(added) : added'[i] = added[i]
    BY <1>1, <1>3
  <2>5. ASSUME NEW other \in DataStoreIndex, NEW ticker \in Tickers,
               agg_data_'[other][ticker] # <<>>
        PROVE  \E i \in 1 .. Given(other)' :
                 /\ added'[i].sym = ticker
                 /\ Head(agg_data_'[other][ticker]).start_ <= added'[i].s
    <3>1. CASE other = index /\ ticker = tick.sym
      <4>1. Len(added') \in 1 .. Given(other)'
        BY <2>1, <2>2, <3>1
      <4> QED BY <1>1, <1>4, <2>1, <3>1, <4>1
    <3>2. CASE ~(other = index /\ ticker = tick.sym)
      <4>1. agg_data_'[other][ticker] = agg_data_[other][ticker]
        BY <1>4, <3>2
      <4>2. PICK i \in 1 .. Given(other) :
              /\ added[i].sym = ticker
              /\ Head(agg_data_[other][ticker]).start_ <= added[i].s
        BY <2>5, <4>1 DEF IInv, NotAhead
      <4>3. Given(other) \in Int /\ Given(other) <= Len(added)
        BY <1>3 DEF Given
      <4>4. i \in 1 .. Len(added) /\ i \in 1 .. Given(other)'
        BY <1>3, <2>2, <2>3, <4>3
      <4> QED BY <2>4, <4>1, <4>2, <4>4
    <3> QED BY <3>1, <3>2
  <2> QED BY <2>5 DEF NotAhead
<1>7. Fresh'
  <2> SUFFICES ASSUME NEW other \in 1 .. index
               PROVE  LET q == agg_data_'[other][tick.sym]
                      IN  /\ q # <<>>
                          /\ Head(q).end_ = tick.e
                          /\ Head(q).close_ = tick.c
                          /\ WindowSizes[other] = 1 => Head(q) = AggregateData(tick)
    BY <1>1, <1>2 DEF Fresh, tick
  <2>1. CASE other = index
    BY <1>1, <2>1 DEF queue
  <2>2. CASE other # index
    <3>1. other \in 1 .. stored /\ other \in DataStoreIndex
      BY <1>1, <1>3, <2>2
    <3>2. agg_data_'[other][tick.sym] = agg_data_[other][tick.sym]
      BY <1>1, <1>4, <2>2, <3>1
    <3> QED BY <3>1, <3>2 DEF IInv, Fresh, tick
  <2> QED BY <2>1, <2>2
<1> QED BY <1>5, <1>6, <1>7

(* With the first store a call becomes due, which is not finished before    *)
(* the callbacks have been called.                                          *)
LEMMA AddToStoreCalls ==
  ASSUME IInv, AddToStore
  PROVE  Calls'
<1> DEFINE tick == Head(aggs)
           index == stored + 1
<1>1. /\ aggs # <<>> /\ tick \in Tick /\ index \in DataStoreIndex
      /\ stored' = index
      /\ added' = IF index = 1 THEN Append(added, tick) ELSE added
  BY AddToStoreEffect
<1>2. /\ to_call' = DueAfter(index) /\ strategy_cb_' = strategy_cb_
      /\ calls' = calls /\ since' = since /\ stored < NUM_DATA_STORE
  BY DEF AddToStore
<1>3. /\ stored \in Nat /\ added \in Seq(Tick) /\ Len(added) \in Nat
      /\ DataStoreIndex = 1 .. NUM_DATA_STORE /\ NUM_DATA_STORE \in Nat
      /\ to_call = {} /\ strategy_cb_ \subseteq Names
  BY <1>2, SizesType DEF IInv, Control
<1>4. \A name \in strategy_cb_ : InProgress(name)'
  BY <1>1, <1>2, <1>3 DEF InProgress, DueAfter
<1>5. CASE stored = 0
  <2>1. added' = Append(added, tick)
    BY <1>1, <1>5
  <2> HIDE DEF tick, index
  <2>2. /\ Len(added') = Len(added) + 1
        /\ \A i \in 1 .. Len(added) : added'[i] = added[i]
    BY <1>1, <1>3, <2>1
  <2>3. ASSUME NEW name \in strategy_cb_
        PROVE  /\ Due(name)' = Due(name) /\ Due(name) \in Nat
               /\ Len(calls'[name]) = Due(name)
               /\ \A k \in 1 .. Due(name) : calls'[name][k] = added'[since'[name] + k].sym
    <3>1. ~InProgress(name) /\ since[name] \in Nat
      BY <1>3, <1>5 DEF InProgress, IInv, Calls
    <3>2. Due(name)' = Len(added') - since'[name] - 1
      BY <1>4, <2>3 DEF Due
    <3>3. Due(name) = Len(added) - since[name]
      BY <1>3, <3>1 DEF Due
    <3>4. Due(name)' = Due(name)
      BY <1>2, <1>3, <2>2, <3>1, <3>2, <3>3
    <3>5. \A k \in 1 .. Due(name) : since[name] + k \in 1 .. Len(added)
      BY <1>3, <3>1, <3>3
    <3> QED BY <1>2, <2>2, <3>4, <3>5 DEF IInv, Calls
  <2> QED BY <1>2, <2>3 DEF IInv, Calls
<1>6. CASE stored # 0
  <2>1. \A name \in strategy_cb_ : InProgress(name)
    BY <1>2, <1>3, <1>6 DEF InProgress
  <2>2. UNCHANGED history
    BY <1>1, <1>2, <1>3, <1>6 DEF history
  <2>3. \A name \in strategy_cb_ : InProgress(name)' <=> InProgress(name)
    BY <1>4, <2>1
  <2> QED BY <1>2, <2>2, <2>3, SameCalls DEF IInv
<1> QED BY <1>5, <1>6
-----------------------------------------------------------------------------
(* The callbacks, and the end of the loop. *)

(* A callback is called with the ticker of the last aggregate. *)
LEMMA CallStrategyPreserves ==
  ASSUME IInv, NEW name \in Names, CallStrategy(name)
  PROVE  IInv'
<1>1. /\ name \in to_call /\ ~crashed
      /\ calls' = [calls EXCEPT ![name] = Append(@, Head(aggs).sym)]
      /\ to_call' = to_call \ {name}
      /\ UNCHANGED <<agg_data_, strategy_cb_, crashed, aggs, stored, added, since>>
  BY DEF CallStrategy, DueWithout
<1>2. /\ name \in strategy_cb_ /\ strategy_cb_ \subseteq Names
      /\ stored = NUM_DATA_STORE /\ NUM_DATA_STORE \in Nat \ {0}
      /\ aggs # <<>> /\ aggs \in Seq(Tick)
      /\ added \in Seq(Tick) /\ Len(added) \in Nat
  BY <1>1, SizesType DEF IInv, Control
<1>3. Control'
  <2>1. Ordered(Feed)'
    BY <1>1 DEF IInv, Control, Ordered, Feed
  <2> QED BY <1>1, <2>1 DEF IInv, Control
<1>4. Queues' /\ NotAhead' /\ Fresh'
  BY <1>1, SameQueues DEF IInv
<1>5. Calls'
  <2>1. added[Len(added)] = Head(aggs) /\ Head(aggs) \in Tick
    BY <1>2 DEF IInv, Control
  <2>2. Head(aggs).sym \in Tickers
    BY <2>1, TickType
  <2>3. calls' \in [Names -> Seq(Tickers)]
    BY <1>1, <2>2 DEF IInv, Calls
  <2>4. \A other \in Names : other # name => /\ calls'[other] = calls[other]
                                             /\ Due(other)' = Due(other)
    BY <1>1 DEF IInv, Calls, Due, InProgress
  <2>5. /\ Due(name)' = Due(name) + 1 /\ Due(name) \in Nat
        /\ since[name] + Due(name) + 1 = Len(added)
    <3>1. InProgress(name) /\ ~InProgress(name)'
      BY <1>1, <1>2 DEF InProgress
    <3>2. Due(name) = Len(added) - since[name] - 1
      BY <3>1 DEF Due
    <3>3. Due(name)' = Len(added) - since[name] - 0
      BY <1>1, <3>1 DEF Due
    <3> QED BY <1>2, <3>2, <3>3 DEF IInv, Calls
  <2>6. /\ Len(calls'[name]) = Due(name)'
        /\ \A i \in 1 .. Due(name)' : calls'[name][i] = added[since[name] + i].sym
    <3>1. /\ calls[name] \in Seq(Tickers) /\ Len(calls[name]) = Due(name)
          /\ \A i \in 1 .. Due(name) : calls[name][i] = added[since[name] + i].sym
          /\ since[name] \in Nat
      BY <1>2 DEF IInv, Calls
    <3>2. calls'[name] = Append(calls[name], Head(aggs).sym)
      BY <1>1 DEF IInv, Calls
    <3>3. /\ Len(calls'[name]) = Due(name) + 1
          /\ calls'[name][Due(name) + 1] = Head(aggs).sym
          /\ \A i \in 1 .. Due(name) : calls'[name][i] = calls[name][i]
      BY <2>2, <3>1, <3>2
    <3>4. added[since[name] + (Due(name) + 1)] = Head(aggs)
      BY <2>1, <2>5, <3>1
    <3>5. ASSUME NEW i \in 1 .. Due(name) + 1
          PROVE  calls'[name][i] = added[since[name] + i].sym
      <4>1. CASE i = Due(name) + 1
        BY <3>3, <3>4, <4>1
      <4>2. CASE i # Due(name) + 1
        <5>1. i \in 1 .. Due(name)
          BY <2>5, <4>2
        <5> QED BY <3>1, <3>3, <5>1
      <4> QED BY <4>1, <4>2
    <3> QED BY <2>5, <3>3, <3>5
  <2>7. Due(name)' \in Nat
    BY <2>5
  <2> QED BY <1>1, <1>2, <2>3, <2>4, <2>6, <2>7 DEF IInv, Calls
<1> QED BY <1>3, <1>4, <1>5 DEF IInv

(* The loop goes on when the last callback has returned. *)
LEMMA NextAggregatePreserves ==
  ASSUME IInv, NextAggregate
  PROVE  IInv'
<1>1. /\ aggs # <<>> /\ stored = NUM_DATA_STORE /\ to_call = {}
      /\ aggs' = Tail(aggs) /\ stored' = 0
      /\ UNCHANGED <<agg_data_, strategy_cb_, crashed, to_call, history>>
      /\ added' = added
  BY DEF NextAggregate, history
<1>2. /\ NUM_DATA_STORE \in Nat \ {0} /\ DataStoreIndex = 1 .. NUM_DATA_STORE
      /\ aggs \in Seq(Tick) /\ added \in Seq(Tick)
  BY SizesType DEF IInv, Control
<1>3. Control'
  <2>1. Feed' = Feed
    BY <1>1, <1>2 DEF Feed
  <2>2. Ordered(Feed)'
    BY <2>1 DEF IInv, Control, Ordered
  <2> QED BY <1>1, <1>2, <2>2 DEF IInv, Control
<1>4. Queues'
  BY <1>1 DEF IInv, Queues
<1>5. NotAhead'
  <2>1. \A index \in DataStoreIndex : Given(index)' = Given(index)
    BY <1>1, <1>2 DEF Given
  <2> QED BY <1>1, <2>1 DEF IInv, NotAhead
<1>6. Fresh'
  <2>1. 1 .. stored' = {}
    BY <1>1
  <2> QED BY <2>1 DEF Fresh
<1>7. Calls'
  <2>1. \A name \in strategy_cb_ : InProgress(name)' <=> InProgress(name)
    BY <1>1, <1>2 DEF InProgress
  <2> QED BY <1>1, <2>1, SameCalls DEF IInv
<1> QED BY <1>3, <1>4, <1>5, <1>6, <1>7 DEF IInv
-----------------------------------------------------------------------------
(* The theorems. *)

(* Every step keeps the invariant. *)
LEMMA NextPreserves == IInv /\ [Next]_vars => IInv'
<1> SUFFICES ASSUME IInv, [Next]_vars
             PROVE  IInv'
  OBVIOUS
<1>1. ASSUME NEW name \in Names, RegisterCallback(name) \/ UnregisterCallback(name)
      PROVE  IInv'
  BY <1>1, RegisterPreserves, UnregisterPreserves
<1>2. ASSUME NEW batch \in Batches, ProcessMessage(batch)
      PROVE  IInv'
  BY <1>2, ProcessMessagePreserves
<1>3. CASE ProcessBadMessage
  <2>1. crashed' \in BOOLEAN
    BY <1>3 DEF ProcessBadMessage
  <2> QED BY <1>3, <2>1, DeathPreserves DEF ProcessBadMessage
<1>4. CASE AddToStore
  BY <1>4, AddToStoreControl, AddToStoreQueues, AddToStoreCalls DEF IInv
<1>5. ASSUME NEW name \in Names, CallStrategy(name)
      PROVE  IInv'
  BY <1>5, CallStrategyPreserves
<1>6. ASSUME NEW name \in Names, CallbackThrows(name)
      PROVE  IInv'
  <2>1. crashed' \in BOOLEAN
    BY <1>6 DEF CallbackThrows
  <2> QED BY <1>6, <2>1, DeathPreserves DEF CallbackThrows
<1>7. CASE NextAggregate
  BY <1>7, NextAggregatePreserves
<1>8. CASE UNCHANGED vars
  <2>1. crashed' \in BOOLEAN
    BY <1>8 DEF vars, IInv, Control
  <2> QED BY <1>8, <2>1, DeathPreserves DEF vars
<1> QED BY <1>1, <1>2, <1>3, <1>4, <1>5, <1>6, <1>7, <1>8 DEF Next

(* The stores are good, up to date and in the order of the feed, and every  *)
(* callback has had its calls, in every state.                              *)
THEOREM SpecIInv == Spec => []IInv
  BY InitIInv, NextPreserves, PTL DEF Spec

(* The stores hold candles, of the tickers they are filed under. *)
THEOREM SpecTypeOK == Spec => []TypeOK
<1>1. IInv => TypeOK
  <2> SUFFICES ASSUME IInv
               PROVE  TypeOK
    OBVIOUS
  <2>1. ASSUME NEW index \in DataStoreIndex, NEW ticker \in Tickers
        PROVE  agg_data_[index][ticker] \in Seq(Candle_)
    <3>1. CandleOf(ticker) \subseteq Candle_
      BY DEF CandleOf, Candle_
    <3> QED BY <3>1 DEF IInv, Queues, QueueInv
  <2>2. agg_data_ \in [DataStoreIndex -> [Tickers -> Seq(Candle_)]]
    BY <2>1 DEF IInv, Queues
  <2> QED BY <2>2 DEF IInv, Control, Calls, TypeOK
<1> QED BY <1>1, SpecIInv, PTL

(* A callback finds the tick it is called for in front of every queue of    *)
(* its ticker, and in the one-second store as a candle of its own.          *)
THEOREM SpecCallbacksSeeTheTick == Spec => []CallbacksSeeTheTick
<1>1. IInv => CallbacksSeeTheTick
  BY SizesType DEF IInv, Control, Fresh, CallbacksSeeTheTick
<1> QED BY <1>1, SpecIInv, PTL

(* Each registered callback is called once for every aggregate since its    *)
(* registration, in their order.                                            *)
THEOREM SpecCallsFollowAggregates == Spec => []CallsFollowAggregates
<1>1. IInv => CallsFollowAggregates
  <2> SUFFICES ASSUME IInv, NEW name \in strategy_cb_
               PROVE  LET due == SubSeq(added, since[name] + 1,
                                        Len(added) - (IF InProgress(name) THEN 1 ELSE 0))
                      IN  calls[name] = [i \in DOMAIN due |-> due[i].sym]
    BY DEF CallsFollowAggregates, InProgress
  <2> DEFINE last == Len(added) - (IF InProgress(name) THEN 1 ELSE 0)
             due == SubSeq(added, since[name] + 1, last)
  <2>1. /\ added \in Seq(Tick) /\ Len(added) \in Nat /\ since[name] \in Nat
        /\ calls[name] \in Seq(Tickers) /\ Len(calls[name]) = Due(name)
        /\ Due(name) \in Nat
        /\ \A i \in 1 .. Due(name) : calls[name][i] = added[since[name] + i].sym
    BY DEF IInv, Control, Calls
  <2>2. last \in Int /\ last <= Len(added) /\ Due(name) = last - since[name]
    BY <2>1 DEF Due
  <2> HIDE DEF last
  <2>3. /\ Len(due) = Due(name) /\ DOMAIN due = 1 .. Due(name)
        /\ \A i \in 1 .. Due(name) : due[i] = added[since[name] + i]
    BY <2>1, <2>2
  <2>4. DOMAIN calls[name] = 1 .. Due(name)
        /\ calls[name] = [i \in DOMAIN calls[name] |-> calls[name][i]]
    BY <2>1
  <2> HIDE DEF due
  <2>5. calls[name] = [i \in DOMAIN due |-> due[i].sym]
    BY <2>1, <2>3, <2>4
  <2> QED BY <2>5 DEF due, last
<1> QED BY <1>1, SpecIInv, PTL

(* No aggregate ever makes a CHECK of one of the stores fail. *)
THEOREM SpecStoresNeverCrash == Spec => StoresNeverCrash
<1>1. IInv => [AddToStore => ~crashed']_vars
  BY AddToStoreEffect
<1> QED BY <1>1, SpecIInv, PTL DEF StoresNeverCrash
-----------------------------------------------------------------------------
(* The stores agree. *)

(* Windows of a size that divides another: each lies in one coarser window. *)
LEMMA FinerWindow ==
  ASSUME NEW fine \in Nat \ {0}, NEW coarse \in Nat \ {0}, coarse % fine = 0,
         NEW s \in Nat, NEW k \in Nat, NEW j \in Nat, s \div WM(fine) = j
  PROVE  s \div WM(coarse) = k
           <=> k * WM(coarse) <= j * WM(fine) /\ j * WM(fine) < k * WM(coarse) + WM(coarse)
<1> DEFINE m == WM(fine)
           R == coarse \div fine
           A == k * R
<1>1. m \in Nat \ {0} /\ WM(coarse) \in Nat \ {0} /\ M \in Nat \ {0}
  BY WindowMillisPositive
<1>2. R \in Nat /\ coarse = R * fine
  <2>1. R \in Nat /\ coarse = R * fine + (coarse % fine)
    BY DivMod
  <2> HIDE DEF R
  <2> QED BY <2>1
<1>3. WM(coarse) = R * m
  <2>1. m = fine * M /\ WM(coarse) = coarse * M
    BY DEF WM, WindowMillis, M
  <2> HIDE DEF R, m
  <2>2. (R * fine) * M = R * (fine * M)
    BY <1>1, <1>2
  <2> QED BY <1>2, <2>1, <2>2
<1>4. A \in Nat /\ k * WM(coarse) = A * m /\ k * WM(coarse) + WM(coarse) = (A + R) * m
  <2> HIDE DEF R, m
  <2>1. A \in Nat
    BY <1>2
  <2>2. k * (R * m) = (k * R) * m /\ (k * R) * m + R * m = (k * R + R) * m
    BY <1>1, <1>2
  <2> QED BY <1>3, <2>1, <2>2
<1>5. j * m <= s /\ s < j * m + m
  BY <1>1, InWindow
<1>6. s \div WM(coarse) = k <=> A * m <= s /\ s < (A + R) * m
  <2> DEFINE mc == WM(coarse)
  <2>1. mc \in Nat \ {0} /\ k * mc = A * m /\ k * mc + mc = (A + R) * m
    BY <1>1, <1>4
  <2> HIDE DEF mc, A, R, m
  <2>2. s \div mc = k <=> k * mc <= s /\ s < k * mc + mc
    BY <2>1, InWindow
  <2> QED BY <2>1, <2>2 DEF mc
<1> DEFINE B == A + R
<1>7. B \in Nat /\ s < (A + R) * m <=> s < B * m
  BY <1>2, <1>4
<1> HIDE DEF A, R, m
<1>8. A * m \in Nat /\ B * m \in Nat /\ j * m \in Nat /\ (j < A => j * m + m <= A * m)
      /\ (B <= j => B * m <= j * m) /\ (j < B => j * m + m <= B * m)
      /\ (A <= j => A * m <= j * m)
  <2>1. B \in Nat
    BY <1>2, <1>4
  <2> HIDE DEF B
  <2>2. (j < A => j * m + m <= A * m) /\ (j < B => j * m + m <= B * m)
    BY <1>1, <1>4, <2>1, WindowOrder
  <2>3. (B < j => B * m < j * m) /\ (A < j => A * m < j * m)
    BY <1>1, <1>4, <2>1, WindowOrder
  <2>4. A * m \in Nat /\ B * m \in Nat /\ j * m \in Nat
    BY <1>1, <1>4, <2>1
  <2> QED BY <1>4, <2>1, <2>2, <2>3, <2>4
<1> DEFINE a == A * m
           b == B * m
           c == j * m
<1>9. /\ a \in Nat /\ b \in Nat /\ c \in Nat /\ c <= s /\ s < c + m /\ m \in Nat
      /\ A \in Nat /\ B \in Nat
      /\ (j < A => c + m <= a) /\ (B <= j => b <= c) /\ (j < B => c + m <= b)
      /\ (A <= j => a <= c)
  BY <1>1, <1>2, <1>4, <1>5, <1>8
<1>10. k * WM(coarse) = a /\ k * WM(coarse) + WM(coarse) = b
  BY <1>4 DEF B
<1>11. s \div WM(coarse) = k <=> a <= s /\ s < b
  BY <1>6 DEF B
<1> HIDE DEF a, b, c, B
<1>12. a <= s <=> a <= c
  <2>1. j < A \/ A <= j
    BY <1>9
  <2>2. CASE j < A
    BY <1>9, <2>2
  <2>3. CASE A <= j
    BY <1>9, <2>3
  <2> QED BY <2>1, <2>2, <2>3
<1>13. s < b <=> c < b
  <2>1. j < B \/ B <= j
    BY <1>9
  <2>2. CASE j < B
    BY <1>1, <1>9, <2>2
  <2>3. CASE B <= j
    BY <1>9, <2>3
  <2> QED BY <2>1, <2>2, <2>3
<1> QED BY <1>10, <1>11, <1>12, <1>13 DEF c, m

(* A candle is the sum of the finer candles of its window, if the finer     *)
(* store still has them all.                                                *)
LEMMA CandlesAgree ==
  ASSUME NEW S, NEW h \in Seq(S), FeedInv(h), InOrder(h), NEW ticker,
         NEW fine \in Nat \ {0}, NEW coarse \in Nat \ {0}, coarse % fine = 0,
         StoreSize \in Nat \ {0},
         NEW q, QueueInv(fine, StoreSize, ticker, q),
         HoldsNewest(fine, StoreSize, ticker, h, q),
         NEW agg, NEW k \in TradedWindows(coarse, ticker, h),
         IsCandle(coarse, ticker, h, k, agg),
         AllKept(q, agg.start_)
  PROVE  IsMerge(agg, q, FinerCandles(q, coarse, agg.start_))
<1> DEFINE N == Len(h)
           parts == Parts(h)
           all == TicksOf(coarse, ticker, h, k)
           L == Len(q)
           own == FinerCandles(q, coarse, agg.start_)
           m == WM(fine)
           W == TradedWindows(fine, ticker, h)
           Group == [j \in 1 .. L |-> TicksOf(fine, ticker, h, q[j].start_ \div m)]
<1>1. m \in Nat \ {0} /\ WM(coarse) \in Nat \ {0}
  BY WindowMillisPositive
<1>2. N \in Nat /\ DOMAIN h = 1 .. N
  OBVIOUS
<1>3. k \in Nat
  <2>1. PICK i \in DOMAIN h : k = h[i].s \div WM(coarse)
    BY DEF TradedWindows, WM
  <2> QED BY <2>1, FeedTypes
<1>4. agg.start_ = k * WM(coarse) /\ IsMerge(agg, parts, all)
  BY DEF IsCandle, WM
<1>5. DOMAIN parts = 1 .. N /\ all \subseteq 1 .. N
  BY <1>2 DEF Parts, TicksOf
<1>6. ASSUME NEW i \in 1 .. N
      PROVE  /\ parts[i].start_ = h[i].s /\ h[i].s \in Nat
             /\ parts[i].vol_ \in Nat /\ parts[i].low_ \in Int /\ parts[i].high_ \in Int
             /\ h[i].s \div m \in Nat
             /\ i \in all <=> h[i].sym = ticker /\ h[i].s \div WM(coarse) = k
  <2>1. /\ h[i].s \in Nat /\ h[i].v \in Nat /\ h[i].l \in Int /\ h[i].h \in Int
        /\ h[i].s \div m \in Nat
    BY <1>2, FeedTypes
  <2>2. parts[i] = AggregateData(h[i])
    BY <1>2 DEF Parts
  <2>3. i \in all <=> h[i].sym = ticker /\ h[i].s \div WM(coarse) = k
    BY <1>2 DEF TicksOf, WM
  <2> HIDE DEF parts, all, m
  <2> QED BY <2>1, <2>2, <2>3 DEF AggregateData
<1>7. \A i1, i2 \in all : parts[i1].start_ = parts[i2].start_ => i1 = i2
  <2> SUFFICES ASSUME NEW i1 \in all, NEW i2 \in all, parts[i1].start_ = parts[i2].start_,
                      i1 # i2
               PROVE  FALSE
    OBVIOUS
  <2>1. i1 \in 1 .. N /\ i2 \in 1 .. N
    BY <1>5
  <2>2. h[i1].s = h[i2].s /\ h[i1].sym = h[i2].sym /\ h[i1].s \in Nat
    BY <1>6, <2>1
  <2>3. i1 < i2 \/ i2 < i1
    BY <2>1
  <2>4. h[i1].s < h[i2].s \/ h[i2].s < h[i1].s
    BY <1>2, <2>1, <2>2, <2>3 DEF InOrder
  <2> QED BY <2>2, <2>4
<1>8. L \in Nat /\ DOMAIN q = 1 .. L
  BY DEF QueueInv
<1>9. ASSUME NEW j \in 1 .. L
      PROVE  LET kj == q[j].start_ \div m
             IN  /\ kj \in W /\ kj \in Nat /\ q[j].start_ = kj * m
                 /\ IsMerge(q[j], parts, Group[j])
  <2>1. PICK kj \in W : IsCandle(fine, ticker, h, kj, q[j])
    BY <1>8 DEF HoldsNewest
  <2>2. q[j].start_ = kj * m /\ IsMerge(q[j], parts, TicksOf(fine, ticker, h, kj))
    BY <2>1 DEF IsCandle, WM
  <2>3. kj \in Nat
    <3>1. PICK i \in DOMAIN h : kj = h[i].s \div WM(fine)
      BY <2>1 DEF TradedWindows, WM
    <3> QED BY <3>1, FeedTypes
  <2> DEFINE start == kj * m
  <2>4. start \in Nat /\ kj * m <= start /\ start < kj * m + m
    BY <1>1, <2>3
  <2> HIDE DEF start
  <2>5. start \div m = kj
    BY <1>1, <2>3, <2>4, InWindow
  <2>6. q[j].start_ \div m = kj
    BY <2>2, <2>5 DEF start
  <2> QED BY <2>1, <2>2, <2>3, <2>6
<1>10. ASSUME NEW j \in 1 .. L, NEW i
       PROVE  i \in Group[j] <=> i \in 1 .. N /\ h[i].sym = ticker
                                 /\ h[i].s \div m = q[j].start_ \div m
  BY <1>2 DEF TicksOf, WM
<1>11. \A j : j \in own <=> /\ j \in 1 .. L /\ k * WM(coarse) <= q[j].start_
                            /\ q[j].start_ < k * WM(coarse) + WM(coarse)
  BY <1>4, <1>8 DEF FinerCandles, WM
<1> HIDE DEF Group, own
<1>12. ASSUME NEW j \in 1 .. L, NEW i \in Group[j]
       PROVE  i \in all <=> j \in own
  <2>1. /\ i \in 1 .. N /\ h[i].sym = ticker /\ h[i].s \in Nat
        /\ h[i].s \div m = q[j].start_ \div m
    BY <1>6, <1>10
  <2> DEFINE kj == q[j].start_ \div m
             s == h[i].s
  <2>2. kj \in Nat /\ q[j].start_ = kj * m
    BY <1>9
  <2>3. s \in Nat /\ s \div WM(fine) = kj
    BY <2>1
  <2> HIDE DEF kj, s
  <2>4. s \div WM(coarse) = k
          <=> k * WM(coarse) <= kj * m /\ kj * m < k * WM(coarse) + WM(coarse)
    BY <1>3, <2>2, <2>3, FinerWindow
  <2>5. i \in all <=> s \div WM(coarse) = k
    BY <1>6, <2>1 DEF s
  <2> QED BY <1>11, <2>2, <2>4, <2>5
<1>13. \A j \in own : Group[j] \subseteq all /\ IsMerge(q[j], parts, Group[j])
  BY <1>9, <1>11, <1>12
<1>14. ASSUME NEW i \in all
       PROVE  \E j \in own : i \in Group[j]
  <2>1. i \in 1 .. N /\ h[i].sym = ticker /\ h[i].s \in Nat /\ h[i].s \div WM(coarse) = k
    BY <1>5, <1>6
  <2> DEFINE s == h[i].s
             ki == s \div m
  <2>2. ki \in Nat /\ ki \in W
    BY <1>2, <1>6, <2>1 DEF TradedWindows, WM
  <2>3. s \in Nat /\ s \div WM(fine) = ki
    BY <2>1
  <2>4. s \div WM(coarse) = k
    BY <2>1
  <2>5. i \in 1 .. N /\ h[i].sym = ticker /\ h[i].s \div m = ki
    BY <2>1
  <2> HIDE DEF s, ki
  <2>6. k * WM(coarse) <= ki * m
    BY <1>3, <2>2, <2>3, <2>4, FinerWindow
  <2>7. \/ \E j \in 1 .. L : q[j].start_ = ki * m
        \/ L = StoreSize /\ \A j \in 1 .. L : ki * m < q[j].start_
    BY <1>8, <2>2 DEF HoldsNewest, WM
  <2>8. CASE \E j \in 1 .. L : q[j].start_ = ki * m
    <3>1. PICK j \in 1 .. L : q[j].start_ = ki * m
      BY <2>8
    <3>2. q[j].start_ \div m = ki
      <4>1. /\ q[j].start_ \div m \in Nat
            /\ q[j].start_ = (q[j].start_ \div m) * m
        BY <1>9
      <4> DEFINE kj == q[j].start_ \div m
      <4>2. kj \in Nat /\ kj * m = ki * m
        BY <3>1, <4>1
      <4> HIDE DEF kj
      <4>3. kj = ki
        BY <1>1, <2>2, <4>2, WindowOrder
      <4> QED BY <4>3 DEF kj
    <3>3. i \in Group[j]
      BY <1>10, <2>5, <3>2
    <3>4. j \in own
      BY <1>12, <3>3
    <3> QED BY <3>3, <3>4
  <2>9. CASE L = StoreSize /\ \A j \in 1 .. L : ki * m < q[j].start_
    <3>1. L \in 1 .. L
      BY <2>9, <1>8
    <3>2. q[L].start_ <= agg.start_
      <4>1. ~(L < StoreSize)
        BY <2>9
      <4> QED BY <4>1 DEF AllKept
    <3>3. ki * m < q[L].start_
      BY <2>9, <3>1
    <3>4. q[L].start_ \in Nat
      <4>1. q[L].start_ \div m \in Nat /\ q[L].start_ = (q[L].start_ \div m) * m
        BY <1>9, <3>1
      <4> DEFINE kj == q[L].start_ \div m
      <4>2. kj \in Nat /\ q[L].start_ = kj * m
        BY <4>1
      <4> HIDE DEF kj
      <4>3. kj * m \in Nat
        BY <1>1, <4>2
      <4> QED BY <4>2, <4>3
    <3> DEFINE x == ki * m
               y == k * WM(coarse)
               z == q[L].start_
    <3>5. x \in Nat /\ y \in Nat /\ z \in Nat /\ y <= x /\ x < z /\ z <= y
      BY <1>1, <1>3, <1>4, <2>2, <2>6, <3>2, <3>3, <3>4
    <3> HIDE DEF x, y, z
    <3> QED BY <3>5
  <2> QED BY <2>7, <2>8, <2>9
<1>15. ASSUME NEW j1 \in own, NEW j2 \in own, j1 # j2
       PROVE  Group[j1] \cap Group[j2] = {}
  <2> SUFFICES ASSUME NEW i \in Group[j1], i \in Group[j2]
               PROVE  FALSE
    OBVIOUS
  <2>1. j1 \in 1 .. L /\ j2 \in 1 .. L
    BY <1>11
  <2>2. q[j1].start_ \div m = q[j2].start_ \div m
    BY <1>10, <2>1
  <2>3. q[j1].start_ = q[j2].start_
    BY <1>9, <2>1, <2>2
  <2>4. j1 < j2 \/ j2 < j1
    BY <1>15, <2>1
  <2>5. q[j1].start_ < q[j2].start_ \/ q[j2].start_ < q[j1].start_
    BY <1>8, <2>1, <2>4 DEF HoldsNewest
  <2>6. q[j1].start_ \in Nat
    <3>1. q[j1] \in CandleOf(ticker)
      BY <1>8, <2>1 DEF QueueInv
    <3> QED BY <3>1 DEF CandleOf
  <2> QED BY <2>3, <2>5, <2>6
<1>16. ASSUME NEW j1 \in own, NEW j2 \in own, NEW i1 \in Group[j1], NEW i2 \in Group[j2],
              parts[i1].start_ <= parts[i2].start_
       PROVE  q[j1].start_ <= q[j2].start_
  <2>1. j1 \in 1 .. L /\ j2 \in 1 .. L
    BY <1>11
  <2>2. /\ i1 \in 1 .. N /\ i2 \in 1 .. N
        /\ h[i1].s \div m = q[j1].start_ \div m /\ h[i2].s \div m = q[j2].start_ \div m
    BY <1>10, <2>1
  <2>3. h[i1].s \in Nat /\ h[i2].s \in Nat /\ h[i1].s <= h[i2].s
    BY <1>6, <1>16, <2>2
  <2> DEFINE a == h[i1].s \div m
             b == h[i2].s \div m
  <2>4. a <= b /\ a \in Nat /\ b \in Nat
    BY <1>1, <2>3, LaterWindow
  <2>5. q[j1].start_ = a * m /\ q[j2].start_ = b * m
    BY <1>9, <2>1, <2>2
  <2> HIDE DEF a, b, m
  <2>6. a * m <= b * m
    <3>1. a < b \/ a = b
      BY <2>4
    <3>2. a < b => a * m < b * m
      BY <1>1, <2>4, WindowOrder
    <3>3. a * m \in Nat /\ b * m \in Nat
      BY <1>1, <2>4
    <3> QED BY <3>1, <3>2, <3>3
  <2> QED BY <2>5, <2>6
<1>17. own \subseteq 1 .. L
  BY <1>11
<1> HIDE DEF N, parts, all, L, m
<1>18. \A i \in 1 .. N : /\ parts[i].vol_ \in Nat /\ parts[i].start_ \in Int
                         /\ parts[i].low_ \in Int /\ parts[i].high_ \in Int
  BY <1>6
<1>19. MergeGroups(N, parts, all, L, q, own, Group)
  BY <1>5, <1>7, <1>8, <1>13, <1>14, <1>15, <1>16, <1>17, <1>18 DEF MergeGroups
<1>20. IsMerge(agg, q, own)
  BY <1>2, <1>4, <1>8, <1>19, MergeOfMerges
<1> QED BY <1>20 DEF own

(* The aggregates a store has been given.                                   *)
Got(index) ==
  IF stored = 0 \/ index <= stored THEN added ELSE SubSeq(added, 1, Len(added) - 1)

(* Each store holds the newest candles of the aggregates it has been given, *)
(* also in the middle of the loop, when the first stores are one ahead.     *)
Holds ==
  \A index \in DataStoreIndex, ticker \in Tickers :
    HoldsNewest(WindowSizes[index], StoreSize, ticker, Got(index), agg_data_[index][ticker])

(* What was added is in order, and consists of aggregates of the supplier.  *)
LEMMA AddedInOrder ==
  ASSUME NEW seq \in Seq(Tick), NEW rest \in Seq(Tick), Ordered(seq \o rest)
  PROVE  InOrder(seq) /\ FeedInv(seq)
<1> DEFINE both == seq \o rest
<1>1. /\ DOMAIN seq \subseteq DOMAIN both
      /\ \A i \in DOMAIN seq : both[i] = seq[i]
  OBVIOUS
<1>2. Ordered(both)
  OBVIOUS
<1> HIDE DEF both
<1>3. InOrder(seq)
  BY <1>1, <1>2 DEF InOrder, Ordered
<1>4. \A i \in DOMAIN seq : seq[i] \in Tick
  OBVIOUS
<1>5. FeedInv(seq)
  BY <1>4, TickType DEF FeedInv
<1> QED BY <1>3, <1>5

(* The step of the first loop, as what it does to one queue and its         *)
(* history.                                                                 *)
LEMMA AddToStoreStep ==
  ASSUME IInv, AddToStore, NEW tick, tick = Head(aggs), NEW index, index = stored + 1
  PROVE  /\ tick \in Tick /\ tick.sym \in Tickers /\ index \in DataStoreIndex
         /\ Got(index) \in Seq(Tick)
         /\ Got(index)' = Append(Got(index), tick)
         /\ InOrder(Got(index)')
         /\ \A i \in DataStoreIndex : i # index => Got(i)' = Got(i)
         /\ agg_data_' = [agg_data_ EXCEPT ![index] =
              [@ EXCEPT ![tick.sym] =
                 AddDataQueue(WindowSizes[index], StoreSize, agg_data_[index][tick.sym], tick)]]
<1>1. /\ aggs # <<>> /\ tick \in Tick /\ index \in DataStoreIndex /\ tick.sym \in Tickers
      /\ stored' = index
      /\ added' = IF index = 1 THEN Append(added, tick) ELSE added
  BY AddToStoreEffect
<1>2. /\ stored \in Nat /\ added \in Seq(Tick) /\ Len(added) \in Nat
      /\ DataStoreIndex \subseteq Nat
      /\ stored > 0 => added # <<>> /\ added[Len(added)] = tick
  BY SizesType DEF IInv, Control
<1>3. agg_data_' = [agg_data_ EXCEPT ![index] =
                     [@ EXCEPT ![tick.sym] =
                        AddDataQueue(WindowSizes[index], StoreSize,
                                     agg_data_[index][tick.sym], tick)]]
  BY DEF AddToStore
<1>4. added' \in Seq(Tick) /\ Got(index)' = added' /\ InOrder(added')
  <2>1. Control' /\ aggs' = aggs
    BY AddToStoreControl DEF AddToStore
  <2>2. stored' # 0
    BY <1>1, <1>2
  <2>3. added' \in Seq(Tick) /\ aggs' \in Seq(Tick) /\ aggs' # <<>> /\ Ordered(Feed')
    BY <1>1, <2>1 DEF Control, Ordered
  <2>4. Feed' = added' \o Tail(aggs')
    BY <2>2 DEF Feed
  <2>5. Tail(aggs') \in Seq(Tick)
    BY <2>3
  <2>6. InOrder(added')
    BY <2>3, <2>4, <2>5, AddedInOrder
  <2>7. Got(index)' = added'
    BY <1>1, <1>2 DEF Got
  <2> QED BY <2>3, <2>6, <2>7
<1>5. CASE stored = 0
  <2>1. index = 1 /\ added' = Append(added, tick) /\ Got(index) = added
    BY <1>1, <1>5 DEF Got
  <2>2. ASSUME NEW i \in DataStoreIndex, i # index
        PROVE  Got(i)' = Got(i)
    <3>1. Got(i) = added
      BY <1>5 DEF Got
    <3>2. Got(i)' = SubSeq(added', 1, Len(added') - 1)
      <4>1. stored' = 1 /\ ~(i <= 1)
        <5>1. i \in Nat /\ i # 0
          BY SizesType
        <5> QED BY <1>1, <2>1, <2>2, <5>1
      <4> QED BY <4>1 DEF Got
    <3>3. SubSeq(Append(added, tick), 1, Len(Append(added, tick)) - 1) = added
      BY <1>1, <1>2
    <3> QED BY <2>1, <3>1, <3>2, <3>3
  <2>3. Got(index) \in Seq(Tick) /\ Got(index)' = Append(Got(index), tick) /\ InOrder(Got(index)')
    <3>1. Got(index)' = added' /\ InOrder(added')
      BY <1>4
    <3> QED BY <1>2, <2>1, <3>1
  <2> QED BY <1>1, <1>3, <2>2, <2>3
<1>6. CASE stored # 0
  <2>1. added' = added /\ added # <<>> /\ added[Len(added)] = tick
    BY <1>1, <1>2, <1>6
  <2>2. Got(index) = SubSeq(added, 1, Len(added) - 1)
    BY <1>1, <1>2, <1>6 DEF Got
  <2>3. Append(SubSeq(added, 1, Len(added) - 1), added[Len(added)]) = added
        /\ SubSeq(added, 1, Len(added) - 1) \in Seq(Tick)
    <3> DEFINE n == Len(added)
               x == SubSeq(added, 1, n - 1)
               y == Append(x, added[n])
    <3>1. n \in Nat \ {0} /\ n - 1 \in Nat /\ DOMAIN added = 1 .. n /\ added[n] \in Tick
      BY <1>2, <2>1
    <3>2. x \in Seq(Tick) /\ Len(x) = n - 1 /\ \A i \in 1 .. n - 1 : x[i] = added[i]
      BY <1>2, <3>1
    <3>a. y \in Seq(Tick)
      BY <3>1, <3>2
    <3> HIDE DEF x, n
    <3>b. /\ DOMAIN y = 1 .. Len(x) + 1 /\ y[Len(x) + 1] = added[n]
          /\ \A i \in 1 .. Len(x) : y[i] = x[i]
      BY <3>1, <3>2, OneMore
    <3>3. /\ y \in Seq(Tick) /\ Len(y) = n
          /\ \A i \in 1 .. n - 1 : y[i] = x[i]
          /\ y[n] = added[n]
      <4>1. Len(x) + 1 = n
        BY <3>1, <3>2
      <4> HIDE DEF y
      <4>2. Len(y) = n
        BY <3>1, <3>a, <3>b, <4>1
      <4> QED BY <3>2, <3>a, <3>b, <4>1, <4>2
    <3> HIDE DEF y
    <3>4. \A i \in 1 .. n : y[i] = added[i]
      <4>1. \A i \in 1 .. n : i \in 1 .. n - 1 \/ i = n
        BY <3>1
      <4> SUFFICES ASSUME NEW i \in 1 .. n
                   PROVE  y[i] = added[i]
        OBVIOUS
      <4>2. CASE i = n
        BY <3>3, <4>2
      <4>3. CASE i \in 1 .. n - 1
        BY <3>2, <3>3, <4>3
      <4> QED BY <4>1, <4>2, <4>3
    <3>5. y = added
      BY <1>2, <3>3, <3>4 DEF n
    <3> QED BY <3>2, <3>5 DEF x, y, n
  <2>4. ASSUME NEW i \in DataStoreIndex, i # index
        PROVE  Got(i)' = Got(i)
    <3>1. i <= stored' <=> i <= stored
      BY <1>1, <1>2, <2>4
    <3>2. stored' # 0
      BY <1>1, <1>2
    <3> QED BY <1>6, <2>1, <3>1, <3>2 DEF Got
  <2>5. Got(index) \in Seq(Tick) /\ Got(index)' = Append(Got(index), tick) /\ InOrder(Got(index)')
    <3>1. Got(index)' = added' /\ InOrder(added')
      BY <1>4
    <3> QED BY <2>1, <2>2, <2>3, <3>1
  <2> QED BY <1>1, <1>3, <2>4, <2>5
<1> QED BY <1>5, <1>6

(* A store that is given an aggregate holds the newest candles of one more; *)
(* the others, and the queues of other tickers, are as they were.           *)
LEMMA AddToStoreHolds ==
  ASSUME IInv, Holds, AddToStore
  PROVE  Holds'
<1>a. PICK tick, index, before, w, q :
        /\ tick = Head(aggs) /\ index = stored + 1
        /\ before = Got(index) /\ w = WindowSizes[index]
        /\ q = agg_data_[index][tick.sym]
  OBVIOUS
<1>1. /\ tick \in Tick /\ tick.sym \in Tickers /\ index \in DataStoreIndex
      /\ before \in Seq(Tick)
      /\ Got(index)' = Append(before, tick)
      /\ InOrder(Got(index)')
      /\ \A i \in DataStoreIndex : i # index => Got(i)' = Got(i)
      /\ agg_data_' = [agg_data_ EXCEPT ![index] =
           [@ EXCEPT ![tick.sym] = AddDataQueue(w, StoreSize, q, tick)]]
  BY <1>a, AddToStoreStep
<1>2. PICK second \in Nat : TickFields(tick, second)
  BY <1>1, TickType
<1>3. w \in Nat \ {0} /\ StoreSize \in Nat \ {0}
  BY <1>a, <1>1, SizesType
<1>4. QueueInv(w, StoreSize, tick.sym, q)
  BY <1>a, <1>1 DEF IInv, Queues
<1>5. FeedInv(before)
  <2>1. \A i \in DOMAIN before : before[i] \in Tick
    BY <1>1
  <2> QED BY <2>1, TickType DEF FeedInv
<1>6. \A t \in Tickers : HoldsNewest(w, StoreSize, t, before, agg_data_[index][t])
  BY <1>a, <1>1 DEF Holds
<1>7. /\ agg_data_'[index][tick.sym] = AddDataQueue(w, StoreSize, q, tick)
      /\ \A t \in Tickers : t # tick.sym => agg_data_'[index][t] = agg_data_[index][t]
      /\ \A i \in DataStoreIndex, t \in Tickers :
           i # index => agg_data_'[i][t] = agg_data_[i][t]
  <2>1. DOMAIN agg_data_ = DataStoreIndex /\ DOMAIN agg_data_[index] = Tickers
    BY <1>1 DEF IInv, Queues
  <2> QED BY <1>1, <2>1
<1>8. InOrder(Append(before, tick))
  BY <1>1
<1>9. HoldsNewest(w, StoreSize, tick.sym, Append(before, tick), AddDataQueue(w, StoreSize, q, tick))
  <2>1. HoldsNewest(w, StoreSize, tick.sym, before, q)
    BY <1>a, <1>1, <1>6
  <2> QED BY <1>1, <1>2, <1>3, <1>4, <1>5, <1>8, <2>1, AddDataHolds
<1>10. ASSUME NEW t \in Tickers, t # tick.sym
       PROVE  HoldsNewest(w, StoreSize, t, Append(before, tick), agg_data_[index][t])
  <2>1. HoldsNewest(w, StoreSize, t, before, agg_data_[index][t])
    BY <1>6
  <2>2. tick.v \in Nat
    BY <1>2 DEF TickFields
  <2> DEFINE other == agg_data_[index][t]
  <2> HIDE DEF other
  <2>3. HoldsNewest(w, StoreSize, t, before, other)
    BY <2>1 DEF other
  <2>4. HoldsNewest(w, StoreSize, t, Append(before, tick), other)
    BY <1>1, <1>3, <1>5, <1>10, <2>2, <2>3, OtherHolds
  <2> QED BY <2>4 DEF other
<1>11. ASSUME NEW i \in DataStoreIndex, NEW t \in Tickers
       PROVE  HoldsNewest(WindowSizes[i], StoreSize, t, Got(i)', agg_data_'[i][t])
  <2>1. CASE i # index
    BY <1>a, <1>1, <1>7, <2>1 DEF Holds
  <2>2. CASE i = index /\ t = tick.sym
    BY <1>a, <1>1, <1>7, <1>9, <2>2
  <2>3. CASE i = index /\ t # tick.sym
    BY <1>a, <1>1, <1>7, <1>10, <2>3
  <2> QED BY <2>1, <2>2, <2>3
<1> QED BY <1>11 DEF Holds

(* In every state each store holds the newest candles of what it was given. *)
LEMMA SpecHolds == Spec => []Holds
<1>1. Init => Holds
  <2> SUFFICES ASSUME Init
               PROVE  Holds
    OBVIOUS
  <2>1. added = <<>> /\ stored = 0
    BY DEF Init
  <2>2. \A index \in DataStoreIndex, ticker \in Tickers :
          agg_data_[index][ticker] = <<>> /\ Got(index) = <<>>
    BY <2>1 DEF Init, Got
  <2> QED BY <2>2, SizesType, NothingHolds DEF Holds
<1>2. IInv /\ Holds /\ [Next]_vars => Holds'
  <2> SUFFICES ASSUME IInv, Holds, [Next]_vars
               PROVE  Holds'
    OBVIOUS
  <2>1. CASE AddToStore
    BY <2>1, AddToStoreHolds
  <2>2. CASE NextAggregate
    <3>1. /\ stored = NUM_DATA_STORE /\ stored' = 0
          /\ added' = added /\ agg_data_' = agg_data_
      BY <2>2 DEF NextAggregate, history
    <3>2. \A index \in DataStoreIndex : Got(index)' = Got(index)
      BY <3>1, SizesType DEF Got
    <3> QED BY <3>1, <3>2 DEF Holds
  <2>3. CASE UNCHANGED <<agg_data_, stored, added>>
    <3>1. \A index \in DataStoreIndex : Got(index)' = Got(index)
      BY <2>3 DEF Got
    <3> QED BY <2>3, <3>1 DEF Holds
  <2>4. [Next]_vars => \/ AddToStore \/ NextAggregate
                       \/ UNCHANGED <<agg_data_, stored, added>>
    <3>1. ASSUME NEW name \in Names, RegisterCallback(name) \/ UnregisterCallback(name)
          PROVE  UNCHANGED <<agg_data_, stored, added>>
      BY <3>1 DEF RegisterCallback, UnregisterCallback, control
    <3>2. ASSUME NEW batch \in Batches, ProcessMessage(batch)
          PROVE  UNCHANGED <<agg_data_, stored, added>>
      BY <3>2 DEF ProcessMessage, history
    <3>3. ASSUME ProcessBadMessage
          PROVE  UNCHANGED <<agg_data_, stored, added>>
      BY <3>3 DEF ProcessBadMessage, history, control
    <3>4. ASSUME NEW name \in Names, CallStrategy(name) \/ CallbackThrows(name)
          PROVE  UNCHANGED <<agg_data_, stored, added>>
      BY <3>4 DEF CallStrategy, CallbackThrows, history, control
    <3>5. ASSUME UNCHANGED vars
          PROVE  UNCHANGED <<agg_data_, stored, added>>
      BY <3>5 DEF vars, history, control
    <3> QED BY <3>1, <3>2, <3>3, <3>4, <3>5 DEF Next
  <2> QED BY <2>1, <2>2, <2>3, <2>4
<1> QED BY <1>1, <1>2, SpecIInv, PTL DEF Spec

(* Between two aggregates, and whenever a callback looks, every candle is   *)
(* the sum of the finer candles of its window, in each finer store that     *)
(* still has them all: one window divides the other, and both stores hold   *)
(* the newest candles of the same aggregates.                               *)
THEOREM SpecStoresAgree == Spec => []StoresAgree
<1>1. IInv /\ Holds => StoresAgree
  <2> SUFFICES ASSUME IInv, Holds, stored \in {0, NUM_DATA_STORE},
                      NEW fine \in DataStoreIndex, NEW coarse \in DataStoreIndex,
                      fine < coarse, NEW ticker \in Tickers,
                      NEW i \in DOMAIN agg_data_[coarse][ticker],
                      AllKept(agg_data_[fine][ticker], agg_data_[coarse][ticker][i].start_)
               PROVE  IsMerge(agg_data_[coarse][ticker][i], agg_data_[fine][ticker],
                              FinerCandles(agg_data_[fine][ticker], WindowSizes[coarse],
                                           agg_data_[coarse][ticker][i].start_))
    BY DEF StoresAgree
  <2> DEFINE wf == WindowSizes[fine]
             wc == WindowSizes[coarse]
             q == agg_data_[fine][ticker]
             agg == agg_data_[coarse][ticker][i]
             h == added
  <2>1. wf \in Nat \ {0} /\ wc \in Nat \ {0} /\ wc % wf = 0 /\ StoreSize \in Nat \ {0}
    <3>1. wc % wf = 0
      BY HandlerAssumption DEF DataStoreIndex
    <3> QED BY <3>1, SizesType
  <2>2. Got(fine) = h /\ Got(coarse) = h
    BY SizesType DEF Got
  <2>3. h \in Seq(Tick) /\ InOrder(h) /\ FeedInv(h)
    <3>1. /\ added \in Seq(Tick) /\ aggs \in Seq(Tick)
          /\ stored > 0 => aggs # <<>>
          /\ stored \in 0 .. NUM_DATA_STORE /\ Ordered(Feed)
      BY DEF IInv, Control
    <3>2. CASE stored = 0
      <4>1. Feed = added \o aggs
        BY <3>2 DEF Feed
      <4> QED BY <3>1, <4>1, AddedInOrder
    <3>3. CASE stored # 0
      <4>1. Feed = added \o Tail(aggs) /\ aggs # <<>>
        BY <3>1, <3>3, SizesType DEF Feed
      <4>2. Tail(aggs) \in Seq(Tick)
        BY <3>1, <4>1
      <4> QED BY <3>1, <4>1, <4>2, AddedInOrder
    <3> QED BY <3>2, <3>3
  <2>4. QueueInv(wf, StoreSize, ticker, q) /\ HoldsNewest(wf, StoreSize, ticker, h, q)
    BY <2>2 DEF IInv, Queues, Holds
  <2>5. PICK k \in TradedWindows(wc, ticker, h) : IsCandle(wc, ticker, h, k, agg)
    <3>1. HoldsNewest(wc, StoreSize, ticker, h, agg_data_[coarse][ticker])
      BY <2>2 DEF Holds
    <3> QED BY <3>1 DEF HoldsNewest
  <2>6. AllKept(q, agg.start_)
    OBVIOUS
  <2> HIDE DEF wf, wc, q, agg, h
  <2>7. IsMerge(agg, q, FinerCandles(q, wc, agg.start_))
    BY <2>1, <2>3, <2>4, <2>5, <2>6, CandlesAgree
  <2> QED BY <2>7 DEF wc, q, agg
<1> QED BY <1>1, SpecIInv, SpecHolds, PTL
=============================================================================
