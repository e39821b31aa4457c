----------------------- MODULE ChaseMomentumStrategy -----------------------
(***************************************************************************)
(* class ChaseMomentumStrategy of strategy/chase_momentum_strategy.{h,cc},  *)
(* with the calls it makes through alpaca::Client to the broker.            *)
(*                                                                          *)
(* One ProcessNewData runs to its end on the only thread, but each call to  *)
(* the broker is a step of its own: the broker fills orders in between.     *)
(* pc is where the callback is:                                             *)
(*   "init"         Init() has not been called                              *)
(*   "idle"         waiting for the next tick                               *)
(*   "submit_buy", "cancel_buy", "get_buy"     in EnterTrade                *)
(*   "submit_sell", "cancel_sell", "get_sell"  in ClearPosition             *)
(*   "settle"       ClearPosition knows what was sold; getAccount is next   *)
(*   "manage"       PositionManagement after the ClearPosition of line 160  *)
(*   "dead"         an exception nobody catches, LOG(FATAL), or a crash     *)
(* qty and limit_price are the arguments of a buy order, filled the local   *)
(* of that name, and resume is where ClearPosition returns to.              *)
(*                                                                          *)
(* Market data is abstracted to what the strategy tells apart: whether a    *)
(* tick is an entry point, whether a minute candle later than that of the   *)
(* entry has begun (later_minute), and which exit rule holds.               *)
(***************************************************************************)
EXTENDS Broker

CONSTANTS RESERVE,        \* the 25000 of EnterTrade
          MaxEntries      \* bound: buy orders in one behaviour

ASSUME StrategyAssumption == RESERVE \in Nat /\ MaxEntries \in Nat

VARIABLES trading_, quantity_, clear_, account_cash, pc, qty, limit_price,
          filled, resume, later_minute, entries, death

strategy == <<trading_, quantity_, clear_, account_cash>>
locals == <<qty, limit_price, filled, resume>>
market == <<later_minute, entries>>
vars == <<broker, strategy, pc, locals, market, death>>

Init ==
  /\ BrokerInit
  /\ trading_ = NoTicker /\ quantity_ = 0 /\ clear_ = FALSE
  /\ account_cash = 0
  /\ pc = "init"
  /\ qty = 0 /\ limit_price = 0 /\ filled = 0 /\ resume = "idle"
  /\ later_minute = FALSE /\ entries = 0
  /\ death = "none"

Die(cause) ==
  /\ pc' = "dead" /\ death' = cause
  /\ UNCHANGED locals

-----------------------------------------------------------------------------
(* Init(): it registers the callback only when the account can be read and  *)
(* may trade; otherwise main() stops.                                       *)
StrategyInit ==
  /\ pc = "init"
  /\ \/ /\ account_cash' = cash /\ pc' = "idle"
        /\ UNCHANGED <<locals, death>>
     \/ Die("aborted") /\ UNCHANGED account_cash
  /\ UNCHANGED <<broker, trading_, quantity_, clear_, market>>

(* int qty = (cash - 25000) * 0.9 / limit_price *)
AffordableShares(money, limit) == (9 * (money - RESERVE)) \div (10 * limit)

(* ProcessNewData looks for an entry only while nothing is traded.          *)
(* Mutant: at any time.                                                     *)
LooksForEntryAlways == pc = "idle"
LooksForEntry == pc = "idle" /\ trading_ = NoTicker

(* ProcessNewData at an entry point while not trading: MaybeEnterTrade, and *)
(* EnterTrade up to submitOrder.                                            *)
MaybeEnterTrade(ticker, limit) ==
  /\ LooksForEntry
  /\ entries < MaxEntries
  /\ quantity_' = 0 /\ clear_' = FALSE /\ later_minute' = FALSE
  /\ LET n == AffordableShares(account_cash, limit)
     IN  IF n <= 0
         THEN UNCHANGED <<trading_, pc, locals, entries>>
         ELSE /\ trading_' = ticker /\ pc' = "submit_buy"
              /\ qty' = n /\ limit_price' = limit
              /\ entries' = entries + 1
              /\ UNCHANGED <<filled, resume>>
  /\ UNCHANGED <<broker, account_cash, death>>

(* EnterTrade returns with n shares bought, and MaybeEnterTrade goes back   *)
(* to not trading if there are none.                                        *)
Entered(n) ==
  /\ quantity_' = n
  /\ trading_' = IF n <= 0 THEN NoTicker ELSE trading_
  /\ pc' = "idle" /\ qty' = 0 /\ limit_price' = 0
  /\ UNCHANGED <<filled, resume, death>>

SubmitBuy ==
  /\ pc = "submit_buy"
  /\ LET request == NewOrder(trading_, "buy", qty, limit_price)
     IN  \/ \E k \in 0 .. qty :
              /\ Accept(request, k)
              /\ \/ /\ k < qty /\ pc' = "cancel_buy"
                    /\ UNCHANGED <<trading_, quantity_, locals, death>>
                 \/ k = qty /\ Entered(k)
         \/ "call_lost" \in Faults /\ Entered(0) /\ UNCHANGED broker
         \/ "reply_lost" \in Faults /\ Entered(0) /\ AcceptUnseen(request)
  /\ UNCHANGED <<clear_, account_cash, market>>

(* cancelOrder: 204 and the order is read next; or the broker refuses,      *)
(* because the order was filled meanwhile, and std::stoi("") throws.        *)
CancelOrder(from, to) ==
  /\ pc = from
  /\ \/ CancelOpen /\ pc' = to /\ UNCHANGED <<locals, death>>
     \/ ~order.open /\ Die("stoi") /\ UNCHANGED broker
     \/ "call_lost" \in Faults /\ Die("stoi") /\ UNCHANGED broker
     \/ "reply_lost" \in Faults /\ Die("stoi") /\ CancelOpen
  /\ UNCHANGED <<strategy, market>>

CancelBuy == CancelOrder("cancel_buy", "get_buy")

CallFails == Faults \cap {"call_lost", "reply_lost"} # {}

(* Mutant: the shares that were ordered. *)
BoughtOrdered == order.qty
Bought == order.filled

(* getOrder inside cancelOrder, and the end of EnterTrade: filled_avg_price *)
(* is null when nothing was bought, and std::stod("") throws.               *)
GetBuy ==
  /\ pc = "get_buy"
  /\ \/ Bought > 0 /\ Entered(Bought) /\ Forget
     \/ /\ Bought = 0 /\ Die("stod")
        /\ UNCHANGED <<broker, trading_, quantity_>>
     \/ /\ CallFails /\ Die("stoi")
        /\ UNCHANGED <<broker, trading_, quantity_>>
  /\ UNCHANGED <<clear_, account_cash, market>>

-----------------------------------------------------------------------------
(* The exit rules of PositionManagement, lines 162-195.  rule is the one    *)
(* that holds: "clear" is the rule of the entry candle (price below its     *)
(* open), "sell" the breakeven rule of later candles or a candle that       *)
(* closes red.  The third branch, line 181, is never taken: line 173        *)
(* compares a price with a timestamp in milliseconds.                       *)
ExitRules(rule, later) ==
  /\ later_minute => later
  /\ rule = "clear" => ~later
  /\ later_minute' = later
  /\ clear_' = (clear_ \/ rule = "clear")
  /\ IF rule = "none" THEN pc' = "idle" ELSE pc' = "submit_sell"
  /\ resume' = "idle"
  /\ UNCHANGED <<broker, trading_, quantity_, account_cash, qty, limit_price,
                 filled, entries, death>>

(* ProcessNewData on a tick of the stock that is traded; ticks of others    *)
(* do nothing.                                                              *)
PositionManagement(rule, later) ==
  /\ pc = "idle" /\ trading_ # NoTicker
  /\ ~clear_
  /\ ExitRules(rule, later)

(* Line 160: a position that is being cleared goes on being cleared, and    *)
(* the exit rules are looked at all the same when that returns.             *)
KeepClearing ==
  /\ pc = "idle" /\ trading_ # NoTicker
  /\ clear_
  /\ pc' = "submit_sell" /\ resume' = "manage"
  /\ UNCHANGED <<broker, strategy, qty, limit_price, filled, market, death>>

ManageAfterClearing(rule, later) ==
  /\ pc = "manage" /\ trading_ # NoTicker
  /\ ExitRules(rule, later)

(* If the position is gone trading_ is "", and the exit rules read front()  *)
(* of an empty queue: undefined.  The process may crash, or read anything   *)
(* and do nothing, or read anything and sell zero shares of "", which the   *)
(* broker refuses and std::stoi("") throws.                                 *)
ManageNothing ==
  /\ pc = "manage" /\ trading_ = NoTicker
  /\ \/ /\ Die("empty_queue") /\ UNCHANGED clear_
     \/ /\ pc' = "idle" /\ resume' = "idle"
        /\ UNCHANGED <<clear_, qty, limit_price, filled, death>>
     \/ /\ Die("stoi") /\ clear_' \in BOOLEAN
  /\ UNCHANGED <<broker, trading_, quantity_, account_cash, market>>

-----------------------------------------------------------------------------
(* A failed submitOrder is logged, and then std::stoi("") throws on the     *)
(* default order it left.  Mutant: nothing was filled, sell again.          *)
SellFailsQuietly ==
  /\ pc' = "settle" /\ filled' = 0
  /\ UNCHANGED <<qty, limit_price, resume, death>>
SellFails == Die("stoi")

(* ClearPosition, up to the answer of submitOrder. *)
SubmitSell ==
  /\ pc = "submit_sell"
  /\ \E limit \in Prices :
       LET request == NewOrder(trading_, "sell", quantity_, limit)
       IN  \/ \E k \in 0 .. quantity_ :
                /\ Accept(request, k)
                /\ IF k < quantity_
                   THEN pc' = "cancel_sell" /\ UNCHANGED filled
                   ELSE pc' = "settle" /\ filled' = k
                /\ UNCHANGED <<qty, limit_price, resume, death>>
           \/ ~CanAccept(request) /\ SellFails /\ UNCHANGED broker
           \/ "call_lost" \in Faults /\ SellFails /\ UNCHANGED broker
           \/ "reply_lost" \in Faults /\ SellFails /\ AcceptUnseen(request)
  /\ UNCHANGED <<strategy, market>>

CancelSell == CancelOrder("cancel_sell", "get_sell")

GetSell ==
  /\ pc = "get_sell"
  /\ \/ /\ pc' = "settle" /\ filled' = order.filled /\ Forget
        /\ UNCHANGED <<qty, limit_price, resume, death>>
     \/ CallFails /\ Die("stoi") /\ UNCHANGED broker
  /\ UNCHANGED <<strategy, market>>

(* quantity_ -= filled.  Mutant: nothing is taken off. *)
UnsoldUnchanged == quantity_
Unsold == quantity_ - filled

(* Mutant: the stock is given up after any sale. *)
IsSoldOff == filled > 0
IsSoldOut == Unsold <= 0

(* account_ = getAccount().  Mutant: it is not refreshed. *)
RefreshedNever == account_cash
Refreshed == cash

(* The end of ClearPosition, with getAccount.  LOG(FATAL) if that fails or  *)
(* the account is blocked.                                                  *)
SettleAccount ==
  /\ pc = "settle"
  /\ quantity_' = Unsold
  /\ IF IsSoldOut THEN clear_' = FALSE /\ trading_' = NoTicker
                        ELSE UNCHANGED <<clear_, trading_>>
  /\ \/ /\ account_cash' = Refreshed /\ pc' = resume /\ filled' = 0
        /\ UNCHANGED <<qty, limit_price, resume, death>>
     \/ /\ CallFails \/ "blocked" \in Faults
        /\ Die("fatal") /\ UNCHANGED account_cash
  /\ UNCHANGED <<broker, market>>

BrokerFills == Fill /\ UNCHANGED <<strategy, pc, locals, market, death>>

Next ==
  \/ StrategyInit
  \/ \E ticker \in Tickers, limit \in Prices : MaybeEnterTrade(ticker, limit)
  \/ SubmitBuy \/ CancelBuy \/ GetBuy
  \/ \E rule \in {"clear", "sell", "none"}, later \in BOOLEAN :
       PositionManagement(rule, later) \/ ManageAfterClearing(rule, later)
  \/ KeepClearing \/ ManageNothing
  \/ SubmitSell \/ CancelSell \/ GetSell \/ SettleAccount
  \/ BrokerFills

Spec == Init /\ [][Next]_vars

-----------------------------------------------------------------------------
Order == [ticker : Tickers \cup {NoTicker}, side : {"none", "buy", "sell"},
          qty : Nat, price : Nat, filled : Nat, open : BOOLEAN]

TypeOK ==
  /\ cash \in Int /\ position \in [Tickers -> Nat]
  /\ order \in Order /\ IsABag(orphans) /\ BagToSet(orphans) \subseteq Order
  /\ trading_ \in Tickers \cup {NoTicker}
  /\ quantity_ \in Nat /\ clear_ \in BOOLEAN /\ account_cash \in Int
  /\ pc \in {"init", "idle", "submit_buy", "cancel_buy", "get_buy",
             "submit_sell", "cancel_sell", "get_sell", "settle", "manage",
             "dead"}
  /\ qty \in Nat /\ limit_price \in Nat /\ filled \in Nat
  /\ resume \in {"idle", "manage"}
  /\ later_minute \in BOOLEAN /\ entries \in 0 .. MaxEntries
  /\ death \in {"none", "aborted", "stoi", "stod", "fatal", "empty_queue"}

(* No answer of the broker has been lost on the way. *)
AllAnswered == orphans = EmptyBag

(* Between two callbacks the strategy's books agree with the account: it    *)
(* holds quantity_ shares of trading_, nothing else, and no order of its    *)
(* own is still open, whatever was filled during its calls.                 *)
BooksMatchAccount ==
  pc \in {"idle", "manage"} /\ AllAnswered =>
    /\ position = [ticker \in Tickers |->
                     IF ticker = trading_ THEN quantity_ ELSE 0]
    /\ trading_ # NoTicker => quantity_ > 0
    /\ ~order.open

(* Line 62: "we only allow trading one stock at a time".  The account never *)
(* holds two, even where the process dies in the middle of a trade.         *)
OneStockAtATime ==
  AllAnswered =>
    \A s, t \in Tickers : position[s] # 0 /\ position[t] # 0 => s = t

(* Line 120: "Always leave $25,000 cash in the account to comply with the   *)
(* PDT rule."                                                               *)
ReserveKept == InitialCash >= RESERVE => cash >= RESERVE

(* However an order is filled, whichever calls fail and wherever the        *)
(* process dies, buying does not take the cash below the reserve, as long   *)
(* as no answer is lost.                                                    *)
ReserveKeptWhenAnswered == AllAnswered => ReserveKept

(* The next order is sized with the cash the account has: account_, which   *)
(* only ClearPosition refreshes, is up to date whenever a stock may be      *)
(* entered, because every position goes through ClearPosition before.       *)
CashIsFresh ==
  pc = "idle" /\ trading_ = NoTicker /\ AllAnswered => account_cash = cash

(* A sell order never asks for more than the account holds, also when calls *)
(* or replies are lost: the shares a lost reply hides are never sold twice. *)
NeverSellsMoreThanHeld ==
  pc = "submit_sell" => quantity_ <= position[trading_]

(* A sell order whose answer is lost ends the process (std::stoi("") throws *)
(* in ClearPosition): the strategy never goes on trading, and selling       *)
(* again, with a sell order it has lost sight of.                           *)
NoSellOrderIsLost ==
  pc # "dead" => \A o \in BagToSet(orphans) : o.side = "buy"

(* The strategy, seen through the account it really has, goes through the   *)
(* cycle flat - opening - holding - closing of TradeCycle.                  *)
CyclePhase ==
  CASE \E o \in BagToSet(orphans) : o.side = "buy" -> "lost"
    [] OTHER ->
         CASE pc = "dead" -> "halted"
           [] pc \in {"submit_buy", "cancel_buy", "get_buy"} -> "opening"
           [] pc \in {"submit_sell", "cancel_sell", "get_sell", "settle"} -> "closing"
           [] OTHER -> IF trading_ = NoTicker THEN "flat" ELSE "holding"

Cycle == INSTANCE TradeCycle WITH
  phase <- CyclePhase,
  ticker <- trading_,
  shares <- position

ImplementsTradeCycle == Cycle!Spec
=============================================================================
